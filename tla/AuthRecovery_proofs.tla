------------------------- MODULE AuthRecovery_proofs -------------------------
(***************************************************************************)
(* Giving up is final and told, and rejections are bounded, for any tokens *)
(* and any number of set_auth calls and lost connections.                  *)
(***************************************************************************)
EXTENDS AuthRecovery, TLAPS

\* Once the client has given up there is no token left to be rejected.
GaveUp ==
    /\ auth = NoToken /\ ~fetcher
    /\ wire = <<>>
    /\ identity = NoToken
    /\ \A i \in DOMAIN inbox : inbox[i].type = "Transition"

\* The rejections since the last fresh start are the ones counted, plus the
\* terminal one.
Counted == IF told THEN streak <= 2 ELSE streak = consecutive_auth_errors

\* The inductive invariant.
AuthInv ==
    /\ TypeOK
    /\ HeldOrTold
    /\ told => GaveUp
    /\ Counted

\* Both channels may be empty.
LEMMA Empty == <<>> \in Seq(Message) /\ <<>> \in Seq(Identity)
    OBVIOUS

\* An inbox without rejections stays without them while other messages come
\* and go.
LEMMA InboxAppend ==
    ASSUME NEW s \in Seq(Message), NEW m \in Message
    PROVE  /\ Append(s, m) \in Seq(Message)
           /\ s # <<>> => Head(s) \in Message /\ Tail(s) \in Seq(Message)
           /\ (\A i \in DOMAIN s : s[i].type = "Transition") /\ m.type = "Transition" =>
                  \A i \in DOMAIN Append(s, m) : Append(s, m)[i].type = "Transition"
           /\ s # <<>> /\ (\A i \in DOMAIN s : s[i].type = "Transition") =>
                  /\ Head(s).type = "Transition"
                  /\ \A i \in DOMAIN Tail(s) : Tail(s)[i].type = "Transition"
<1> DEFINE M == Message
<1>1. s \in Seq(M) /\ m \in M
    OBVIOUS
<1> HIDE DEF M
<1>2. /\ Append(s, m) \in Seq(M)
      /\ s # <<>> => Head(s) \in M /\ Tail(s) \in Seq(M)
    BY <1>1
<1>3. (\A i \in DOMAIN s : s[i].type = "Transition") /\ m.type = "Transition" =>
          \A i \in DOMAIN Append(s, m) : Append(s, m)[i].type = "Transition"
    BY <1>1
<1>4. s # <<>> /\ (\A i \in DOMAIN s : s[i].type = "Transition") =>
          /\ Head(s).type = "Transition"
          /\ \A i \in DOMAIN Tail(s) : Tail(s)[i].type = "Transition"
    BY <1>1
<1>5. QED
    BY <1>2, <1>3, <1>4 DEF M

\* The types of what a restart changes.
RestartTypes ==
    /\ auth \in Identity /\ wanted \in Identity /\ identity \in Identity
    /\ up \in BOOLEAN
    /\ wire \in Seq(Identity) /\ inbox \in Seq(Message)
    /\ valid \subseteq Tokens

\* A restart keeps the types, and keeps whoever has given up that way.
LEMMA RestartKeeps ==
    ASSUME TypeOK, NEW token \in Identity, NEW asks \in BOOLEAN, Restart(token, asks)
    PROVE  /\ RestartTypes'
           /\ inbox' = <<>> /\ identity' = NoToken /\ (auth' = NoToken => wire' = <<>>)
           /\ \/ auth' = token /\ wanted' = wanted
              \/ asks /\ auth' = wanted'
<1>1. up' \in BOOLEAN
    BY DEF Restart
<1>2. /\ auth' \in Identity /\ wanted' \in Identity
      /\ \/ auth' = token /\ wanted' = wanted
         \/ asks /\ auth' = wanted'
    BY AuthAssumption DEF Restart, TypeOK, Identity
<1>3. inbox' = <<>> /\ identity' = NoToken /\ valid' \subseteq Tokens
    BY DEF Restart, TypeOK
<1>4. wire' \in Seq(Identity) /\ (auth' = NoToken => wire' = <<>>)
    <2>1. <<auth'>> \in Seq(Identity)
        BY <1>2
    <2>2. QED
        BY <2>1, Empty DEF Restart
<1>5. QED
    BY <1>1, <1>2, <1>3, <1>4, Empty DEF RestartTypes, Identity

\* No step of the client, the server or the network breaks the invariant.
LEMMA AuthStep == AuthInv /\ [Next]_vars => AuthInv'
<1> SUFFICES ASSUME AuthInv, [Next]_vars PROVE AuthInv'
    OBVIOUS
<1> USE AuthAssumption, Empty
<1>1. TypeOK /\ HeldOrTold /\ (told => GaveUp) /\ Counted
    BY DEF AuthInv
<1>2. inbox \in Seq(Message) /\ wire \in Seq(Identity)
    BY <1>1 DEF TypeOK
<1>3. ASSUME NEW t \in Identity, NEW f \in BOOLEAN, SetAuth(t, f) PROVE AuthInv'
    <2>1. wire' \in Seq(Identity)
        BY <1>2, <1>3 DEF SetAuth
    <2>2. TypeOK'
        <3>1. fetcher' \in BOOLEAN /\ up' \in BOOLEAN /\ told' \in BOOLEAN
            BY <1>1, <1>3 DEF SetAuth, TypeOK
        <3>2. consecutive_auth_errors' \in 0..1 /\ streak' \in Nat
            BY <1>1, <1>3 DEF SetAuth, TypeOK
        <3>3. QED
            BY <1>1, <1>3, <2>1, <3>1, <3>2 DEF SetAuth, TypeOK
    <2>3. HeldOrTold' /\ ~told' /\ Counted'
        BY <1>3 DEF SetAuth, HeldOrTold, Counted
    <2>4. QED
        BY <2>2, <2>3 DEF AuthInv
<1>4. CASE ReceiveAuthError
    <2>1. inbox # <<>> /\ Head(inbox) \in Message /\ Head(inbox).type = "AuthError"
        BY <1>2, <1>4, InboxAppend DEF ReceiveAuthError
    <2>2. ~told
        BY <1>1, <1>2, <2>1 DEF GaveUp
    <2>3. streak = consecutive_auth_errors /\ consecutive_auth_errors \in 0..1
        BY <1>1, <2>2 DEF Counted, TypeOK
    <2>4. streak' = streak + 1
        BY <1>4, <2>3 DEF ReceiveAuthError
    <2>5. CASE GiveUp
        <3>1. Restart(NoToken, FALSE) /\ NoToken \in Identity
            BY <2>5 DEF GiveUp, Identity
        <3>2. /\ RestartTypes' /\ auth' = NoToken
              /\ wire' = <<>> /\ inbox' = <<>> /\ identity' = NoToken
            BY <1>1, <3>1, RestartKeeps
        <3>3. TypeOK'
            <4>1. fetcher' \in BOOLEAN /\ told' \in BOOLEAN
                BY <1>1, <2>5, <3>2 DEF GiveUp, TypeOK
            <4>2. consecutive_auth_errors' \in 0..1 /\ streak' \in Nat
                BY <1>1, <2>5, <3>2, <2>3, <2>4 DEF GiveUp, TypeOK
            <4>3. QED
                BY <3>2, <4>1, <4>2 DEF RestartTypes, TypeOK
        <3>4. HeldOrTold' /\ GaveUp' /\ Counted'
            BY <2>3, <2>4, <2>5, <3>2 DEF GiveUp, HeldOrTold, GaveUp, Counted
        <3>5. QED
            BY <3>3, <3>4 DEF AuthInv
    <2>6. CASE ~Terminal(Head(inbox)) /\ TryAgain
        <3>1. Restart(auth, fetcher) /\ auth \in Identity /\ fetcher \in BOOLEAN
            BY <1>1, <2>6 DEF TryAgain, TypeOK
        <3>2. /\ RestartTypes'
              /\ (auth' = auth /\ wanted' = wanted) \/ auth' = wanted'
            BY <1>1, <3>1, RestartKeeps
        <3>3. consecutive_auth_errors' = 1 /\ streak' = 1
            BY <2>3, <2>4, <2>6 DEF Terminal, TryAgain
        <3>4. TypeOK'
            <4>1. fetcher' \in BOOLEAN /\ told' \in BOOLEAN
                BY <1>1, <2>6, <3>2 DEF TryAgain, TypeOK
            <4>2. consecutive_auth_errors' \in 0..1 /\ streak' \in Nat
                BY <1>1, <2>6, <3>2, <3>3 DEF TryAgain, TypeOK
            <4>3. QED
                BY <3>2, <4>1, <4>2 DEF RestartTypes, TypeOK
        <3>5. HeldOrTold' /\ ~told' /\ Counted'
            BY <1>1, <2>2, <2>6, <3>2, <3>3 DEF TryAgain, HeldOrTold, Counted
        <3>6. QED
            BY <3>4, <3>5 DEF AuthInv
    <2>7. QED
        BY <1>4, <2>5, <2>6 DEF ReceiveAuthError
<1>5. CASE ReceiveTransition
    <2>1. inbox' \in Seq(Message)
        BY <1>2, <1>5, InboxAppend DEF ReceiveTransition
    <2>2. TypeOK'
        BY <1>1, <1>5, <2>1 DEF ReceiveTransition, TypeOK
    <2>3. HeldOrTold' /\ Counted'
        BY <1>1, <1>5 DEF ReceiveTransition, HeldOrTold, Counted
    <2>4. told' => GaveUp'
        <3>1. (\A i \in DOMAIN inbox : inbox[i].type = "Transition") =>
                  \A i \in DOMAIN inbox' : inbox'[i].type = "Transition"
            BY <1>2, <1>5, InboxAppend, Transition \in Message DEF ReceiveTransition, Message
        <3>2. QED
            BY <1>1, <1>5, <3>1 DEF ReceiveTransition, GaveUp
    <2>5. QED
        BY <2>2, <2>3, <2>4 DEF AuthInv
<1>6. CASE Disconnect
    <2>1. Restart(auth, fetcher) /\ auth \in Identity /\ fetcher \in BOOLEAN
        BY <1>1, <1>6 DEF Disconnect, TypeOK
    <2>2. /\ RestartTypes'
          /\ inbox' = <<>> /\ identity' = NoToken /\ (auth' = NoToken => wire' = <<>>)
          /\ (auth' = auth /\ wanted' = wanted) \/ (fetcher /\ auth' = wanted')
        BY <1>1, <2>1, RestartKeeps
    <2>3. TypeOK'
        <3>1. fetcher' \in BOOLEAN /\ up' \in BOOLEAN /\ told' \in BOOLEAN
            BY <1>1, <1>6, <2>2 DEF Disconnect, TypeOK, RestartTypes
        <3>2. consecutive_auth_errors' \in 0..1 /\ streak' \in Nat
            BY <1>1, <1>6, <2>2 DEF Disconnect, TypeOK
        <3>3. QED
            BY <2>2, <3>1, <3>2 DEF RestartTypes, TypeOK
    <2>4. HeldOrTold' /\ Counted'
        BY <1>1, <1>6, <2>2 DEF Disconnect, HeldOrTold, Counted
    <2>5. told' => GaveUp'
        BY <1>1, <1>6, <2>2 DEF Disconnect, GaveUp
    <2>6. QED
        BY <2>3, <2>4, <2>5 DEF AuthInv
<1>7. CASE Open
    <2>1. TypeOK'
        BY <1>1, <1>7 DEF Open, TypeOK, client, history
    <2>2. QED
        BY <1>1, <1>7, <2>1
        DEF Open, client, history, AuthInv, HeldOrTold, GaveUp, Counted
<1>8. CASE Judge
    <2>1. wire # <<>> /\ Head(wire) \in Identity /\ wire' \in Seq(Identity)
        BY <1>2, <1>8 DEF Judge
    <2>2. ~told
        BY <1>1, <2>1 DEF GaveUp
    <2>3. inbox' \in Seq(Message)
        BY <1>2, <1>8, InboxAppend DEF Judge, AuthError, Message
    <2>4. identity' \in Identity
        BY <1>1, <1>8, <2>1 DEF Judge, TypeOK
    <2>5. TypeOK'
        BY <1>1, <1>8, <2>1, <2>3, <2>4 DEF Judge, TypeOK, client, history
    <2>6. QED
        BY <1>1, <1>8, <2>2, <2>5 DEF Judge, client, history, AuthInv, HeldOrTold, Counted
<1>9. CASE SendTransition
    <2>1. inbox' \in Seq(Message) /\ inbox' = <<Transition>>
        BY <1>9 DEF SendTransition, Message
    <2>2. TypeOK'
        BY <1>1, <1>9, <2>1 DEF SendTransition, TypeOK, client, history
    <2>3. \A i \in DOMAIN inbox' : inbox'[i].type = "Transition"
        BY <2>1 DEF Transition
    <2>4. QED
        BY <1>1, <1>9, <2>2, <2>3
        DEF SendTransition, client, history, AuthInv, HeldOrTold, GaveUp, Counted
<1>10. ASSUME NEW t \in valid, Expire(t) PROVE AuthInv'
    <2>1. t \in Tokens /\ valid' \subseteq Tokens
        BY <1>1, <1>10 DEF Expire, TypeOK
    <2>2. inbox' \in Seq(Message) /\ identity' \in Identity
        BY <1>1, <1>2, <1>10, <2>1, InboxAppend DEF Expire, AuthError, Message, TypeOK, Identity
    <2>3. TypeOK'
        BY <1>1, <1>10, <2>1, <2>2 DEF Expire, TypeOK, client, history
    <2>4. told => UNCHANGED <<inbox, identity>>
        BY <1>1, <1>10, <2>1 DEF Expire, GaveUp
    <2>5. QED
        BY <1>1, <1>10, <2>3, <2>4
        DEF Expire, client, history, AuthInv, HeldOrTold, GaveUp, Counted
<1>11. CASE UNCHANGED vars
    BY <1>1, <1>11 DEF vars, client, link, history, AuthInv, TypeOK, HeldOrTold, GaveUp, Counted
<1>12. QED
    BY <1>3, <1>4, <1>5, <1>6, <1>7, <1>8, <1>9, <1>10, <1>11 DEF Next, Receive

\* The invariant holds before anything happened.
LEMMA AuthStart == Init => AuthInv
<1> SUFFICES ASSUME Init PROVE AuthInv
    OBVIOUS
<1>1. /\ fetcher \in BOOLEAN /\ up \in BOOLEAN /\ told \in BOOLEAN
      /\ ~told
    BY DEF Init
<1>2. TypeOK
    BY <1>1, AuthAssumption, Empty DEF Init, TypeOK, Identity
<1>3. HeldOrTold /\ Counted
    BY <1>1 DEF Init, HeldOrTold, Counted
<1>4. QED
    BY <1>1, <1>2, <1>3 DEF AuthInv

\* The client never stops using a token behind the program's back, whatever
\* the server rejects and the fetcher returns (client.cpp ws_message,
\* do_set_auth, begin_disconnect).
THEOREM HeldOrToldAlways == Spec => []HeldOrTold
<1>1. AuthInv => HeldOrTold
    BY DEF AuthInv
<1>2. QED
    BY <1>1, AuthStart, AuthStep, PTL DEF Spec

\* At most two rejections without a fresh start, and none after giving up
\* (client.cpp "stop re-authenticating instead of hammering the server").
THEOREM NoHammeringAlways == Spec => []NoHammering
<1>1. AuthInv => NoHammering
    BY DEF AuthInv, NoHammering, GaveUp, Counted, TypeOK
<1>2. QED
    BY <1>1, AuthStart, AuthStep, PTL DEF Spec
=============================================================================
