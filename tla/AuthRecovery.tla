---------------------------- MODULE AuthRecovery ----------------------------
(***************************************************************************)
(* How client_impl recovers from AuthErrors: the token base_client resends *)
(* with every connection, the fetcher that may replace it whenever a       *)
(* connection ends, and the count of rejections after which the client     *)
(* gives up and goes on unauthenticated.                                   *)
(*                                                                         *)
(* The server is external.  It judges the tokens it is sent in their order *)
(* and may let an accepted one expire; it sends no Transition on a         *)
(* connection before it has judged the token that came with Connect.  A    *)
(* fetcher may return any token, none, or nullopt.                         *)
(***************************************************************************)
EXTENDS Integers, Sequences

CONSTANTS
    Tokens,
    NoToken,   \* auth_token::none(), and an empty auth_
    Keep,      \* the fetcher's nullopt
    MaxSets,   \* bound: calls of set_auth
    MaxDrops   \* bound: connections lost for other reasons than AuthErrors

Identity == Tokens \cup {NoToken}

ASSUME AuthAssumption ==
    /\ NoToken \notin Tokens /\ Keep \notin Identity
    /\ MaxSets \in Nat /\ MaxDrops \in Nat

VARIABLES
    auth,      \* auth_
    fetcher,   \* is there a fetcher?
    consecutive_auth_errors,
    up,        \* conn is set and socket_open
    wire,      \* Authenticate messages queued, or not judged by the server yet
    inbox,     \* messages from the server the client has not handled yet
    identity,  \* server: the identity of the connection
    valid,     \* server: the tokens it accepts
    wanted,    \* history: the token last given by set_auth or the fetcher
    told,      \* history: have on_auth_failure listeners been called since?
    streak,    \* history: AuthErrors handled since set_auth or a Transition (at
               \* most 3 are counted)
    sets, drops

client == <<auth, fetcher, consecutive_auth_errors>>
link == <<up, wire, inbox, identity>>
history == <<wanted, told, streak>>
vars == <<client, link, valid, history, sets, drops>>

AuthError(t, attempted) == [type |-> "AuthError", about |-> t, attempted |-> attempted]
Transition == [type |-> "Transition"]

Message == [type : {"AuthError"}, about : Tokens, attempted : BOOLEAN] \cup {Transition}

-----------------------------------------------------------------------------
(* The client.                                                             *)

\* do_set_auth(): "a new token gets a fresh chance"; the Authenticate is queued
\* behind those there are, and goes out at once or after the next Connect.
SetAuth(t, f) ==
    /\ sets < MaxSets
    /\ sets' = sets + 1
    /\ auth' = t
    /\ fetcher' = f
    /\ consecutive_auth_errors' = 0
    /\ wire' = Append(wire, t)
    /\ wanted' = t /\ told' = FALSE /\ streak' = 0
    /\ UNCHANGED <<up, inbox, identity, valid, drops>>

\* begin_disconnect() and restart() with `token` held, asking the fetcher if it
\* is still there.
Restart(token, asks) ==
    /\ \E fetched \in IF asks THEN Identity \cup {Keep} ELSE {Keep} :
           /\ auth' = IF fetched = Keep THEN token ELSE fetched
           /\ wanted' = IF fetched = Keep THEN wanted ELSE fetched
    /\ up' = FALSE
    /\ wire' = IF auth' = NoToken THEN <<>> ELSE <<auth'>>
    /\ inbox' = <<>>
    /\ identity' = NoToken
    /\ UNCHANGED <<valid, sets>>

\* Mutant: one more rejection is tolerated.
TerminalLate(e) == e.attempted \/ ~fetcher \/ consecutive_auth_errors + 1 >= 3

\* The rejection after which authenticating again cannot succeed.
Terminal(e) == e.attempted \/ ~fetcher \/ consecutive_auth_errors + 1 >= 2

\* Mutant: nobody is told.
GiveUpSilently ==
    /\ fetcher' = FALSE
    /\ consecutive_auth_errors' = 0
    /\ told' = told
    /\ Restart(NoToken, FALSE)

\* Token and fetcher are dropped and the listeners told.
GiveUp ==
    /\ fetcher' = FALSE
    /\ consecutive_auth_errors' = 0
    /\ told' = TRUE
    /\ Restart(NoToken, FALSE)

\* Mutant: rejections are not counted.
TryAgainUncounted ==
    /\ Restart(auth, fetcher)
    /\ UNCHANGED <<fetcher, consecutive_auth_errors, told>>

TryAgain ==
    /\ consecutive_auth_errors' = consecutive_auth_errors + 1
    /\ Restart(auth, fetcher)
    /\ UNCHANGED <<fetcher, told>>

\* ws_message() with an AuthError.
ReceiveAuthError ==
    /\ inbox # <<>>
    /\ LET e == Head(inbox) IN
           /\ e.type = "AuthError"
           /\ \/ Terminal(e) /\ GiveUp
              \/ ~Terminal(e) /\ TryAgain
    /\ streak' = IF streak < 3 THEN streak + 1 ELSE streak
    /\ UNCHANGED drops

\* ws_message() with a Transition that brings the client in sync.
ReceiveTransition ==
    /\ inbox # <<>> /\ Head(inbox).type = "Transition"
    /\ inbox' = Tail(inbox)
    /\ consecutive_auth_errors' = 0
    /\ streak' = 0
    /\ UNCHANGED <<auth, fetcher, up, wire, identity, valid, wanted, told, sets, drops>>

\* A lost connection or a failed attempt.
Disconnect ==
    /\ drops < MaxDrops
    /\ drops' = drops + 1
    /\ Restart(auth, fetcher)
    /\ UNCHANGED <<fetcher, consecutive_auth_errors, told, streak>>

\* The next connection: Connect, and what is queued.
Open ==
    /\ ~up
    /\ up' = TRUE
    /\ UNCHANGED <<client, wire, inbox, identity, valid, history, sets, drops>>

-----------------------------------------------------------------------------
(* The server.                                                             *)

Judge ==
    /\ up /\ wire # <<>>
    /\ wire' = Tail(wire)
    /\ LET t == Head(wire) IN
           \/ /\ t \in valid \cup {NoToken}
              /\ identity' = t
              /\ UNCHANGED inbox
           \/ /\ t \in Tokens \ valid
              /\ \E attempted \in BOOLEAN : inbox' = Append(inbox, AuthError(t, attempted))
              /\ UNCHANGED identity
    /\ UNCHANGED <<client, up, valid, history, sets, drops>>

SendTransition ==
    /\ up /\ wire = <<>> /\ inbox = <<>>
    /\ inbox' = <<Transition>>
    /\ UNCHANGED <<client, up, wire, identity, valid, history, sets, drops>>

Expire(t) ==
    /\ valid' = valid \ {t}
    /\ IF identity = t
       THEN /\ inbox' = Append(inbox, AuthError(t, FALSE))
            /\ identity' = NoToken
       ELSE UNCHANGED <<inbox, identity>>
    /\ UNCHANGED <<client, up, wire, history, sets, drops>>

-----------------------------------------------------------------------------
Init ==
    /\ auth = NoToken /\ fetcher = FALSE /\ consecutive_auth_errors = 0
    /\ up = FALSE /\ wire = <<>> /\ inbox = <<>> /\ identity = NoToken
    /\ valid \in SUBSET Tokens
    /\ wanted = NoToken /\ told = FALSE /\ streak = 0
    /\ sets = 0 /\ drops = 0

Receive == ReceiveAuthError \/ ReceiveTransition

Next ==
    \/ \E t \in Identity, f \in BOOLEAN : SetAuth(t, f)
    \/ Receive
    \/ Disconnect
    \/ Open
    \/ Judge
    \/ SendTransition
    \/ \E t \in valid : Expire(t)

Spec == Init /\ [][Next]_vars

\* The worker connects, the socket delivers, the server judges what it is sent.
Fairness == WF_vars(Open) /\ WF_vars(Receive) /\ WF_vars(Judge)

FairSpec == Spec /\ Fairness

-----------------------------------------------------------------------------
\* Types of the client's members and of the channels; the counter never
\* outgrows the limit it is compared with.
TypeOK ==
    /\ auth \in Identity /\ wanted \in Identity /\ identity \in Identity
    /\ fetcher \in BOOLEAN /\ up \in BOOLEAN /\ told \in BOOLEAN
    /\ consecutive_auth_errors \in 0..1
    /\ wire \in Seq(Identity)
    /\ inbox \in Seq(Message)
    /\ valid \subseteq Tokens
    /\ streak \in Nat

\* The client never stops using a token behind the program's back: it holds
\* what set_auth or the fetcher gave it last, or has told the listeners that
\* it gave up (client.h on_auth_failure; client.cpp ws_message, do_set_auth,
\* begin_disconnect).
HeldOrTold == auth = wanted \/ (auth = NoToken /\ told)

\* The server is not hammered: without a new token from the program or a
\* Transition in between, it rejects the client at most twice, and one that
\* gave up sends no token over any number of connections (client.cpp
\* "stop re-authenticating instead of hammering the server").
NoHammering ==
    /\ streak <= 2
    /\ told => wire = <<>> /\ ~fetcher /\ auth = NoToken

\* However tokens expire and whatever the fetcher returns, client and server
\* end up agreeing on the identity (client.cpp ws_message, restart).
EventuallyAgreed == <>[](up /\ wire = <<>> /\ identity = auth)
=============================================================================
