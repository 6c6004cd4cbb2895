------------------------- MODULE SyncSession_proofs -------------------------
(***************************************************************************)
(* The client of BaseClient in a session with its server, for every value  *)
(* of the constants: any queries and requests, any number of connections   *)
(* and losses, any timing.  First what it holds of queries and what its    *)
(* subscribers see, then what becomes of requests: mutations commit in the *)
(* order they were asked for, and callers hear what happened.              *)
(***************************************************************************)
EXTENDS SyncSession, BaseClient_proofs

USE DEF QueryId, RequestId, Timestamp, Snapshot, Journal

-----------------------------------------------------------------------------
(* Sequences.                                                              *)

\* A finite set as a sequence: every element is in it once.
LEMMA SetToSeqProperties ==
    ASSUME NEW S, IsFiniteSet(S), NEW T, S \subseteq T
    PROVE  /\ SetToSeq(S) \in Seq(T)
           /\ \A i \in DOMAIN SetToSeq(S) : SetToSeq(S)[i] \in S
           /\ \A i, j \in DOMAIN SetToSeq(S) : SetToSeq(S)[i] = SetToSeq(S)[j] => i = j
           /\ \A x \in S : \E i \in DOMAIN SetToSeq(S) : SetToSeq(S)[i] = x
<1> DEFINE n == Cardinality(S)
<1>1. n \in Nat /\ ExistsBijection(1..n, S)
    BY FS_CardinalityType
<1>2. PICK g \in [1..n -> S] : IsInjective(g)
    BY <1>1 DEF ExistsBijection, Bijection, Injection, IsInjective
<1>3. PICK f : f = SetToSeq(S)
    OBVIOUS
<1>4. f \in [1..n -> S] /\ IsInjective(f)
    BY <1>2, <1>3 DEF SetToSeq
<1>5. f \in Injection(1..n, S)
    BY <1>4 DEF Injection, IsInjective
<1>6. IsFiniteSet(1..n) /\ Cardinality(1..n) = n
    BY <1>1, FS_Interval
<1>7. f \in Surjection(1..n, S)
    BY <1>5, <1>6, FS_Injection
<1>8. f \in Seq(T)
    <2>1. \A i \in 1..n : f[i] \in T
        BY <1>4
    <2>2. f = [i \in 1..n |-> f[i]]
        BY <1>4
    <2> QED
        BY <1>1, <2>1, <2>2, IsASeq
<1> QED
    BY <1>3, <1>4, <1>7, <1>8 DEF IsInjective, Surjection

\* The rest of a sequence.
LEMMA TailProperties ==
    ASSUME NEW S, NEW s \in Seq(S), s # <<>>
    PROVE  /\ Head(s) \in S /\ Head(s) = s[1] /\ 1 \in DOMAIN s
           /\ Tail(s) \in Seq(S)
           /\ DOMAIN s = 1..Len(s) /\ Len(s) \in Nat \ {0}
           /\ DOMAIN Tail(s) = 1..(Len(s) - 1)
           /\ \A i \in 1..(Len(s) - 1) : Tail(s)[i] = s[i + 1]
<1>1. /\ Head(s) \in S /\ Tail(s) \in Seq(S) /\ Len(Tail(s)) = Len(s) - 1
      /\ \A i \in 1..Len(Tail(s)) : Tail(s)[i] = s[i + 1]
    BY HeadTailProperties
<1>2. Len(s) \in Nat \ {0} /\ DOMAIN s = 1..Len(s)
    BY EmptySeq, LenProperties
<1>3. DOMAIN Tail(s) = 1..Len(Tail(s))
    BY <1>1, LenProperties
<1> QED
    BY <1>1, <1>2, <1>3

\* A sequence with an element more.
LEMMA AppendDomain ==
    ASSUME NEW S, NEW s \in Seq(S), NEW x \in S
    PROVE  /\ Append(s, x) \in Seq(S)
           /\ DOMAIN s = 1..Len(s) /\ Len(s) \in Nat
           /\ DOMAIN Append(s, x) = 1..(Len(s) + 1)
           /\ \A i \in 1..Len(s) : Append(s, x)[i] = s[i]
           /\ Append(s, x)[Len(s) + 1] = x
BY AppendProperties, LenProperties

\* The elements of a finite set of integers below one of them.
Below(S, i) == {j \in S : j < i}

\* Counting them numbers the set in its order, from 0 and without a gap.
LEMMA Ranks ==
    ASSUME NEW S \in SUBSET Int, IsFiniteSet(S), NEW n, n = Cardinality(S)
    PROVE  /\ n \in Nat
           /\ \A i \in S : Cardinality(Below(S, i)) \in 0..(n - 1)
           /\ \A i, j \in S : i < j => Cardinality(Below(S, i)) < Cardinality(Below(S, j))
           /\ \A k \in 0..(n - 1) : \E i \in S : Cardinality(Below(S, i)) = k
<1>1. n \in Nat
    BY FS_CardinalityType
<1>2. ASSUME NEW T, IsFiniteSet(T), NEW i \in T, NEW R \in SUBSET T, i \notin R
      PROVE  Cardinality(R) \in Nat /\ Cardinality(T) \in Nat /\ Cardinality(R) < Cardinality(T)
    <2>1. /\ IsFiniteSet(T \ {i}) /\ Cardinality(T \ {i}) = Cardinality(T) - 1
          /\ Cardinality(T) \in Nat
        BY <1>2, FS_RemoveElement, FS_CardinalityType
    <2>2. R \in SUBSET (T \ {i})
        BY <1>2
    <2>3. IsFiniteSet(R) /\ Cardinality(R) <= Cardinality(T \ {i})
        BY <2>1, <2>2, FS_Subset
    <2> QED
        BY <2>1, <2>3, FS_CardinalityType
<1>3. ASSUME NEW i \in S PROVE Cardinality(Below(S, i)) \in 0..(n - 1)
    <2>1. Below(S, i) \in SUBSET S /\ i \notin Below(S, i)
        BY DEF Below
    <2> QED
        BY <1>1, <1>2, <2>1
<1>4. ASSUME NEW i \in S, NEW j \in S, i < j
      PROVE  Cardinality(Below(S, i)) < Cardinality(Below(S, j))
    <2>0. i \in Int /\ j \in Int /\ ~(i < i) /\ \A x \in S : x < i => x < j
        BY <1>4
    <2>1. /\ Below(S, i) \in SUBSET Below(S, j) /\ i \in Below(S, j) /\ i \notin Below(S, i)
          /\ Below(S, j) \in SUBSET S
        BY <1>4, <2>0 DEF Below
    <2>2. IsFiniteSet(Below(S, j))
        BY <2>1, FS_Subset
    <2> QED
        BY <1>2, <2>1, <2>2
<1> DEFINE r == [i \in S |-> Cardinality(Below(S, i))]
<1>5. r \in Injection(S, 0..(n - 1))
    <2>1. r \in [S -> 0..(n - 1)]
        BY <1>3
    <2>2. \A i, j \in S : r[i] = r[j] => i = j
        BY <1>3, <1>4
    <2> HIDE DEF r
    <2> QED
        BY <2>1, <2>2 DEF Injection, IsInjective
<1>6. r \in Surjection(S, 0..(n - 1))
    <2>0. n - 1 \in Int /\ (0 > n - 1 => n = 0) /\ (n - 1) - 0 + 1 = n
        BY <1>1
    <2>1. IsFiniteSet(0..(n - 1)) /\ Cardinality(0..(n - 1)) = n
        BY ONLY <2>0, FS_Interval
    <2> HIDE DEF r
    <2> QED
        BY <1>5, <2>1, FS_Injection
<1> QED
    BY <1>1, <1>3, <1>4, <1>6 DEF Surjection

RequestFrame == [type : {"Mutation", "Action"}, id : RequestId]

\* The positions of the requests among some frames.
RequestsIn(t) == {i \in DOMAIN t : t[i].type \in {"Mutation", "Action"}}

\* The requests of some frames are all of them, in their order.
LEMMA RequestsOfProperties ==
    ASSUME NEW t \in Seq(ClientMessage)
    PROVE  /\ RequestsOf(t) \in Seq(RequestFrame)
           /\ \E p \in [DOMAIN RequestsOf(t) -> RequestsIn(t)] :
                 /\ \A k \in DOMAIN RequestsOf(t) : RequestsOf(t)[k] = t[p[k]]
                 /\ \A k, l \in DOMAIN RequestsOf(t) : k < l => p[k] < p[l]
                 /\ \A i \in RequestsIn(t) : \E k \in DOMAIN RequestsOf(t) : p[k] = i
<1> DEFINE n == Cardinality(RequestsIn(t))
           at(k) == CHOOSE i \in RequestsIn(t) : Cardinality(Below(RequestsIn(t), i)) = k - 1
           p == [k \in 1..n |-> at(k)]
<1>1. DOMAIN t = 1..Len(t) /\ Len(t) \in Nat
    BY LenProperties
<1>2. RequestsIn(t) \in SUBSET (1..Len(t)) /\ IsFiniteSet(1..Len(t))
    BY <1>1, FS_Interval DEF RequestsIn
<1>3. RequestsIn(t) \in SUBSET Int /\ IsFiniteSet(RequestsIn(t))
    BY <1>2, FS_Subset
<1>4. /\ n \in Nat
      /\ \A i \in RequestsIn(t) : Cardinality(Below(RequestsIn(t), i)) \in 0..(n - 1)
      /\ \A i, j \in RequestsIn(t) :
            i < j => Cardinality(Below(RequestsIn(t), i)) < Cardinality(Below(RequestsIn(t), j))
      /\ \A k \in 0..(n - 1) : \E i \in RequestsIn(t) : Cardinality(Below(RequestsIn(t), i)) = k
    BY <1>3, Ranks
<1>5. RequestsOf(t) = [k \in 1..n |-> t[at(k)]]
    BY DEF RequestsOf, RequestsIn, Below
<1>6. ASSUME NEW k \in 1..n
      PROVE  at(k) \in RequestsIn(t) /\ Cardinality(Below(RequestsIn(t), at(k))) = k - 1
    <2>1. k - 1 \in 0..(n - 1)
        BY <1>4
    <2> QED
        BY <1>4, <2>1
<1> HIDE DEF at, n
<1>7. p \in [1..n -> RequestsIn(t)] /\ \A k \in 1..n : p[k] = at(k)
    BY <1>6
<1>8. ASSUME NEW k \in 1..n PROVE t[at(k)] \in RequestFrame
    <2>1. at(k) \in DOMAIN t /\ t[at(k)].type \in {"Mutation", "Action"}
        BY <1>6 DEF RequestsIn
    <2>2. t[at(k)] \in ClientMessage
        BY <1>1, <2>1, ElementOfSeq
    <2> QED
        BY <2>1, <2>2 DEF ClientMessage, RequestFrame
<1>9. RequestsOf(t) \in Seq(RequestFrame)
    BY <1>4, <1>5, <1>8, IsASeq
<1>10. DOMAIN RequestsOf(t) = 1..n /\ \A k \in 1..n : RequestsOf(t)[k] = t[p[k]]
    BY <1>5, <1>7
<1>11. ASSUME NEW k \in 1..n, NEW l \in 1..n, k < l PROVE p[k] < p[l]
    <2>1. p[k] \in Int /\ p[l] \in Int
        BY <1>3, <1>7
    <2>2. ~(p[l] < p[k]) /\ p[k] # p[l]
        BY <1>4, <1>6, <1>7, <1>11
    <2> QED
        BY <2>1, <2>2
<1>12. ASSUME NEW i \in RequestsIn(t) PROVE \E k \in 1..n : p[k] = i
    <2> DEFINE k == Cardinality(Below(RequestsIn(t), i)) + 1
    <2>1. k \in 1..n
        BY <1>4
    <2>2. at(k) \in RequestsIn(t) /\ Cardinality(Below(RequestsIn(t), at(k))) = k - 1
        BY <1>6, <2>1
    <2>3. at(k) \in Int /\ i \in Int
        BY <1>3, <2>2
    <2>4. at(k) = i
        <3>1. PICK a : a = at(k)
            OBVIOUS
        <3>2. Cardinality(Below(RequestsIn(t), i)) \in Nat
            BY <1>4
        <3>3. Cardinality(Below(RequestsIn(t), a)) = Cardinality(Below(RequestsIn(t), i))
            BY <2>2, <3>1, <3>2
        <3>4. ~(a < i) /\ ~(i < a)
            BY <1>4, <2>2, <3>1, <3>2, <3>3
        <3> QED
            BY <2>3, <3>1, <3>4
    <2> QED
        BY <1>7, <2>1, <2>4
<1> HIDE DEF p
<1>13. p \in [DOMAIN RequestsOf(t) -> RequestsIn(t)]
    BY <1>7, <1>10
<1>14. /\ \A k \in DOMAIN RequestsOf(t) : RequestsOf(t)[k] = t[p[k]]
       /\ \A k, l \in DOMAIN RequestsOf(t) : k < l => p[k] < p[l]
       /\ \A i \in RequestsIn(t) : \E k \in DOMAIN RequestsOf(t) : p[k] = i
    BY <1>10, <1>11, <1>12
<1>15. \E q \in [DOMAIN RequestsOf(t) -> RequestsIn(t)] :
          /\ \A k \in DOMAIN RequestsOf(t) : RequestsOf(t)[k] = t[q[k]]
          /\ \A k, l \in DOMAIN RequestsOf(t) : k < l => q[k] < q[l]
          /\ \A i \in RequestsIn(t) : \E k \in DOMAIN RequestsOf(t) : q[k] = i
    <2> WITNESS p \in [DOMAIN RequestsOf(t) -> RequestsIn(t)]
    <2> QED
        BY <1>14
<1> QED
    BY <1>9, <1>15

\* The frames the server had not handled when the connection closed.
LEMMA RestType ==
    ASSUME NEW s \in Seq(ClientMessage), NEW k \in 0..Len(s)
    PROVE  /\ SubSeq(s, k + 1, Len(s)) \in Seq(ClientMessage)
           /\ DOMAIN SubSeq(s, k + 1, Len(s)) = 1..(Len(s) - k)
           /\ \A i \in 1..(Len(s) - k) : SubSeq(s, k + 1, Len(s))[i] = s[k + i]
<1>1. Len(s) \in Nat /\ k \in Nat /\ k + 1 \in Int
    BY LenProperties
<1>2. \A i \in (k + 1)..Len(s) : s[i] \in ClientMessage
    BY <1>1, ElementOfSeq
<1> DEFINE u == SubSeq(s, k + 1, Len(s))
<1>3. /\ u \in Seq(ClientMessage)
      /\ Len(u) = IF k + 1 <= Len(s) THEN Len(s) - (k + 1) + 1 ELSE 0
      /\ \A i \in 1..(Len(s) - (k + 1) + 1) : u[i] = s[(k + 1) + i - 1]
    BY <1>1, <1>2, SubSeqProperties
<1>4. DOMAIN u = 1..Len(u) /\ Len(u) = Len(s) - k
    BY <1>1, <1>3, LenProperties
<1> HIDE DEF u
<1>5. \A i \in 1..(Len(s) - k) : (k + 1) + i - 1 = k + i
    BY <1>1
<1> QED
    BY <1>1, <1>3, <1>4, <1>5 DEF u

-----------------------------------------------------------------------------
(* The client in its session.                                              *)

\* What is known of the client whatever its server does.
ClientInv == TypeOK /\ RequestInv /\ WireInv /\ QueueInv /\ QueryInv /\ ScriptInv

ServerEnd == [qs : Nat, id : Nat, queries : SUBSET Nat, told : SUBSET Nat, ver : StateVersion,
              floor : Nat]
Outcome == [id : RequestId, ok : BOOLEAN, ts : Timestamp \cup {NoTs}]

\* The types of the session.  The server knows queries the client made up.
SessionTypes ==
    /\ clock \in Nat
    /\ outcomes \subseteq Outcome
    /\ taken \in 0..Len(sent)
    /\ srv \in ServerEnd
    /\ srv.queries \subseteq 0..(nextQueryId - 1)
    /\ srv.told \subseteq 0..(nextQueryId - 1)
    /\ owed \subseteq RequestId
    /\ down \in Seq(ServerMessage)
    /\ late \in Seq(RequestFrame)

\* The modifications of a Transition to `ts`: the updated queries, the removed.
ModsOf(ts, updated, removed) ==
    [type : {"Result"}, id : updated, at : {ts}, journal : {ts}]
        \cup [type : {"Removed"}, id : removed]

\* They are finitely many.
LEMMA ModsFinite ==
    ASSUME NEW ts \in Nat, NEW updated \in SUBSET Nat, IsFiniteSet(updated),
           NEW removed \in SUBSET Nat, IsFiniteSet(removed)
    PROVE  /\ IsFiniteSet(ModsOf(ts, updated, removed))
           /\ ModsOf(ts, updated, removed) \subseteq Modification
<1> DEFINE R == [type : {"Result"}, id : updated, at : {ts}, journal : {ts}]
           G == [type : {"Removed"}, id : removed]
           f == [x \in updated |-> [type |-> "Result", id |-> x, at |-> ts, journal |-> ts]]
           g == [x \in removed |-> [type |-> "Removed", id |-> x]]
<1>1. f \in Surjection(updated, R)
    <2>1. \A x \in updated : f[x] \in R
        OBVIOUS
    <2>2. \A r \in R : r.id \in updated /\ r = f[r.id]
        OBVIOUS
    <2> HIDE DEF R
    <2> QED
        BY <2>1, <2>2 DEF Surjection
<1>2. g \in Surjection(removed, G)
    <2>1. \A x \in removed : g[x] \in G
        OBVIOUS
    <2>2. \A r \in G : r.id \in removed /\ r = g[r.id]
        OBVIOUS
    <2> HIDE DEF G
    <2> QED
        BY <2>1, <2>2 DEF Surjection
<1>3. IsFiniteSet(R) /\ IsFiniteSet(G)
    BY <1>1, <1>2, FS_Surjection
<1>4. R \subseteq Modification /\ G \subseteq Modification
    BY DEF Modification
<1> QED
    BY <1>3, <1>4, FS_Union DEF ModsOf

\* What a critical section of the client means in the session.
QuietStep ==
    /\ UNCHANGED <<sessionVars, taken, srv, owed>>
    /\ \/ (User \/ UNCHANGED vars) /\ down' = down
       \/ /\ down # <<>> /\ down' = Tail(down) /\ Head(down) \in ServerMessage
          /\ \/ ApplyTransition(Head(down))
             \/ ReceiveMutationResponse(Head(down))
             \/ ReceiveActionResponse(Head(down))

Restart == Abandon /\ \E token \in Identity : Reconnect(token)

ServerStep == UNCHANGED vars /\ (Serve \/ RespondMutation \/ Transit \/ OtherCommit)

\* Every step of the session is one of four.
LEMMA StepClasses ==
    ASSUME SessionTypes, [SessionNext]_allVars
    PROVE  QuietStep \/ Restart \/ Connect \/ ServerStep
<1>1. CASE UNCHANGED allVars
    BY <1>1 DEF allVars, sessionVars, connectionVars, QuietStep
<1>2. CASE ClientStep
    BY <1>2 DEF ClientStep, connectionVars, QuietStep
<1>3. CASE Drop
    BY <1>3 DEF Drop, Disconnect, Restart
<1>4. CASE Deliver
    <2>1. down # <<>> /\ Head(down) \in ServerMessage
        BY <1>4, HeadTailProperties DEF Deliver, SessionTypes
    <2> QED
        BY <1>4, <2>1 DEF Deliver, QuietStep, RejectTransition, Restart
<1>5. CASE Serve \/ RespondMutation \/ Transit \/ OtherCommit
    BY <1>5 DEF Serve, ServeConnect, ServeAuthenticate, ServeModifyQuerySet, ServeMutation,
        ServeAction, ServeLate, RespondMutation, Transit, SendTransition, OtherCommit, ServerStep
<1> QED
    BY <1>1, <1>2, <1>3, <1>4, <1>5 DEF SessionNext

\* Every step of the session is one of a client with some server.
LEMMA StepsAreAny ==
    ASSUME QuietStep \/ Restart \/ Connect \/ ServerStep
    PROVE  [AnyNext]_vars
BY DEF QuietStep, Restart, Connect, ServerStep, AnyNext, Disconnect, Receive

\* So it keeps what holds of a client with any server.
LEMMA ClientStepKeeps ==
    ASSUME ClientInv, [AnyNext]_vars
    PROVE  ClientInv'
BY TypeStep, RequestStep, WireStep, QueueStep, QueryStep, ScriptStep DEF ClientInv

\* The frames sent come first in the script.
LEMMA SentFirst ==
    ASSUME TypeOK
    PROVE  /\ Script \in Seq(ClientMessage)
           /\ DOMAIN sent = 1..Len(sent) /\ Len(sent) \in Nat
           /\ Len(sent) <= Len(Script) /\ Len(Script) \in Nat /\ DOMAIN Script = 1..Len(Script)
           /\ \A i \in 1..Len(sent) : Script[i] = sent[i]
           /\ linked /\ QueueInv => Script = sent
<1>1. sent \in Seq(ClientMessage) /\ outgoing \in Seq(ClientMessage)
    BY DEF TypeOK
<1>2. linked /\ QueueInv => Script = sent
    BY <1>1, ConcatEmptySeq DEF Script, QueueInv
<1>3. /\ Script \in Seq(ClientMessage) /\ Len(Script) = Len(sent) + Len(outgoing)
      /\ \A i \in 1..(Len(sent) + Len(outgoing)) :
             Script[i] = IF i <= Len(sent) THEN sent[i] ELSE outgoing[i - Len(sent)]
    BY <1>1, ConcatProperties DEF Script
<1>4. /\ Len(sent) \in Nat /\ Len(outgoing) \in Nat /\ DOMAIN sent = 1..Len(sent)
      /\ DOMAIN Script = 1..Len(Script)
    BY <1>1, <1>3, LenProperties
<1> QED
    BY <1>2, <1>3, <1>4

\* Along a quiet step the connection stays, and what was sent stays sent.
LEMMA QuietSent ==
    ASSUME ClientInv, ClientInv', QuietStep
    PROVE  /\ ScriptMove /\ linked' = linked
           /\ Len(sent) <= Len(sent')
           /\ \A i \in 1..Len(sent) : sent'[i] = sent[i]
           /\ nextQueryId' \in Nat /\ nextQueryId <= nextQueryId'
<1>1. ScriptMove
    BY ScriptMoves DEF QuietStep, ClientInv
<1>2. nextQueryId' = nextQueryId \/ nextQueryId' = nextQueryId + 1
    BY DEF QuietStep, User, SubscribeShared, SubscribeNew, Unsubscribe, Request, SetAuth,
        ApplyTransition, ReceiveMutationResponse, ReceiveActionResponse, vars, queryVars
<1>3. linked' = linked
    BY <1>1 DEF ScriptMove
<1>4. CASE linked
    <2>1. Script = sent /\ Script' = sent'
        BY <1>3, <1>4, ConcatEmptySeq DEF ClientInv, TypeOK, QueueInv, Script
    <2>2. sent \in Seq(ClientMessage)
        BY DEF ClientInv, TypeOK
    <2>3. sent' = sent \/ \E f \in ClientMessage : sent' = Append(sent, f)
        BY <1>1, <2>1 DEF ScriptMove, NewFrame
    <2>4. Len(sent) <= Len(sent') /\ \A i \in 1..Len(sent) : sent'[i] = sent[i]
        <3>1. Len(sent) \in Nat
            BY <2>2, LenProperties
        <3>2. CASE sent' = sent
            BY <3>1, <3>2
        <3>3. ASSUME NEW f \in ClientMessage, sent' = Append(sent, f)
              PROVE  Len(sent) <= Len(sent') /\ \A i \in 1..Len(sent) : sent'[i] = sent[i]
            BY <2>2, <3>1, <3>3, AppendDomain, AppendProperties
        <3> QED
            BY <2>3, <3>2, <3>3
    <2>5. nextQueryId \in Nat
        BY DEF ClientInv, TypeOK
    <2> QED
        BY <1>1, <1>2, <1>3, <2>4, <2>5
<1>5. CASE ~linked
    <2>1. sent = <<>> /\ sent' = <<>>
        BY <1>3, <1>5 DEF ClientInv, ScriptInv
    <2>2. Len(<<>>) = 0
        OBVIOUS
    <2> QED
        BY <1>1, <1>2, <1>3, <2>1, <2>2 DEF ClientInv, TypeOK
<1> QED
    BY <1>4, <1>5

\* A Transition as the server makes it: each query is mentioned once, with the
\* result at the new timestamp or as removed.
Made(m, ts) ==
    /\ m \in ServerMessage
    /\ m.type = "Transition"
    /\ m.start = srv.ver
    /\ m.end = [qs |-> srv.qs, id |-> srv.id, ts |-> ts]
    /\ \A j, k \in DOMAIN m.mods : m.mods[j].id = m.mods[k].id => j = k
    /\ \A j \in Of(m.mods, "Result") : m.mods[j].at = ts /\ m.mods[j].journal = ts
    /\ \A id : /\ (\E j \in Of(m.mods, "Result") : m.mods[j].id = id) <=>
                     id \in srv.queries /\ (ts > srv.ver.ts \/ id \notin srv.told)
               /\ (\E j \in Of(m.mods, "Removed") : m.mods[j].id = id) <=>
                     id \in srv.told /\ id \notin srv.queries

\* What SendTransition() sends is such a Transition.
LEMMA TransitionMade ==
    ASSUME ClientInv, SessionTypes, NEW ts \in 1..clock, SendTransition(ts)
    PROVE  \E m : Made(m, ts) /\ down' = Append(down, m)
<1> DEFINE end == [qs |-> srv.qs, id |-> srv.id, ts |-> ts]
           updated == IF ts > srv.ver.ts THEN srv.queries ELSE srv.queries \ srv.told
           removed == srv.told \ srv.queries
<1>1. PICK mods : mods = ModsOf(ts, updated, removed)
    OBVIOUS
<1>2. PICK s : s = SetToSeq(mods)
    OBVIOUS
<1>3. PICK m : m = [type |-> "Transition", start |-> srv.ver, end |-> end, mods |-> s]
    OBVIOUS
<1>4. down' = Append(down, m)
    BY <1>1, <1>2, <1>3 DEF SendTransition, ModsOf
<1>5. ts \in Nat /\ srv \in ServerEnd
    BY DEF SessionTypes
<1>6. IsFiniteSet(updated) /\ IsFiniteSet(removed) /\ updated \in SUBSET Nat
          /\ removed \in SUBSET Nat
    <2>1. nextQueryId \in Nat
        BY DEF ClientInv, TypeOK
    <2>2. IsFiniteSet(0..(nextQueryId - 1))
        BY <2>1, FS_Interval
    <2>3. updated \in SUBSET (0..(nextQueryId - 1)) /\ removed \in SUBSET (0..(nextQueryId - 1))
        BY DEF SessionTypes
    <2> QED
        BY <2>1, <2>2, <2>3, FS_Subset
<1>7. IsFiniteSet(mods) /\ mods \subseteq Modification
    BY <1>1, <1>5, <1>6, ModsFinite
<1>8. /\ s \in Seq(Modification)
      /\ \A i \in DOMAIN s : s[i] \in mods
      /\ \A i, j \in DOMAIN s : s[i] = s[j] => i = j
      /\ \A x \in mods : \E i \in DOMAIN s : s[i] = x
    BY <1>2, <1>7, SetToSeqProperties
<1>9. m \in ServerMessage
    <2>1. end \in StateVersion /\ srv.ver \in StateVersion
        BY <1>5 DEF ServerEnd, StateVersion
    <2> QED
        BY <1>3, <1>8, <2>1 DEF ServerMessage
<1>10. \A x : x \in mods <=>
          \/ x \in [type : {"Result"}, id : updated, at : {ts}, journal : {ts}]
          \/ x \in [type : {"Removed"}, id : removed]
    BY <1>1 DEF ModsOf
<1> HIDE DEF end
<1>11. \A id : /\ id \in updated <=>
                    id \in srv.queries /\ (ts > srv.ver.ts \/ id \notin srv.told)
               /\ id \in removed <=> id \in srv.told /\ id \notin srv.queries
    OBVIOUS
<1> HIDE DEF updated, removed
<1>12. \A i \in DOMAIN s : \/ s[i].type = "Result" /\ s[i].id \in updated
                              /\ s[i] = [type |-> "Result", id |-> s[i].id, at |-> ts, journal |-> ts]
                           \/ s[i].type = "Removed" /\ s[i].id \in removed
                              /\ s[i] = [type |-> "Removed", id |-> s[i].id]
    BY <1>8, <1>10
<1>13. \A i, j \in DOMAIN s : s[i].id = s[j].id => i = j
    <2> TAKE i, j \in DOMAIN s
    <2> HAVE s[i].id = s[j].id
    <2>1. s[i].type = s[j].type
        BY <1>11, <1>12
    <2>2. s[i] = s[j]
        BY <1>12, <2>1
    <2> QED
        BY <1>8, <2>2
<1>14. \A i \in Of(s, "Result") : s[i].at = ts /\ s[i].journal = ts
    BY <1>12 DEF Of
<1>15. ASSUME NEW id PROVE (\E j \in Of(s, "Result") : s[j].id = id) <=> id \in updated
    <2>1. ASSUME id \in updated PROVE \E j \in Of(s, "Result") : s[j].id = id
        <3>1. [type |-> "Result", id |-> id, at |-> ts, journal |-> ts] \in mods
            BY <1>10, <2>1
        <3> QED
            BY <1>8, <3>1 DEF Of
    <2> QED
        BY <1>12, <2>1 DEF Of
<1>16. ASSUME NEW id PROVE (\E j \in Of(s, "Removed") : s[j].id = id) <=> id \in removed
    <2>1. ASSUME id \in removed PROVE \E j \in Of(s, "Removed") : s[j].id = id
        <3>1. [type |-> "Removed", id |-> id] \in mods
            BY <1>10, <2>1
        <3> QED
            BY <1>8, <3>1 DEF Of
    <2> QED
        BY <1>12, <2>1 DEF Of
<1>17. m.mods = s /\ m.type = "Transition" /\ m.start = srv.ver
           /\ m.end = [qs |-> srv.qs, id |-> srv.id, ts |-> ts]
    BY <1>3 DEF end
<1>18. Made(m, ts)
    BY <1>9, <1>11, <1>13, <1>14, <1>15, <1>16, <1>17 DEF Made
<1> QED
    BY <1>4, <1>18

\* The queries a frame adds are queries the client made up.
LEMMA AddsKnown ==
    ASSUME ClientInv, NEW i \in 1..Len(sent), sent[i].type = "ModifyQuerySet"
    PROVE  Ids(sent[i].adds) \subseteq 0..(nextQueryId - 1)
<1>1. i \in Of(Script, "ModifyQuerySet") /\ Script[i] = sent[i]
    BY SentFirst DEF ClientInv, Of
<1>2. Ids(sent[i].adds) \subseteq Added(Script)
    BY <1>1, AddedMember
<1> QED
    BY <1>2 DEF ClientInv, ScriptInv, TypeOK

\* The next frame of an open connection.
LEMMA NextFrameType ==
    ASSUME ClientInv, SessionTypes, NEW type, Handling(type)
    PROVE  /\ linked /\ taken \in Nat /\ taken + 1 \in 1..Len(sent) /\ taken' = taken + 1
           /\ NextFrame \in ClientMessage /\ NextFrame.type = type
<1>1. sent \in Seq(ClientMessage)
    BY DEF ClientInv, TypeOK
<1>2. linked /\ taken < Len(sent) /\ taken' = taken + 1 /\ NextFrame.type = type
    BY DEF Handling
<1>3. taken \in Nat /\ taken + 1 \in 1..Len(sent)
    BY <1>1, <1>2, LenProperties DEF SessionTypes
<1> QED
    BY <1>1, <1>2, <1>3, ElementOfSeq DEF NextFrame

\* Every step of the session keeps its types.
LEMMA SessionTypesStep ==
    ASSUME ClientInv, ClientInv', SessionTypes, QuietStep \/ Restart \/ Connect \/ ServerStep
    PROVE  SessionTypes'
<1>1. CASE QuietStep
    <2>1. /\ Len(sent) <= Len(sent') /\ Len(sent) \in Nat /\ Len(sent') \in Nat
          /\ nextQueryId <= nextQueryId' /\ nextQueryId \in Nat /\ nextQueryId' \in Nat
        BY <1>1, QuietSent, LenProperties DEF ClientInv, TypeOK
    <2>2. UNCHANGED <<clock, outcomes, taken, srv, owed, late>>
        BY <1>1 DEF QuietStep, sessionVars
    <2>3. down' \in Seq(ServerMessage)
        BY <1>1, HeadTailProperties DEF QuietStep, SessionTypes
    <2>4. taken' \in 0..Len(sent')
        BY <2>1, <2>2 DEF SessionTypes
    <2>5. 0..(nextQueryId - 1) \subseteq 0..(nextQueryId' - 1)
        <3> DEFINE a == nextQueryId
                   b == nextQueryId'
        <3>1. a \in Nat /\ b \in Nat /\ a <= b
            BY <2>1
        <3> HIDE DEF a, b
        <3>2. 0..(a - 1) \subseteq 0..(b - 1)
            BY <3>1
        <3> QED
            BY <3>2 DEF a, b
    <2>6. srv'.queries \subseteq 0..(nextQueryId' - 1) /\ srv'.told \subseteq 0..(nextQueryId' - 1)
        BY <2>2, <2>5 DEF SessionTypes
    <2> QED
        BY <2>2, <2>3, <2>4, <2>6 DEF SessionTypes
<1>2. ASSUME taken' = 0, srv' = NewConnection, owed' = {}, down' = <<>>,
             late' \in Seq(RequestFrame), UNCHANGED <<clock, outcomes>>
      PROVE  SessionTypes'
    <2>1. taken' \in 0..Len(sent')
        BY <1>2, LenProperties DEF ClientInv, TypeOK
    <2>2. srv' \in ServerEnd /\ srv'.queries = {} /\ srv'.told = {}
        BY <1>2 DEF NewConnection, ServerEnd, InitialVersion, StateVersion
    <2> QED
        BY <1>2, <2>1, <2>2, EmptySeq DEF SessionTypes
<1>3. CASE Restart
    <2>1. sent \in Seq(ClientMessage) /\ taken \in 0..Len(sent) /\ late \in Seq(RequestFrame)
        BY DEF ClientInv, TypeOK, SessionTypes
    <2>2. RequestsOf(SubSeq(sent, taken + 1, Len(sent))) \in Seq(RequestFrame)
        BY <2>1, RestType, RequestsOfProperties
    <2>3. late' \in Seq(RequestFrame)
        BY <1>3, <2>1, <2>2, ConcatProperties DEF Restart, Abandon
    <2> QED
        BY <1>2, <1>3, <2>3 DEF Restart, Abandon
<1>4. CASE Connect
    <2>1. UNCHANGED <<clock, outcomes, taken, srv, owed, down, late, nextQueryId>>
        BY <1>4 DEF Connect, Open, queryVars, sessionVars, connectionVars
    <2>2. taken = 0
        BY <1>4 DEF Connect, Open, ClientInv, ScriptInv, SessionTypes
    <2>3. taken' \in 0..Len(sent')
        BY <2>1, <2>2, LenProperties DEF ClientInv, TypeOK
    <2> QED
        BY <2>1, <2>3 DEF SessionTypes
<1>5. ASSUME ServerStep PROVE SessionTypes'
    <2>0. UNCHANGED <<sent, nextQueryId>>
        BY <1>5 DEF ServerStep, vars, queryVars, wireVars
    <2>1. ASSUME NEW type, Handling(type) PROVE taken' \in 0..Len(sent')
        BY <2>0, <2>1, NextFrameType
    <2>2. ASSUME NEW id \in Nat, RunMutation(id) PROVE clock' \in Nat /\ outcomes' \subseteq Outcome
        <3>1. /\ clock + 1 \in Nat
              /\ [id |-> id, ok |-> TRUE, ts |-> clock + 1] \in Outcome
              /\ [id |-> id, ok |-> FALSE, ts |-> NoTs] \in Outcome
            BY DEF SessionTypes, Outcome
        <3> QED
            BY <2>2, <3>1 DEF RunMutation, SessionTypes
    <2>3. CASE ServeConnect
        <3>1. NextFrame.maxObserved \in Nat \cup {NoTs}
            BY <2>3, NextFrameType DEF ServeConnect, ClientMessage
        <3>2. PICK floor \in Nat : srv' = [srv EXCEPT !.floor = floor]
            BY <2>3, <3>1 DEF ServeConnect
        <3> QED
            BY <2>0, <2>1, <2>3, <3>2 DEF ServeConnect, SessionTypes, ServerEnd, sessionVars
    <2>4. CASE ServeAuthenticate
        <3>1. srv' = [srv EXCEPT !.id = srv.id + 1] /\ srv.id + 1 \in Nat
            BY <2>4 DEF ServeAuthenticate, SessionTypes, ServerEnd
        <3>2. srv' \in ServerEnd /\ srv'.queries = srv.queries /\ srv'.told = srv.told
            BY <3>1 DEF SessionTypes, ServerEnd
        <3> QED
            BY <2>0, <2>1, <2>4, <3>2 DEF ServeAuthenticate, SessionTypes
    <2>5. CASE ServeModifyQuerySet
        <3>1. /\ NextFrame \in ClientMessage /\ NextFrame.type = "ModifyQuerySet"
              /\ taken + 1 \in 1..Len(sent)
            BY <2>5, NextFrameType DEF ServeModifyQuerySet
        <3>2. NextFrame.new \in Nat /\ Ids(NextFrame.adds) \subseteq 0..(nextQueryId - 1)
            BY <3>1, AddsKnown DEF NextFrame, ClientMessage
        <3>3. PICK queries \in SUBSET (0..(nextQueryId - 1)) :
                  srv' = [srv EXCEPT !.qs = NextFrame.new, !.queries = queries]
            <4>1. (srv.queries \cup Ids(NextFrame.adds)) \ NextFrame.removes
                      \in SUBSET (0..(nextQueryId - 1))
                BY <3>2 DEF SessionTypes
            <4> QED
                BY <2>5, <4>1 DEF ServeModifyQuerySet
        <3>4. srv' \in ServerEnd /\ srv'.queries = queries /\ srv'.told = srv.told
            <4>1. queries \in SUBSET Nat
                OBVIOUS
            <4> QED
                BY <3>2, <3>3, <4>1 DEF SessionTypes, ServerEnd
        <3> QED
            BY <2>0, <2>1, <2>5, <3>4 DEF ServeModifyQuerySet, SessionTypes
    <2>6. CASE ServeMutation
        <3>1. NextFrame.id \in Nat
            BY <2>6, NextFrameType DEF ServeMutation, ClientMessage
        <3> QED
            BY <2>0, <2>1, <2>2, <2>6, <3>1 DEF ServeMutation, SessionTypes
    <2>7. CASE ServeAction
        <3>1. NextFrame.id \in Nat
            BY <2>7, NextFrameType DEF ServeAction, ClientMessage
        <3>2. PICK ok \in BOOLEAN :
                 down' = Append(down, [type |-> "ActionResponse", id |-> NextFrame.id, ok |-> ok])
            BY <2>7 DEF ServeAction
        <3>3. [type |-> "ActionResponse", id |-> NextFrame.id, ok |-> ok] \in ServerMessage
            BY <3>1 DEF ServerMessage
        <3>4. down' \in Seq(ServerMessage)
            BY <3>2, <3>3, AppendDomain DEF SessionTypes
        <3> QED
            BY <2>0, <2>1, <2>7, <3>4 DEF ServeAction, SessionTypes
    <2>8. CASE ServeLate
        <3>1. UNCHANGED <<taken, srv, owed, down>>
            BY <2>8 DEF ServeLate, connectionVars
        <3>2. Head(late).id \in Nat /\ late' \in Seq(RequestFrame)
            <4>1. late # <<>> /\ late' = Tail(late) /\ late \in Seq(RequestFrame)
                BY <2>8 DEF ServeLate, SessionTypes
            <4>2. Head(late) \in RequestFrame /\ Tail(late) \in Seq(RequestFrame)
                BY <4>1, HeadTailProperties
            <4> QED
                BY <4>1, <4>2 DEF RequestFrame
        <3>3. clock' \in Nat /\ outcomes' \subseteq Outcome
            BY <2>2, <2>8, <3>2 DEF ServeLate, SessionTypes
        <3> QED
            BY <2>0, <3>1, <3>2, <3>3 DEF SessionTypes
    <2>9. CASE RespondMutation
        <3>1. PICK o \in outcomes : /\ owed' = owed \ {o.id}
                                    /\ down' = Append(down, [type |-> "MutationResponse",
                                                 id |-> o.id, ok |-> o.ok, ts |-> o.ts])
            BY <2>9 DEF RespondMutation
        <3>2. [type |-> "MutationResponse", id |-> o.id, ok |-> o.ok, ts |-> o.ts] \in ServerMessage
            BY DEF ServerMessage, SessionTypes, Outcome
        <3>3. down' \in Seq(ServerMessage)
            BY <3>1, <3>2, AppendDomain DEF SessionTypes
        <3> QED
            BY <2>0, <2>9, <3>1, <3>3 DEF RespondMutation, SessionTypes, sessionVars
    <2>10. CASE Transit
        <3>1. PICK ts \in 1..clock : SendTransition(ts)
            BY <2>10 DEF Transit
        <3>2. PICK m : Made(m, ts) /\ down' = Append(down, m)
            BY <3>1, TransitionMade
        <3>3. down' \in Seq(ServerMessage)
            BY <3>2, AppendDomain DEF SessionTypes, Made
        <3>4. srv' = [srv EXCEPT !.ver = [qs |-> srv.qs, id |-> srv.id, ts |-> ts],
                                 !.told = srv.queries]
            BY <3>1 DEF SendTransition
        <3>5. [qs |-> srv.qs, id |-> srv.id, ts |-> ts] \in StateVersion
            BY DEF SessionTypes, ServerEnd, StateVersion
        <3>6. srv' \in ServerEnd /\ srv'.queries = srv.queries /\ srv'.told = srv.queries
            BY <3>4, <3>5 DEF SessionTypes, ServerEnd
        <3> QED
            BY <2>0, <3>1, <3>3, <3>6 DEF SendTransition, SessionTypes, sessionVars
    <2>11. CASE OtherCommit
        BY <2>0, <2>11 DEF OtherCommit, SessionTypes, connectionVars
    <2> QED
        BY <1>5, <2>3, <2>4, <2>5, <2>6, <2>7, <2>8, <2>9, <2>10, <2>11 DEF ServerStep, Serve
<1> QED
    BY <1>1, <1>3, <1>4, <1>5

-----------------------------------------------------------------------------
(* The server's versions.                                                  *)

\* What is true of a script is true of the next state's.
LEMMA ScriptType == TypeOK => Script \in Seq(ClientMessage)
BY ConcatProperties DEF TypeOK, Script

\* A frame more at the end of the script: what a server has learnt stays.
LEMMA GrowthKeeps ==
    ASSUME ClientInv, ScriptMove, Orderly(Script)
    PROVE  /\ Orderly(Script')
           /\ \A type : \A k \in 0..Len(Script) :
                 /\ Upto(Script', type, k) = Upto(Script, type, k)
                 /\ k > 0 => Script'[k] = Script[k]
           /\ \A n \in 0..querySetVersion : QueriesAt(Script', n) = QueriesAt(Script, n)
           /\ querySetVersion \in Nat /\ querySetVersion <= querySetVersion'
<1>1. PICK t \in Seq(ClientMessage) : t = Script
    BY ScriptType DEF ClientInv
<1>2. querySetVersion \in Nat
    BY DEF ClientInv, TypeOK
<1>3. CASE Script' = Script /\ querySetVersion' = querySetVersion
    BY <1>2, <1>3
<1>4. ASSUME NEW f, NewFrame(f), Script' = Append(Script, f)
      PROVE  /\ Orderly(Script')
             /\ \A type : \A k \in 0..Len(Script) :
                   /\ Upto(Script', type, k) = Upto(Script, type, k)
                   /\ k > 0 => Script'[k] = Script[k]
             /\ \A n \in 0..querySetVersion : QueriesAt(Script', n) = QueriesAt(Script, n)
             /\ querySetVersion <= querySetVersion'
    <2>1. f \in ClientMessage /\ Script' = Append(t, f)
        BY <1>1, <1>4 DEF NewFrame
    <2>2. Orderly(Append(t, f))
        BY <1>1, <1>4, OrderlyAppend DEF ClientInv
    <2>3. /\ Len(t) \in Nat /\ DOMAIN t = 1..Len(t) /\ DOMAIN Append(t, f) = 1..(Len(t) + 1)
          /\ \A k \in 1..Len(t) : Append(t, f)[k] = t[k]
        BY <2>1, AppendDomain
    <2>4. ASSUME NEW type, NEW k \in 0..Len(t)
          PROVE  Upto(Append(t, f), type, k) = Upto(t, type, k)
        BY <2>3 DEF Upto, Of
    <2>5. ASSUME NEW n \in 0..querySetVersion
          PROVE  QueriesAt(Append(t, f), n) = QueriesAt(t, n)
        BY <1>2, <1>4, <2>1, AtAppend DEF NewFrame
    <2>6. querySetVersion <= querySetVersion'
        BY <1>2, <1>4 DEF NewFrame
    <2> QED
        BY <1>1, <2>1, <2>2, <2>3, <2>4, <2>5, <2>6
<1> QED
    BY <1>2, <1>3, <1>4 DEF ScriptMove

\* What the server knows is what the first `taken` frames of the connection say,
\* and it has found nothing to refuse.
ServerInv ==
    /\ Orderly(Script)
    /\ srv.qs = Cardinality(Upto(Script, "ModifyQuerySet", taken))
    /\ srv.id = Cardinality(Upto(Script, "Authenticate", taken))
    /\ srv.queries = QueriesAt(Script, srv.qs)
    /\ ~refused
    /\ ~linked => /\ srv = NewConnection /\ taken = 0 /\ down = <<>> /\ owed = {}
                  /\ remoteVersion = InitialVersion

\* A server that has handled no frame is at the beginning.
LEMMA NothingTaken ==
    ASSUME NEW t \in Seq(ClientMessage), NEW version, Chain(t, "ModifyQuerySet", version)
    PROVE  /\ \A type : Cardinality(Upto(t, type, 0)) = 0
           /\ QueriesAt(t, 0) = {}
<1>1. \A type : Upto(t, type, 0) = {}
    BY LenProperties DEF Upto, Of
<1> QED
    BY <1>1, AtZero, FS_EmptySet

\* The server is never ahead of the client.
LEMMA ServerBehind ==
    ASSUME ClientInv, SessionTypes, ServerInv
    PROVE  srv.qs \in Nat /\ srv.qs <= querySetVersion
<1>1. Script \in Seq(ClientMessage) /\ taken \in Nat
    BY ScriptType, LenProperties DEF ClientInv, SessionTypes, TypeOK
<1>2. PICK n, k : n = srv.qs /\ k = taken
    OBVIOUS
<1>3. /\ Chain(Script, "ModifyQuerySet", querySetVersion)
      /\ n = Cardinality(Upto(Script, "ModifyQuerySet", k))
    BY <1>2 DEF ServerInv, ClientInv, ScriptInv
<1>4. n \in Nat /\ n <= querySetVersion
    BY <1>1, <1>2, <1>3, Reached
<1> QED
    BY <1>2, <1>4

\* The next frame moves the version of its own type by one, from its base.
LEMMA Handled ==
    ASSUME ClientInv, SessionTypes, ServerInv, NEW type, Handling(type)
    PROVE  /\ srv.qs \in Nat /\ srv.id \in Nat
           /\ type = "ModifyQuerySet" => NextFrame.base = srv.qs
           /\ Cardinality(Upto(Script, "ModifyQuerySet", taken + 1)) =
                  srv.qs + (IF type = "ModifyQuerySet" THEN 1 ELSE 0)
           /\ type = "Authenticate" => NextFrame.base = srv.id
           /\ Cardinality(Upto(Script, "Authenticate", taken + 1)) =
                  srv.id + (IF type = "Authenticate" THEN 1 ELSE 0)
           /\ Script[taken + 1] = NextFrame
           /\ taken + 1 \in Of(Script, type)
<1>1. PICK t \in Seq(ClientMessage) : t = Script
    BY ScriptType DEF ClientInv
<1>2. taken \in Nat /\ taken + 1 \in 1..Len(sent) /\ NextFrame.type = type
    BY NextFrameType
<1>3. t[taken + 1] = NextFrame /\ taken + 1 \in DOMAIN t
    BY <1>1, <1>2, SentFirst DEF ClientInv, NextFrame
<1>4. \A x : taken + 1 \in Of(t, x) <=> type = x
    BY <1>2, <1>3 DEF Of
<1>5. /\ Chain(t, "ModifyQuerySet", querySetVersion) /\ Chain(t, "Authenticate", identityVersion)
      /\ srv.qs = Cardinality(Upto(t, "ModifyQuerySet", taken))
      /\ srv.id = Cardinality(Upto(t, "Authenticate", taken))
    BY <1>1 DEF ClientInv, ScriptInv, ServerInv
<1>6. ASSUME NEW x, NEW version, Chain(t, x, version), NEW n, n = Cardinality(Upto(t, x, taken))
      PROVE  /\ n \in Nat
             /\ taken + 1 \in Of(t, x) =>
                   t[taken + 1].base = n /\ Cardinality(Upto(t, x, taken + 1)) = n + 1
             /\ taken + 1 \notin Of(t, x) => Cardinality(Upto(t, x, taken + 1)) = n
    <2>1. PICK k \in Nat : k = taken
        BY <1>2
    <2>2. n = Cardinality(Upto(t, x, k))
        BY <1>6, <2>1
    <2>3. /\ n \in Nat
          /\ k + 1 \in Of(t, x) =>
                t[k + 1].base = n /\ Cardinality(Upto(t, x, k + 1)) = n + 1
          /\ k + 1 \notin Of(t, x) => Cardinality(Upto(t, x, k + 1)) = n
        BY <1>6, <2>2, Reached, SMTT(30)
    <2> QED
        BY <2>1, <2>3
<1>7. /\ srv.qs \in Nat
      /\ taken + 1 \in Of(t, "ModifyQuerySet") => /\ t[taken + 1].base = srv.qs
             /\ Cardinality(Upto(t, "ModifyQuerySet", taken + 1)) = srv.qs + 1
      /\ taken + 1 \notin Of(t, "ModifyQuerySet") =>
             Cardinality(Upto(t, "ModifyQuerySet", taken + 1)) = srv.qs
    BY <1>5, <1>6
<1>8. /\ srv.id \in Nat
      /\ taken + 1 \in Of(t, "Authenticate") => /\ t[taken + 1].base = srv.id
             /\ Cardinality(Upto(t, "Authenticate", taken + 1)) = srv.id + 1
      /\ taken + 1 \notin Of(t, "Authenticate") =>
             Cardinality(Upto(t, "Authenticate", taken + 1)) = srv.id
    BY <1>5, <1>6
<1> QED
    BY <1>1, <1>3, <1>4, <1>7, <1>8

\* Every step of the session keeps the server informed and content.
LEMMA ServerInvStep ==
    ASSUME ClientInv, ClientInv', SessionTypes, ServerInv,
           QuietStep \/ Restart \/ Connect \/ ServerStep
    PROVE  ServerInv'
<1>0. Script \in Seq(ClientMessage) /\ Script' \in Seq(ClientMessage)
    BY ConcatProperties DEF ClientInv, TypeOK, Script
<1>1. CASE QuietStep
    <2>1. ScriptMove /\ linked' = linked
        BY <1>1, QuietSent
    <2>2. UNCHANGED <<taken, srv, owed, refused>> /\ (down = <<>> => down' = down)
        BY <1>1 DEF QuietStep, sessionVars
    <2>3. taken \in 0..Len(Script)
        BY SentFirst DEF ClientInv, SessionTypes
    <2>4. srv.qs \in 0..querySetVersion
        <3>1. srv.qs \in Nat /\ srv.qs <= querySetVersion
            BY ServerBehind
        <3>2. querySetVersion \in Nat
            BY DEF ClientInv, TypeOK
        <3> QED
            BY <3>1, <3>2
    <2>5. linked \/ remoteVersion' = remoteVersion
        BY <1>1 DEF QuietStep, User, SubscribeShared, SubscribeNew, Unsubscribe, Request, SetAuth,
            ApplyTransition, ReceiveMutationResponse, ReceiveActionResponse, vars, remoteVars
    <2>6. /\ Orderly(Script')
          /\ Upto(Script', "ModifyQuerySet", taken) = Upto(Script, "ModifyQuerySet", taken)
          /\ Upto(Script', "Authenticate", taken) = Upto(Script, "Authenticate", taken)
          /\ QueriesAt(Script', srv.qs) = QueriesAt(Script, srv.qs)
        BY <2>1, <2>3, <2>4, GrowthKeeps DEF ServerInv
    <2> QED
        BY <2>1, <2>2, <2>5, <2>6 DEF ServerInv
<1>2. ASSUME taken' = 0, srv' = NewConnection, Orderly(Script'), refused' = refused,
             ~linked' => down' = <<>> /\ owed' = {} /\ remoteVersion' = InitialVersion
      PROVE  ServerInv'
    <2>1. PICK t \in Seq(ClientMessage) : t = Script'
        BY <1>0
    <2>2. Chain(t, "ModifyQuerySet", querySetVersion')
        BY <2>1 DEF ClientInv, ScriptInv
    <2>3. (\A type : Cardinality(Upto(t, type, 0)) = 0) /\ QueriesAt(t, 0) = {}
        BY <2>2, NothingTaken
    <2>4. srv'.qs = 0 /\ srv'.id = 0 /\ srv'.queries = {}
        BY <1>2 DEF NewConnection
    <2> QED
        BY <1>2, <2>1, <2>3, <2>4 DEF ServerInv
<1>3. CASE Restart
    <2>1. PICK token \in Identity : Reconnect(token)
        BY <1>3 DEF Restart
    <2>2. Orderly(Script')
        BY <2>1, OrderlyRestart DEF ClientInv
    <2> QED
        BY <1>2, <1>3, <2>1, <2>2 DEF Restart, Abandon, Reconnect, RemoteAfterRestart
<1>4. CASE Connect
    <2>1. PICK c : c = [type |-> "Connect", count |-> connectionCount, maxObserved |-> maxObserved]
        OBVIOUS
    <2>2. c \in ClientMessage /\ c.type # "ModifyQuerySet"
        BY <2>1 DEF ClientInv, TypeOK, ClientMessage
    <2>3. PICK t \in Seq(ClientMessage) : t = outgoing
        BY DEF ClientInv, TypeOK
    <2>4. sent = <<>> /\ sent' = <<c>> \o t /\ outgoing' = <<>> /\ linked' = TRUE /\ ~linked
        BY <1>4, <2>1, <2>3 DEF Connect, Open, ClientInv, ScriptInv
    <2>5. Script = t /\ Script' = <<c>> \o t
        <3>1. <<c>> \o t \in Seq(ClientMessage)
            BY <2>2, ConcatProperties
        <3> QED
            BY <2>3, <2>4, <3>1, ConcatEmptySeq DEF Script
    <2>6. Orderly(Script')
        BY <2>2, <2>5, OrderlyPrepend DEF ServerInv
    <2>7. UNCHANGED <<taken, srv, refused>>
        BY <1>4 DEF Connect, sessionVars, connectionVars
    <2> QED
        BY <1>2, <2>4, <2>6, <2>7 DEF ServerInv
<1>5. ASSUME ServerStep PROVE ServerInv'
    <2>1. UNCHANGED <<Script, linked, remoteVersion>>
        BY <1>5 DEF ServerStep, vars, wireVars, linkVars, remoteVars, Script
    <2>2. ASSUME UNCHANGED <<taken, srv, refused>>, linked PROVE ServerInv'
        BY <2>1, <2>2 DEF ServerInv
    <2>3. ASSUME NEW type, Handling(type), type \notin {"ModifyQuerySet", "Authenticate"},
                 srv'.qs = srv.qs, srv'.id = srv.id, srv'.queries = srv.queries,
                 refused' = refused
          PROVE  ServerInv'
        <3>1. /\ Cardinality(Upto(Script, "ModifyQuerySet", taken + 1)) = srv.qs
              /\ Cardinality(Upto(Script, "Authenticate", taken + 1)) = srv.id
              /\ taken' = taken + 1 /\ linked
            BY <2>3, Handled, NextFrameType DEF SessionTypes, ServerEnd
        <3> QED
            BY <2>1, <2>3, <3>1 DEF ServerInv
    <2>4. CASE ServeConnect
        <3>1. srv'.qs = srv.qs /\ srv'.id = srv.id /\ srv'.queries = srv.queries
            BY <2>4 DEF ServeConnect, SessionTypes, ServerEnd
        <3> QED
            BY <2>3, <2>4, <3>1 DEF ServeConnect, sessionVars
    <2>5. CASE ServeAuthenticate
        <3>1. /\ srv'.qs = srv.qs /\ srv'.id = srv.id + 1 /\ srv'.queries = srv.queries
              /\ Handling("Authenticate")
            BY <2>5 DEF ServeAuthenticate, SessionTypes, ServerEnd
        <3>2. /\ Cardinality(Upto(Script, "ModifyQuerySet", taken + 1)) = srv.qs
              /\ Cardinality(Upto(Script, "Authenticate", taken + 1)) = srv.id + 1
              /\ taken' = taken + 1 /\ linked /\ NextFrame.base = srv.id
            BY <3>1, Handled, NextFrameType
        <3> QED
            BY <2>1, <2>5, <3>1, <3>2 DEF ServerInv, ServeAuthenticate
    <2>6. CASE ServeModifyQuerySet
        <3>1. Handling("ModifyQuerySet")
            BY <2>6 DEF ServeModifyQuerySet
        <3>2. /\ Cardinality(Upto(Script, "ModifyQuerySet", taken + 1)) = srv.qs + 1
              /\ Cardinality(Upto(Script, "Authenticate", taken + 1)) = srv.id
              /\ taken' = taken + 1 /\ linked /\ NextFrame.base = srv.qs
              /\ Script[taken + 1] = NextFrame /\ taken + 1 \in Of(Script, "ModifyQuerySet")
            BY <3>1, Handled, NextFrameType
        <3>3. PICK t \in Seq(ClientMessage) : t = Script
            BY <1>0
        <3>4. Orderly(t) /\ Chain(t, "ModifyQuerySet", querySetVersion)
            BY <3>3 DEF ServerInv, ClientInv, ScriptInv
        <3>5. PICK i : i = taken + 1
            OBVIOUS
        <3>6. PICK n : n = srv.qs
            OBVIOUS
        <3>7. i \in Of(t, "ModifyQuerySet") /\ n = t[i].base /\ t[i] = NextFrame
            BY <3>2, <3>3, <3>5, <3>6
        <3>8. /\ QueriesAt(t, n + 1) = (QueriesAt(t, n) \cup Ids(t[i].adds)) \ t[i].removes
              /\ Ids(t[i].adds) \cap QueriesAt(t, n) = {}
              /\ t[i].removes \subseteq QueriesAt(t, n)
            BY <3>4, <3>7, AtNext
        <3>9. NextFrame.new = srv.qs + 1
            BY <3>4, <3>6, <3>7 DEF Orderly
        <3>10. /\ srv'.qs = n + 1 /\ srv'.id = srv.id
               /\ srv'.queries = (srv.queries \cup Ids(NextFrame.adds)) \ NextFrame.removes
            BY <2>6, <3>6, <3>9 DEF ServeModifyQuerySet, SessionTypes, ServerEnd
        <3>11. srv.queries = QueriesAt(t, n)
            BY <3>3, <3>6 DEF ServerInv
        <3>12. srv'.queries = QueriesAt(t, n + 1)
            BY <3>7, <3>8, <3>10, <3>11
        <3>13. ~refused'
            BY <2>6, <3>2, <3>7, <3>8, <3>11 DEF ServeModifyQuerySet, ServerInv
        <3> QED
            BY <2>1, <3>2, <3>3, <3>6, <3>10, <3>12, <3>13 DEF ServerInv
    <2>7. CASE ServeMutation
        BY <2>3, <2>7 DEF ServeMutation
    <2>8. CASE ServeAction
        BY <2>3, <2>8 DEF ServeAction
    <2>9. CASE ServeLate
        BY <2>1, <2>9 DEF ServeLate, ServerInv, connectionVars
    <2>10. CASE RespondMutation
        <3>1. linked
            BY <2>10 DEF RespondMutation, ServerInv
        <3> QED
            BY <2>2, <2>10, <3>1 DEF RespondMutation, sessionVars
    <2>11. CASE Transit
        <3>1. PICK ts \in 1..clock : SendTransition(ts)
            BY <2>11 DEF Transit
        <3>2. /\ linked /\ UNCHANGED <<taken, refused>>
              /\ srv'.qs = srv.qs /\ srv'.id = srv.id /\ srv'.queries = srv.queries
            BY <3>1 DEF SendTransition, sessionVars, SessionTypes, ServerEnd
        <3> QED
            BY <2>1, <3>2 DEF ServerInv
    <2>12. CASE OtherCommit
        BY <2>1, <2>12 DEF OtherCommit, ServerInv, connectionVars
    <2> QED
        BY <1>5, <2>4, <2>5, <2>6, <2>7, <2>8, <2>9, <2>10, <2>11, <2>12 DEF ServerStep, Serve
<1> QED
    BY <1>1, <1>3, <1>4, <1>5

-----------------------------------------------------------------------------
(* The Transitions in flight.                                              *)

\* The Transitions among some messages follow on from one version to another.
Stream(t, from, to) ==
    LET T == Of(t, "Transition") IN
    /\ \A i \in T : (\A j \in T : i <= j) => t[i].start = from
    /\ \A i, k \in T : i < k /\ (\A j \in T : j <= i \/ k <= j) => t[k].start = t[i].end
    /\ \A i \in T : (\A j \in T : j <= i) => t[i].end = to
    /\ T = {} => from = to

\* The positions of a type in the rest of a sequence.
LEMMA OfTail ==
    ASSUME NEW S, NEW t \in Seq(S), t # <<>>, NEW type
    PROVE  /\ Of(t, type) \subseteq 1..Len(t) /\ Len(t) \in Nat
           /\ \A i \in Of(Tail(t), type) : /\ i \in Nat /\ i > 0 /\ i + 1 \in Of(t, type)
                                           /\ Tail(t)[i] = t[i + 1]
           /\ \A i \in Of(t, type) : i = 1 \/ i - 1 \in Of(Tail(t), type)
           /\ 1 \in Of(t, type) <=> Head(t).type = type
           /\ t[1] = Head(t)
<1>1. /\ Head(t) = t[1] /\ 1 \in DOMAIN t
      /\ DOMAIN t = 1..Len(t) /\ Len(t) \in Nat \ {0}
      /\ DOMAIN Tail(t) = 1..(Len(t) - 1)
      /\ \A i \in 1..(Len(t) - 1) : Tail(t)[i] = t[i + 1]
    BY TailProperties
<1> HIDE DEF Tail, Head
<1> DEFINE u == Tail(t)
<1>2. ASSUME NEW i \in Of(u, type)
      PROVE  i \in Nat /\ i > 0 /\ i + 1 \in Of(t, type) /\ u[i] = t[i + 1]
    BY <1>1 DEF Of
<1>3. ASSUME NEW i \in Of(t, type), i # 1 PROVE i - 1 \in Of(u, type)
    <2>1. i \in 1..Len(t) /\ t[i].type = type
        BY <1>1 DEF Of
    <2>2. i - 1 \in 1..(Len(t) - 1) /\ (i - 1) + 1 = i
        BY <1>1, <1>3, <2>1
    <2> QED
        BY <1>1, <2>1, <2>2 DEF Of
<1>4. 1 \in Of(t, type) <=> Head(t).type = type
    BY <1>1 DEF Of
<1> QED
    BY <1>1, <1>2, <1>3, <1>4 DEF Of

\* The positions of a type when a message arrives.
LEMMA OfArrival ==
    ASSUME NEW S, NEW t \in Seq(S), NEW m \in S, NEW type
    PROVE  /\ Of(t, type) \subseteq 1..Len(t) /\ Len(t) \in Nat
           /\ Of(Append(t, m), type) =
                  Of(t, type) \cup (IF m.type = type THEN {Len(t) + 1} ELSE {})
           /\ \A i \in Of(t, type) : Append(t, m)[i] = t[i]
           /\ Append(t, m)[Len(t) + 1] = m
BY AppendDomain DEF Of

\* Taking a Transition off the front goes on from its end.
LEMMA StreamTail ==
    ASSUME NEW t \in Seq(ServerMessage), t # <<>>, NEW from, NEW to, Stream(t, from, to)
    PROVE  /\ Head(t).type = "Transition" =>
                  Head(t).start = from /\ Stream(Tail(t), Head(t).end, to)
           /\ Head(t).type # "Transition" => Stream(Tail(t), from, to)
<1> DEFINE T == Of(t, "Transition")
           u == Tail(t)
           U == Of(u, "Transition")
<1>1. /\ T \subseteq 1..Len(t) /\ Len(t) \in Nat
      /\ \A i \in U : i \in Nat /\ i > 0 /\ i + 1 \in T /\ u[i] = t[i + 1]
      /\ \A i \in T : i = 1 \/ i - 1 \in U
      /\ 1 \in T <=> Head(t).type = "Transition"
      /\ t[1] = Head(t)
    BY OfTail
<1>2. /\ \A i \in T : (\A j \in T : i <= j) => t[i].start = from
      /\ \A i, k \in T : i < k /\ (\A j \in T : j <= i \/ k <= j) => t[k].start = t[i].end
      /\ \A i \in T : (\A j \in T : j <= i) => t[i].end = to
      /\ T = {} => from = to
    BY DEF Stream
<1> HIDE DEF T, u, U
<1>3. \A i \in T : i \in Int /\ 1 <= i
    BY <1>1
<1>4. ASSUME NEW i \in U, NEW k \in U, i < k, \A j \in U : j <= i \/ k <= j
      PROVE  u[k].start = u[i].end
    <2>1. i + 1 \in T /\ k + 1 \in T /\ i + 1 < k + 1
        BY <1>1, <1>4
    <2>2. ASSUME NEW j \in T PROVE j <= i + 1 \/ k + 1 <= j
        <3>1. j \in Int /\ i \in Nat /\ k \in Nat
            BY <1>1, <1>3
        <3>2. j = 1 \/ j - 1 <= i \/ k <= j - 1
            BY <1>1, <1>4
        <3> QED
            BY <3>1, <3>2
    <2>3. t[k + 1].start = t[i + 1].end
        BY <1>2, <2>1, <2>2
    <2> QED
        BY <1>1, <2>3
<1>5. ASSUME NEW i \in U, \A j \in U : j <= i PROVE u[i].end = to
    <2>1. i + 1 \in T /\ \A j \in T : j <= i + 1
        BY <1>1, <1>3, <1>5
    <2> QED
        BY <1>1, <1>2, <2>1
<1>6. CASE 1 \in T
    <2>1. t[1].start = from
        BY <1>2, <1>3, <1>6
    <2>2. ASSUME NEW i \in U, \A j \in U : i <= j PROVE u[i].start = t[1].end
        <3>1. i + 1 \in T /\ 1 < i + 1 /\ \A j \in T : j <= 1 \/ i + 1 <= j
            BY <1>1, <1>3, <2>2
        <3>2. t[i + 1].start = t[1].end
            BY <1>2, <1>6, <3>1
        <3> QED
            BY <1>1, <3>2
    <2>3. U = {} => t[1].end = to
        <3> HAVE U = {}
        <3>1. \A j \in T : j <= 1
            BY <1>1
        <3> QED
            BY <1>2, <1>6, <3>1
    <2> QED
        BY <1>1, <1>4, <1>5, <1>6, <2>1, <2>2, <2>3 DEF Stream, u, U
<1>7. CASE 1 \notin T
    <2>1. ASSUME NEW i \in U, \A j \in U : i <= j PROVE u[i].start = from
        <3>1. ASSUME NEW j \in T PROVE i + 1 <= j
            <4>1. j \in Int /\ i \in Nat /\ i <= j - 1
                BY <1>1, <1>3, <1>7, <2>1
            <4> QED
                BY <4>1
        <3>2. i + 1 \in T
            BY <1>1
        <3> QED
            BY <1>1, <1>2, <3>1, <3>2
    <2>2. U = {} => from = to
        BY <1>1, <1>2, <1>7
    <2> QED
        BY <1>1, <1>4, <1>5, <1>7, <2>1, <2>2 DEF Stream, u, U
<1> QED
    BY <1>6, <1>7

\* A Transition that starts where the last one ended extends the stream.
LEMMA StreamAppend ==
    ASSUME NEW t \in Seq(ServerMessage), NEW m \in ServerMessage, NEW from, NEW to,
           Stream(t, from, to)
    PROVE  /\ m.type = "Transition" /\ m.start = to => Stream(Append(t, m), from, m.end)
           /\ m.type # "Transition" => Stream(Append(t, m), from, to)
<1> DEFINE T == Of(t, "Transition")
           u == Append(t, m)
           U == Of(u, "Transition")
           n == Len(t)
<1>1. /\ T \subseteq 1..n /\ n \in Nat
      /\ U = T \cup (IF m.type = "Transition" THEN {n + 1} ELSE {})
      /\ \A i \in T : u[i] = t[i]
      /\ u[n + 1] = m
    BY OfArrival
<1>2. /\ \A i \in T : (\A j \in T : i <= j) => t[i].start = from
      /\ \A i, k \in T : i < k /\ (\A j \in T : j <= i \/ k <= j) => t[k].start = t[i].end
      /\ \A i \in T : (\A j \in T : j <= i) => t[i].end = to
      /\ T = {} => from = to
    BY DEF Stream
<1> HIDE DEF T, u, U, n
<1>3. \A i \in T : i \in Int /\ i <= n
    BY <1>1
<1>4. CASE m.type # "Transition"
    <2>1. U = T
        BY <1>1, <1>4
    <2>2. \A i \in U : u[i] = t[i]
        BY <1>1, <2>1
    <2>3. /\ \A i \in U : (\A j \in U : i <= j) => u[i].start = from
          /\ \A i, k \in U : i < k /\ (\A j \in U : j <= i \/ k <= j) => u[k].start = u[i].end
          /\ \A i \in U : (\A j \in U : j <= i) => u[i].end = to
          /\ U = {} => from = to
        BY <1>2, <2>1, <2>2
    <2>4. Stream(u, from, to)
        BY <2>3 DEF Stream, U
    <2> QED
        BY <1>4, <2>4 DEF u
<1>5. CASE m.type = "Transition" /\ m.start = to
    <2>1. U = T \cup {n + 1} /\ u[n + 1].start = to /\ n + 1 \notin T /\ n + 1 \in Int
        BY <1>1, <1>3, <1>5
    <2>2. ASSUME NEW i \in U, \A j \in U : i <= j PROVE u[i].start = from
        <3>1. CASE i \in T
            BY <1>1, <1>2, <2>1, <2>2, <3>1
        <3>2. CASE i = n + 1
            <4>1. T = {}
                BY <1>1, <1>3, <2>1, <2>2, <3>2
            <4> QED
                BY <1>2, <2>1, <3>2, <4>1
        <3> QED
            BY <2>1, <3>1, <3>2
    <2>3. ASSUME NEW i \in U, NEW k \in U, i < k, \A j \in U : j <= i \/ k <= j
          PROVE  u[k].start = u[i].end
        <3>0. i \in T
            BY <1>1, <1>3, <2>1, <2>3
        <3>1. CASE k \in T
            BY <1>1, <1>2, <2>1, <2>3, <3>0, <3>1
        <3>2. CASE k = n + 1
            <4>1. \A j \in T : j <= i
                BY <1>1, <1>3, <2>1, <2>3, <3>2
            <4> QED
                BY <1>1, <1>2, <2>1, <3>0, <3>2, <4>1
        <3> QED
            BY <2>1, <3>1, <3>2
    <2>4. ASSUME NEW i \in U, \A j \in U : j <= i PROVE u[i].end = m.end
        <3>0. n + 1 <= i /\ (i = n + 1 \/ i \in T)
            BY <2>1, <2>4
        <3>1. i = n + 1
            <4>1. ASSUME i \in T PROVE FALSE
                <5>1. i \in Int /\ i <= n /\ n \in Nat
                    BY <1>1, <1>3, <4>1
                <5> QED
                    BY <3>0, <5>1
            <4> QED
                BY <3>0, <4>1
        <3> QED
            BY <1>1, <3>1
    <2>5. U # {}
        BY <2>1
    <2> QED
        BY <1>5, <2>2, <2>3, <2>4, <2>5 DEF Stream, u, U
<1> QED
    BY <1>4, <1>5

\* The Transitions in flight lead from the client's version to the server's.
StreamInv == Stream(down, remoteVersion, srv.ver)

\* No messages, one version.
LEMMA StreamEmpty == \A v : Stream(<<>>, v, v)
BY DEF Stream, Of

\* Every step of the session keeps the Transitions in a row.
LEMMA StreamStep ==
    ASSUME ClientInv, SessionTypes, ServerInv, StreamInv,
           QuietStep \/ Restart \/ Connect \/ ServerStep
    PROVE  StreamInv'
<1>0. down \in Seq(ServerMessage)
    BY DEF SessionTypes
<1>1. CASE (User \/ UNCHANGED vars) /\ UNCHANGED <<down, srv>>
    <2>1. remoteVersion' = remoteVersion
        BY <1>1 DEF User, SubscribeShared, SubscribeNew, Unsubscribe, Request, SetAuth,
            vars, remoteVars
    <2> QED
        BY <1>1, <2>1 DEF StreamInv
<1>2. CASE down # <<>> /\ down' = Tail(down) /\ ApplyTransition(Head(down)) /\ srv' = srv
    <2>1. Head(down).type = "Transition" /\ remoteVersion' = Head(down).end
        BY <1>2 DEF ApplyTransition
    <2> QED
        BY <1>0, <1>2, <2>1, StreamTail DEF StreamInv
<1>3. CASE /\ down # <<>> /\ down' = Tail(down) /\ srv' = srv
           /\ ReceiveMutationResponse(Head(down)) \/ ReceiveActionResponse(Head(down))
    <2>1. Head(down).type # "Transition" /\ remoteVersion' = remoteVersion
        BY <1>3 DEF ReceiveMutationResponse, ReceiveActionResponse
    <2> QED
        BY <1>0, <1>3, <2>1, StreamTail DEF StreamInv
<1>4. CASE Restart
    <2>1. down' = <<>> /\ srv'.ver = InitialVersion /\ remoteVersion' = InitialVersion
        BY <1>4 DEF Restart, Abandon, Reconnect, RemoteAfterRestart, NewConnection
    <2> QED
        BY <2>1, StreamEmpty DEF StreamInv
<1>5. CASE Connect
    BY <1>5 DEF Connect, Open, connectionVars, remoteVars, StreamInv
<1>6. ASSUME ServerStep PROVE StreamInv'
    <2>1. remoteVersion' = remoteVersion
        BY <1>6 DEF ServerStep, vars, remoteVars
    <2>2. ASSUME NEW m \in ServerMessage, m.type # "Transition", down' = Append(down, m),
                 srv' = srv
          PROVE  StreamInv'
        BY <1>0, <2>1, <2>2, StreamAppend DEF StreamInv
    <2>3. CASE ServeConnect \/ ServeAuthenticate \/ ServeModifyQuerySet \/ ServeMutation
                  \/ ServeLate \/ OtherCommit
        <3>1. down' = down /\ srv'.ver = srv.ver
            BY <2>3 DEF ServeConnect, ServeAuthenticate, ServeModifyQuerySet, ServeMutation,
                ServeLate, OtherCommit, connectionVars, SessionTypes, ServerEnd
        <3> QED
            BY <2>1, <3>1 DEF StreamInv
    <2>4. CASE ServeAction
        <3>1. NextFrame.id \in Nat
            BY <2>4, NextFrameType DEF ServeAction, ClientMessage
        <3>2. PICK ok \in BOOLEAN :
                 down' = Append(down, [type |-> "ActionResponse", id |-> NextFrame.id, ok |-> ok])
            BY <2>4 DEF ServeAction
        <3>3. [type |-> "ActionResponse", id |-> NextFrame.id, ok |-> ok] \in ServerMessage
            BY <3>1 DEF ServerMessage
        <3> QED
            BY <2>2, <2>4, <3>2, <3>3 DEF ServeAction
    <2>5. CASE RespondMutation
        <3>1. PICK o \in outcomes : down' = Append(down, [type |-> "MutationResponse",
                                                 id |-> o.id, ok |-> o.ok, ts |-> o.ts])
            BY <2>5 DEF RespondMutation
        <3>2. [type |-> "MutationResponse", id |-> o.id, ok |-> o.ok, ts |-> o.ts] \in ServerMessage
            BY DEF ServerMessage, SessionTypes, Outcome
        <3> QED
            BY <2>2, <2>5, <3>1, <3>2 DEF RespondMutation
    <2>6. CASE Transit
        <3>1. PICK ts \in 1..clock : SendTransition(ts)
            BY <2>6 DEF Transit
        <3>2. PICK m : Made(m, ts) /\ down' = Append(down, m)
            BY <3>1, TransitionMade
        <3>3. srv'.ver = [qs |-> srv.qs, id |-> srv.id, ts |-> ts]
            BY <3>1 DEF SendTransition, SessionTypes, ServerEnd
        <3>4. m \in ServerMessage /\ m.type = "Transition" /\ m.start = srv.ver /\ m.end = srv'.ver
            BY <3>2, <3>3 DEF Made
        <3> QED
            BY <1>0, <2>1, <3>2, <3>4, StreamAppend DEF StreamInv
    <2> QED
        BY <1>6, <2>3, <2>4, <2>5, <2>6 DEF ServerStep, Serve
<1> QED
    BY <1>1, <1>2, <1>3, <1>4, <1>5, <1>6 DEF QuietStep

-----------------------------------------------------------------------------
(* The session keeps the versions.                                         *)

\* The inductive invariant behind NeverRefused and NeverOutOfStep.
VersionsInv == ClientInv /\ SessionTypes /\ ServerInv /\ StreamInv

\* It holds when the session begins.
LEMMA VersionsInit == SessionInit => VersionsInv
<1> SUFFICES ASSUME SessionInit PROVE VersionsInv
    OBVIOUS
<1>1. Init
    BY DEF SessionInit
<1>2. ClientInv
    BY <1>1, TypeInit, RequestInit, WireInit, QueueInit, QueryInit, ScriptInit DEF ClientInv
<1>3. /\ clock = 1 /\ outcomes = {} /\ taken = 0 /\ late = <<>> /\ srv = NewConnection
      /\ owed = {} /\ down = <<>> /\ refused = FALSE
    BY DEF SessionInit
<1>4. sent = <<>> /\ outgoing = <<>> /\ remoteVersion = InitialVersion /\ linked = FALSE
    BY <1>1 DEF Init
<1>5. SessionTypes
    <2>1. NewConnection \in ServerEnd
        BY DEF NewConnection, ServerEnd, InitialVersion, StateVersion
    <2>2. NewConnection.queries = {} /\ NewConnection.told = {}
        BY DEF NewConnection
    <2> QED
        BY <1>3, <1>4, <2>1, <2>2, EmptySeq DEF SessionTypes
<1>6. ServerInv
    <2>1. Script = <<>>
        BY <1>4 DEF Script
    <2>2. Chain(<<>>, "ModifyQuerySet", 0) /\ <<>> \in Seq(ClientMessage)
        BY EmptyScript, EmptySeq
    <2>3. (\A type : Cardinality(Upto(<<>>, type, 0)) = 0) /\ QueriesAt(<<>>, 0) = {}
        BY <2>2, NothingTaken
    <2>4. Orderly(<<>>)
        BY DEF Orderly, Of
    <2>5. NewConnection.qs = 0 /\ NewConnection.id = 0 /\ NewConnection.queries = {}
        BY DEF NewConnection
    <2> QED
        BY <1>3, <1>4, <2>1, <2>3, <2>4, <2>5 DEF ServerInv
<1>7. StreamInv
    BY <1>3, <1>4, StreamEmpty DEF StreamInv, NewConnection
<1> QED
    BY <1>2, <1>5, <1>6, <1>7 DEF VersionsInv

\* Every step of the session keeps it.
LEMMA VersionsStep ==
    ASSUME VersionsInv, [SessionNext]_allVars
    PROVE  VersionsInv'
<1>1. ClientInv /\ SessionTypes /\ ServerInv /\ StreamInv
    BY DEF VersionsInv
<1>2. QuietStep \/ Restart \/ Connect \/ ServerStep
    BY <1>1, StepClasses
<1>3. ClientInv'
    BY <1>1, <1>2, StepsAreAny, ClientStepKeeps
<1> QED
    BY <1>1, <1>2, <1>3, SessionTypesStep, ServerInvStep, StreamStep DEF VersionsInv

\* It is an invariant of the session.
LEMMA VersionsCorrect == SessionSpec => []VersionsInv
<1>1. VersionsInv /\ [SessionNext]_allVars => VersionsInv'
    BY VersionsStep
<1> QED
    BY <1>1, VersionsInit, PTL DEF SessionSpec

\* The server never has to refuse what the client sends, on any connection.
THEOREM ServerContent == SessionSpec => []NeverRefused
<1>1. VersionsInv => NeverRefused
    BY DEF VersionsInv, ServerInv, NeverRefused
<1> QED
    BY <1>1, VersionsCorrect, PTL

\* The client is never out of step with the next Transition: a correct server
\* never makes it reject one.
THEOREM ClientInStep == SessionSpec => []NeverOutOfStep
<1>1. ASSUME VersionsInv PROVE NeverOutOfStep
    <2>1. Stream(down, remoteVersion, srv.ver) /\ down \in Seq(ServerMessage)
        BY <1>1 DEF VersionsInv, StreamInv, SessionTypes
    <2>2. DOMAIN down = 1..Len(down) /\ Len(down) \in Nat
        BY <2>1, LenProperties
    <2> SUFFICES ASSUME NEW i \in DOMAIN down, down[i].type = "Transition",
                        \A j \in 1..(i - 1) : down[j].type # "Transition"
                 PROVE  down[i].start = remoteVersion
        BY DEF NeverOutOfStep
    <2>3. i \in Of(down, "Transition") /\ \A j \in Of(down, "Transition") : i <= j
        BY <2>2 DEF Of
    <2> QED
        BY <2>1, <2>3 DEF Stream
<1> QED
    BY <1>1, VersionsCorrect, PTL

-----------------------------------------------------------------------------
(* What the subscribers of a session are handed: which results the client   *)
(* holds, which journal goes with them, and that no subscriber is taken     *)
(* back in time.                                                            *)

(* What the Transitions in flight say.                                     *)

\* A Transition tells a client with script t what changed between the versions
\* it leads from and to, the latter up to `limit`.
Faithful(m, t, limit) ==
    /\ m.start.qs <= m.end.qs /\ m.end.qs <= limit
    /\ m.start.ts <= m.end.ts /\ 1 <= m.end.ts
    /\ \A j, k \in DOMAIN m.mods : m.mods[j].id = m.mods[k].id => j = k
    /\ \A j \in Of(m.mods, "Result") :
           m.mods[j].at = m.end.ts /\ m.mods[j].journal = m.end.ts
    /\ \A id : /\ (\E j \in Of(m.mods, "Result") : m.mods[j].id = id) <=>
                     /\ id \in QueriesAt(t, m.end.qs)
                     /\ m.end.ts > m.start.ts \/ id \notin QueriesAt(t, m.start.qs)
               /\ (\E j \in Of(m.mods, "Removed") : m.mods[j].id = id) <=>
                     id \in QueriesAt(t, m.start.qs) /\ id \notin QueriesAt(t, m.end.qs)

\* It still does when the script has grown.
LEMMA FaithfulKept ==
    ASSUME NEW m \in ServerMessage, m.type = "Transition", NEW t, NEW u, NEW limit \in Nat,
           NEW limit2 \in Nat, limit <= limit2, Faithful(m, t, limit),
           \A n \in 0..limit : QueriesAt(u, n) = QueriesAt(t, n)
    PROVE  Faithful(m, u, limit2)
<1>1. m.start.qs \in Nat /\ m.end.qs \in Nat
    BY DEF ServerMessage, StateVersion
<1>2. m.start.qs \in 0..limit /\ m.end.qs \in 0..limit /\ m.end.qs <= limit2
    BY <1>1 DEF Faithful
<1>3. /\ QueriesAt(u, m.start.qs) = QueriesAt(t, m.start.qs)
      /\ QueriesAt(u, m.end.qs) = QueriesAt(t, m.end.qs)
    BY <1>2
<1> QED
    BY <1>2, <1>3 DEF Faithful

\* What the server has told the client, and is telling it.
TalkInv ==
    /\ srv.ver.qs <= srv.qs
    /\ srv.told = QueriesAt(Script, srv.ver.qs)
    /\ remoteVersion.qs <= srv.ver.qs
    /\ \A i \in Of(down, "Transition") : Faithful(down[i], Script, srv.ver.qs)

\* The server's versions and the client's, in numbers.
LEMMA VersionsOrder ==
    ASSUME VersionsInv, TalkInv
    PROVE  /\ remoteVersion.qs \in Nat /\ srv.ver.qs \in Nat /\ srv.qs \in Nat
           /\ querySetVersion \in Nat /\ remoteVersion.ts \in Nat /\ srv.ver.ts \in Nat
           /\ remoteVersion.qs <= srv.ver.qs /\ srv.ver.qs <= srv.qs /\ srv.qs <= querySetVersion
<1>1. srv.qs \in Nat /\ srv.qs <= querySetVersion
    BY ServerBehind DEF VersionsInv
<1>2. /\ remoteVersion.qs \in Nat /\ srv.ver.qs \in Nat /\ querySetVersion \in Nat
      /\ remoteVersion.ts \in Nat /\ srv.ver.ts \in Nat
    BY DEF VersionsInv, ClientInv, TypeOK, StateVersion, SessionTypes, ServerEnd
<1> QED
    BY <1>1, <1>2 DEF TalkInv

\* Along a quiet step the script says what it said of the versions so far.
LEMMA QuietScript ==
    ASSUME VersionsInv, VersionsInv', TalkInv, QuietStep
    PROVE  /\ \A n \in 0..querySetVersion : QueriesAt(Script', n) = QueriesAt(Script, n)
           /\ querySetVersion <= querySetVersion'
<1>1. ClientInv /\ ClientInv' /\ Orderly(Script)
    BY DEF VersionsInv, ServerInv
<1>2. ScriptMove
    BY <1>1, QuietSent
<1> QED
    BY <1>1, <1>2, GrowthKeeps

\* A Connect in front changes nothing it says of them.
LEMMA ConnectScript ==
    ASSUME VersionsInv, Connect
    PROVE  \A n : QueriesAt(Script', n) = QueriesAt(Script, n)
<1>1. PICK c : c = [type |-> "Connect", count |-> connectionCount, maxObserved |-> maxObserved]
    OBVIOUS
<1>2. c \in ClientMessage /\ c.type # "ModifyQuerySet"
    BY <1>1 DEF VersionsInv, ClientInv, TypeOK, ClientMessage
<1>3. PICK t \in Seq(ClientMessage) : t = outgoing
    BY DEF VersionsInv, ClientInv, TypeOK
<1>4. sent = <<>> /\ sent' = <<c>> \o t /\ outgoing' = <<>>
    BY <1>1, <1>3 DEF Connect, Open, VersionsInv, ClientInv, ScriptInv
<1>5. Script = t /\ Script' = <<c>> \o t
    <2>1. <<c>> \o t \in Seq(ClientMessage)
        BY <1>2, ConcatProperties
    <2> QED
        BY <1>3, <1>4, <2>1, ConcatEmptySeq DEF Script
<1> QED
    BY <1>2, <1>5, AtPrepend

\* A message that arrives is the last, one that leaves was the first.
LEMMA TransitionsIn ==
    ASSUME SessionTypes, NEW i \in Of(down, "Transition")
    PROVE  down[i] \in ServerMessage /\ down[i].type = "Transition" /\ i \in 1..Len(down)
<1>1. down \in Seq(ServerMessage)
    BY DEF SessionTypes
<1> QED
    BY <1>1, LenProperties, ElementOfSeq DEF Of

\* What the server appends, seen from the Transitions in flight.
LEMMA ServerSends ==
    ASSUME ClientInv, SessionTypes, ServerStep
    PROVE  \/ /\ Of(down', "Transition") = Of(down, "Transition")
              /\ \A i \in Of(down, "Transition") : down'[i] = down[i]
              /\ srv'.ver = srv.ver /\ srv'.told = srv.told
           \/ \E ts \in 1..clock, m \in ServerMessage :
                 SendTransition(ts) /\ Made(m, ts) /\ down' = Append(down, m)
<1>0. down \in Seq(ServerMessage)
    BY DEF SessionTypes
<1>1. ASSUME NEW m \in ServerMessage, m.type # "Transition", down' = Append(down, m)
      PROVE  /\ Of(down', "Transition") = Of(down, "Transition")
             /\ \A i \in Of(down, "Transition") : down'[i] = down[i]
    <2>1. /\ Of(Append(down, m), "Transition") =
                 Of(down, "Transition") \cup (IF m.type = "Transition" THEN {Len(down) + 1} ELSE {})
          /\ \A i \in Of(down, "Transition") : Append(down, m)[i] = down[i]
        BY <1>0, OfArrival
    <2> QED
        BY <1>1, <2>1
<1>2. CASE ServeConnect \/ ServeAuthenticate \/ ServeModifyQuerySet \/ ServeMutation
              \/ ServeLate \/ OtherCommit
    <2>1. down' = down /\ srv'.ver = srv.ver /\ srv'.told = srv.told
        BY <1>2 DEF ServeConnect, ServeAuthenticate, ServeModifyQuerySet, ServeMutation,
            ServeLate, OtherCommit, connectionVars, SessionTypes, ServerEnd
    <2> QED
        BY <2>1
<1>3. CASE ServeAction
    <2>1. NextFrame.id \in Nat
        BY <1>3, NextFrameType DEF ServeAction, ClientMessage
    <2>2. PICK ok \in BOOLEAN :
             down' = Append(down, [type |-> "ActionResponse", id |-> NextFrame.id, ok |-> ok])
        BY <1>3 DEF ServeAction
    <2>3. [type |-> "ActionResponse", id |-> NextFrame.id, ok |-> ok] \in ServerMessage
        BY <2>1 DEF ServerMessage
    <2> QED
        BY <1>1, <1>3, <2>2, <2>3 DEF ServeAction
<1>4. CASE RespondMutation
    <2>1. PICK o \in outcomes : down' = Append(down, [type |-> "MutationResponse",
                                             id |-> o.id, ok |-> o.ok, ts |-> o.ts])
        BY <1>4 DEF RespondMutation
    <2>2. [type |-> "MutationResponse", id |-> o.id, ok |-> o.ok, ts |-> o.ts] \in ServerMessage
        BY DEF ServerMessage, SessionTypes, Outcome
    <2> QED
        BY <1>1, <1>4, <2>1, <2>2 DEF RespondMutation
<1>5. CASE Transit
    <2>1. PICK ts \in 1..clock : SendTransition(ts)
        BY <1>5 DEF Transit
    <2>2. PICK m : Made(m, ts) /\ down' = Append(down, m)
        BY <2>1, TransitionMade
    <2> QED
        BY <2>1, <2>2 DEF Made
<1> QED
    BY <1>2, <1>3, <1>4, <1>5 DEF ServerStep, Serve

\* What the server sends is faithful to what the client told it.
LEMMA MadeFaithful ==
    ASSUME VersionsInv, TalkInv, NEW ts \in 1..clock, SendTransition(ts), NEW m, Made(m, ts)
    PROVE  Faithful(m, Script, srv.qs)
<1>1. srv.ver.qs <= srv.qs /\ srv.qs \in Nat /\ srv.ver.ts \in Nat
    BY VersionsOrder
<1>2. ts >= srv.ver.ts /\ ts >= 1 /\ ts \in Nat
    BY DEF SendTransition, VersionsInv, SessionTypes
<1>3. srv.queries = QueriesAt(Script, srv.qs) /\ srv.told = QueriesAt(Script, srv.ver.qs)
    BY DEF VersionsInv, ServerInv, TalkInv
<1>4. m.start = srv.ver /\ m.end.qs = srv.qs /\ m.end.ts = ts
    BY DEF Made
<1>5. \A j, k \in DOMAIN m.mods : m.mods[j].id = m.mods[k].id => j = k
    BY DEF Made
<1>6. \A j \in Of(m.mods, "Result") : m.mods[j].at = m.end.ts /\ m.mods[j].journal = m.end.ts
    BY <1>4 DEF Made
<1>7. \A id : /\ (\E j \in Of(m.mods, "Result") : m.mods[j].id = id) <=>
                    /\ id \in QueriesAt(Script, m.end.qs)
                    /\ m.end.ts > m.start.ts \/ id \notin QueriesAt(Script, m.start.qs)
              /\ (\E j \in Of(m.mods, "Removed") : m.mods[j].id = id) <=>
                    id \in QueriesAt(Script, m.start.qs) /\ id \notin QueriesAt(Script, m.end.qs)
    BY <1>3, <1>4 DEF Made
<1>8. m.start.qs <= m.end.qs /\ m.end.qs <= srv.qs /\ m.start.ts <= m.end.ts /\ 1 <= m.end.ts
    BY <1>1, <1>2, <1>4
<1> QED
    BY <1>5, <1>6, <1>7, <1>8 DEF Faithful

\* Every step of the session keeps the talk faithful.
LEMMA TalkStep ==
    ASSUME VersionsInv, VersionsInv', TalkInv, QuietStep \/ Restart \/ Connect \/ ServerStep
    PROVE  TalkInv'
<1>0. /\ ClientInv /\ SessionTypes /\ ServerInv /\ down \in Seq(ServerMessage)
      /\ Script \in Seq(ClientMessage) /\ Script' \in Seq(ClientMessage)
    BY ConcatProperties DEF VersionsInv, SessionTypes, ClientInv, TypeOK, Script
<1>1. CASE QuietStep
    <2>1. \A n \in 0..querySetVersion : QueriesAt(Script', n) = QueriesAt(Script, n)
        BY <1>1, QuietScript
    <2>2. srv' = srv
        BY <1>1 DEF QuietStep
    <2>3. \A n \in 0..srv.ver.qs : QueriesAt(Script', n) = QueriesAt(Script, n)
        BY <2>1, VersionsOrder
    <2>4. srv'.told = QueriesAt(Script', srv'.ver.qs)
        BY <2>2, <2>3, VersionsOrder DEF TalkInv
    <2>5. ASSUME NEW i \in Of(down, "Transition") PROVE Faithful(down[i], Script', srv'.ver.qs)
        BY <1>0, <2>2, <2>3, TransitionsIn, FaithfulKept, VersionsOrder DEF TalkInv
    <2>6. \A i \in Of(down', "Transition") : \E j \in Of(down, "Transition") : down'[i] = down[j]
        <3>1. CASE down' = down
            BY <3>1
        <3>2. CASE down # <<>> /\ down' = Tail(down)
            <4>1. \A i \in Of(Tail(down), "Transition") :
                      i + 1 \in Of(down, "Transition") /\ Tail(down)[i] = down[i + 1]
                BY <1>0, <3>2, OfTail
            <4> QED
                BY <3>2, <4>1
        <3> QED
            BY <1>1, <3>1, <3>2 DEF QuietStep
    <2>7. remoteVersion'.qs <= srv'.ver.qs
        <3>1. CASE remoteVersion' = remoteVersion
            BY <2>2, <3>1 DEF TalkInv
        <3>2. CASE down # <<>> /\ ApplyTransition(Head(down))
            <4>1. 1 \in Of(down, "Transition") /\ remoteVersion' = down[1].end
                BY <1>0, <3>2, OfTail DEF ApplyTransition
            <4> QED
                BY <2>2, <4>1 DEF TalkInv, Faithful
        <3> QED
            BY <1>1, <3>1, <3>2 DEF QuietStep, User, SubscribeShared, SubscribeNew, Unsubscribe,
                Request, SetAuth, ReceiveMutationResponse, ReceiveActionResponse, vars, remoteVars
    <2> QED
        BY <2>2, <2>4, <2>5, <2>6, <2>7 DEF TalkInv
<1>2. ASSUME srv' = NewConnection, Of(down', "Transition") = {}, remoteVersion' = InitialVersion
      PROVE  TalkInv'
    <2>1. PICK t \in Seq(ClientMessage) : t = Script'
        BY <1>0
    <2>2. Chain(t, "ModifyQuerySet", querySetVersion')
        BY <2>1 DEF VersionsInv, ClientInv, ScriptInv
    <2>3. QueriesAt(t, 0) = {}
        BY <2>2, NothingTaken
    <2>4. srv'.qs = 0 /\ srv'.ver.qs = 0 /\ srv'.told = {} /\ remoteVersion'.qs = 0
        BY <1>2 DEF NewConnection, InitialVersion
    <2> QED
        BY <1>2, <2>1, <2>3, <2>4 DEF TalkInv
<1>3. CASE Restart
    <2>1. Of(<<>>, "Transition") = {}
        BY DEF Of
    <2> QED
        BY <1>2, <1>3, <2>1 DEF Restart, Abandon, Reconnect, RemoteAfterRestart
<1>4. CASE Connect
    <2>1. Of(<<>>, "Transition") = {}
        BY DEF Of
    <2>2. ~linked /\ UNCHANGED <<srv, down, remoteVersion>>
        BY <1>4 DEF Connect, Open, connectionVars, remoteVars
    <2> QED
        BY <1>0, <1>2, <2>1, <2>2 DEF ServerInv
<1>5. CASE ServerStep
    <2>1. UNCHANGED <<Script, remoteVersion>>
        BY <1>5 DEF ServerStep, vars, wireVars, remoteVars, Script
    <2>2. srv'.qs \in Nat /\ srv.qs \in Nat /\ srv.qs <= srv'.qs
        <3>1. srv'.qs = srv.qs \/ (srv'.qs = NextFrame.new /\ Handling("ModifyQuerySet"))
            BY <1>0, <1>5 DEF ServerStep, Serve, ServeConnect, ServeAuthenticate, ServeModifyQuerySet,
                ServeMutation, ServeAction, ServeLate, RespondMutation, Transit, SendTransition,
                OtherCommit, connectionVars, SessionTypes, ServerEnd
        <3>2. srv.qs \in Nat
            BY VersionsOrder
        <3>3. ASSUME Handling("ModifyQuerySet") PROVE NextFrame.new = srv.qs + 1
            BY <1>0, <3>3, Handled DEF ServerInv, Orderly
        <3> QED
            BY <3>1, <3>2, <3>3
    <2>3. CASE /\ Of(down', "Transition") = Of(down, "Transition")
               /\ \A i \in Of(down, "Transition") : down'[i] = down[i]
               /\ srv'.ver = srv.ver /\ srv'.told = srv.told
        <3>1. srv.ver.qs <= srv'.qs
            BY <2>2, VersionsOrder
        <3> QED
            BY <2>1, <2>3, <3>1 DEF TalkInv
    <2>4. ASSUME NEW ts \in 1..clock, NEW m \in ServerMessage, SendTransition(ts), Made(m, ts),
                 down' = Append(down, m)
          PROVE  TalkInv'
        <3>1. srv'.qs = srv.qs /\ srv'.ver.qs = srv.qs /\ srv'.told = srv.queries
            BY <1>0, <2>4 DEF SendTransition, SessionTypes, ServerEnd
        <3>2. Faithful(m, Script, srv.qs)
            BY <2>4, MadeFaithful
        <3>3. ASSUME NEW i \in Of(down, "Transition") PROVE Faithful(down[i], Script, srv.qs)
            BY <1>0, TransitionsIn, FaithfulKept, VersionsOrder DEF TalkInv
        <3>4. \A i \in Of(down', "Transition") :
                  down'[i] = m \/ \E j \in Of(down, "Transition") : down'[i] = down[j]
            BY <1>0, <2>4, OfArrival
        <3>5. \A i \in Of(down', "Transition") : Faithful(down'[i], Script', srv'.ver.qs)
            BY <2>1, <3>1, <3>2, <3>3, <3>4
        <3>6. srv'.told = QueriesAt(Script', srv'.ver.qs)
            BY <1>0, <2>1, <3>1 DEF ServerInv
        <3>7. remoteVersion'.qs <= srv'.ver.qs /\ srv'.ver.qs <= srv'.qs
            BY <2>1, <3>1, VersionsOrder
        <3> QED
            BY <3>5, <3>6, <3>7 DEF TalkInv
    <2> QED
        BY <1>0, <1>5, <2>3, <2>4, ServerSends
<1> QED
    BY <1>1, <1>3, <1>4, <1>5

-----------------------------------------------------------------------------
(* What a Transition does to the client.                                   *)

\* The queries a Transition has a result for, and those it removes.
Updated(m) == {m.mods[j].id : j \in Of(m.mods, "Result")}
Dropped(m) == {m.mods[j].id : j \in Of(m.mods, "Removed")}

\* Its modifications, each query mentioned once, in terms of the two.
LEMMA ModsEffect ==
    ASSUME NEW m \in ServerMessage, m.type = "Transition", NEW t, NEW limit, Faithful(m, t, limit)
    PROVE  /\ \A r : r \in NewResults(m.mods) <=>
                        r.id \in Updated(m) /\ r = [id |-> r.id, at |-> m.end.ts]
           /\ Mentioned(m.mods) = Updated(m) \cup Dropped(m)
           /\ \A q : JournalOf(q, m.mods) = IF q.id \in Updated(m) THEN m.end.ts ELSE q.journal
           /\ \A id : /\ id \in Updated(m) <=>
                            /\ id \in QueriesAt(t, m.end.qs)
                            /\ m.end.ts > m.start.ts \/ id \notin QueriesAt(t, m.start.qs)
                      /\ id \in Dropped(m) <=>
                            id \in QueriesAt(t, m.start.qs) /\ id \notin QueriesAt(t, m.end.qs)
<1> DEFINE mods == m.mods
           R == Of(mods, "Result")
           G == Of(mods, "Removed")
<1>1. mods \in Seq(Modification)
    BY DEF ServerMessage
<1>2. DOMAIN mods = 1..Len(mods) /\ Len(mods) \in Nat
    BY <1>1, LenProperties
<1>3. \A j \in DOMAIN mods : mods[j] \in Modification
    BY <1>1, <1>2, ElementOfSeq
<1>4. \A j \in DOMAIN mods : mods[j].type = "Result" \/ mods[j].type = "Removed"
    BY <1>3 DEF Modification
<1>5. /\ \A j, k \in DOMAIN mods : mods[j].id = mods[k].id => j = k
      /\ \A j \in R : mods[j].at = m.end.ts /\ mods[j].journal = m.end.ts
      /\ \A id : /\ (\E j \in R : mods[j].id = id) <=>
                       /\ id \in QueriesAt(t, m.end.qs)
                       /\ m.end.ts > m.start.ts \/ id \notin QueriesAt(t, m.start.qs)
                 /\ (\E j \in G : mods[j].id = id) <=>
                       id \in QueriesAt(t, m.start.qs) /\ id \notin QueriesAt(t, m.end.qs)
    BY DEF Faithful
<1>6. \A id : /\ id \in Updated(m) <=> \E j \in R : mods[j].id = id
              /\ id \in Dropped(m) <=> \E j \in G : mods[j].id = id
    BY DEF Updated, Dropped
<1>7. \A j : /\ j \in R <=> j \in DOMAIN mods /\ mods[j].type = "Result"
             /\ j \in G <=> j \in DOMAIN mods /\ mods[j].type = "Removed"
    BY DEF Of
<1>8. ASSUME NEW j \in DOMAIN mods PROVE IsLast(mods, j)
    <2>1. ASSUME NEW k \in DOMAIN mods, k > j PROVE mods[k].id # mods[j].id
        BY <1>2, <1>5, <2>1
    <2> QED
        BY <2>1 DEF IsLast
<1> HIDE DEF R, G
<1>9. \A r : r \in NewResults(mods) <=> r.id \in Updated(m) /\ r = [id |-> r.id, at |-> m.end.ts]
    <2>1. NewResults(mods) = {[id |-> mods[i].id, at |-> mods[i].at] : i \in R}
        BY <1>7, <1>8 DEF NewResults
    <2>2. \A x : x \in NewResults(mods) <=> \E i \in R : x = [id |-> mods[i].id, at |-> m.end.ts]
        BY <1>5, <2>1
    <2> HIDE DEF mods
    <2> QED
        BY <1>6, <2>2
<1>10. Mentioned(mods) = Updated(m) \cup Dropped(m)
    BY <1>4, <1>6, <1>7 DEF Mentioned
<1>11. ASSUME NEW q PROVE JournalOf(q, mods) = IF q.id \in Updated(m) THEN m.end.ts ELSE q.journal
    <2> DEFINE about == {i \in DOMAIN mods : mods[i].type = "Result" /\ mods[i].id = q.id}
    <2>1. JournalOf(q, mods) = IF about = {} THEN q.journal ELSE mods[Max(about)].journal
        BY DEF JournalOf
    <2>2. about = {} <=> q.id \notin Updated(m)
        BY <1>6, <1>7
    <2>3. ASSUME about # {} PROVE mods[Max(about)].journal = m.end.ts
        <3>1. about \in SUBSET (1..Len(mods))
            BY <1>2
        <3> HIDE DEF about
        <3>2. Max(about) \in about
            BY <1>2, <2>3, <3>1, MaxOfPositions
        <3>3. Max(about) \in R
            BY <1>7, <3>2 DEF about
        <3> QED
            BY <1>5, <3>3
    <2> QED
        BY <2>1, <2>2, <2>3
<1> QED
    BY <1>5, <1>6, <1>9, <1>10, <1>11

\* The Transition the client applies is the first in flight and leads on from
\* the client's version.
LEMMA Applied ==
    ASSUME VersionsInv, TalkInv, down # <<>>, ApplyTransition(Head(down))
    PROVE  /\ Head(down) \in ServerMessage /\ Head(down).type = "Transition"
           /\ Head(down).start = remoteVersion /\ remoteVersion' = Head(down).end
           /\ Head(down).end \in StateVersion
           /\ 1 \in Of(down, "Transition") /\ down[1] = Head(down)
           /\ Faithful(Head(down), Script, srv.ver.qs)
<1>1. down \in Seq(ServerMessage)
    BY DEF VersionsInv, SessionTypes
<1>2. Head(down).type = "Transition" /\ Head(down).start = remoteVersion
          /\ remoteVersion' = Head(down).end
    BY DEF ApplyTransition
<1>3. 1 \in Of(down, "Transition") /\ down[1] = Head(down)
    BY <1>1, <1>2, OfTail
<1>4. Head(down) \in ServerMessage
    BY <1>3, TransitionsIn DEF VersionsInv
<1> QED
    BY <1>2, <1>3, <1>4 DEF TalkInv, ServerMessage

\* A server knows only queries the client made up.
LEMMA KnownQueries ==
    ASSUME ClientInv
    PROVE  \A n, id : id \in QueriesAt(Script, n) => id \in Nat /\ id < nextQueryId
<1>1. \A n, id : id \in QueriesAt(Script, n) =>
                     \E i \in Of(Script, "ModifyQuerySet") : id \in Ids(Script[i].adds)
    BY AtMember
<1> QED
    BY <1>1, AddedMember DEF ClientInv, ScriptInv

-----------------------------------------------------------------------------
(* The results the client holds.                                           *)

\* The results are those of the queries the client's acknowledged version has,
\* as far as the client still has the queries, with their journals; and what
\* every subscriber was handed last is what its query's journal belongs to.
ResultInv ==
    /\ \A r \in results : r.id \in QueriesAt(Script, remoteVersion.qs)
    /\ \A q \in querySet :
          q.id \in QueriesAt(Script, remoteVersion.qs) => \E r \in results : r.id = q.id
    /\ \A q \in querySet, r \in results : r.id = q.id => q.journal = r.at
    /\ \A v \in views : \E s \in subs : s.query = v.query /\ s.index = v.index
    /\ JournalMatchesView

\* What a subscriber is handed out of some results.
LEMMA HandedMember ==
    ASSUME NEW s, NEW set, NEW v
    PROVE  v \in Handed(s, set) <=>
              \E r \in set : /\ r.id = s.query
                             /\ v = [query |-> s.query, index |-> s.index, at |-> r.at]
BY DEF Handed

\* What the subscribers have after a Transition: the fresh results, and what
\* they had of queries it has no result for.
LEMMA ViewsMember ==
    ASSUME ResultInv, NEW m \in ServerMessage, m.type = "Transition", NEW t, NEW limit,
           Faithful(m, t, limit), NEW v \in ViewsAfter(m.mods)
    PROVE  \/ v.query \in Updated(m) /\ v.at = m.end.ts
              /\ \E s \in subs : s.query = v.query /\ s.index = v.index
           \/ v.query \notin Updated(m) /\ v \in views
<1> DEFINE new == NewResults(m.mods)
           fresh == UNION {Handed(s, new) : s \in subs}
<1>1. \A r : r \in new <=> r.id \in Updated(m) /\ r = [id |-> r.id, at |-> m.end.ts]
    BY ModsEffect
<1>2. \A f : f \in fresh <=> \E s \in subs : f \in Handed(s, new)
    OBVIOUS
<1>3. v \in fresh \/ (v \in views /\ \A f \in fresh : f.index # v.index)
    BY DEF ViewsAfter
<1> HIDE DEF new, fresh
<1>4. CASE v \in fresh
    <2>1. PICK s \in subs : v \in Handed(s, new)
        BY <1>2, <1>4
    <2>2. PICK r \in new : r.id = s.query /\ v = [query |-> s.query, index |-> s.index, at |-> r.at]
        BY <2>1, HandedMember
    <2> QED
        BY <1>1, <2>2
<1>5. ASSUME v \in views, \A f \in fresh : f.index # v.index PROVE v.query \notin Updated(m)
    <2>1. PICK s \in subs : s.query = v.query /\ s.index = v.index
        BY <1>5 DEF ResultInv
    <2> SUFFICES ASSUME v.query \in Updated(m) PROVE FALSE
        OBVIOUS
    <2> DEFINE r == [id |-> v.query, at |-> m.end.ts]
               f == [query |-> s.query, index |-> s.index, at |-> r.at]
    <2>2. r \in new /\ r.id = s.query
        BY <1>1, <2>1
    <2>3. f \in Handed(s, new) /\ f.index = v.index
        BY <2>1, <2>2, HandedMember
    <2> HIDE DEF f
    <2> QED
        BY <1>2, <1>5, <2>3
<1> QED
    BY <1>3, <1>4, <1>5

\* The results and journals keep their invariant when a Transition applies.
LEMMA ResultApply ==
    ASSUME VersionsInv, VersionsInv', TalkInv, ResultInv,
           \A n \in 0..querySetVersion : QueriesAt(Script', n) = QueriesAt(Script, n),
           down # <<>>, ApplyTransition(Head(down))
    PROVE  ResultInv'
<1> DEFINE m == Head(down)
<1>1. /\ m \in ServerMessage /\ m.type = "Transition" /\ m.start = remoteVersion
      /\ remoteVersion' = m.end /\ m.end \in StateVersion /\ Faithful(m, Script, srv.ver.qs)
    BY Applied
<1> HIDE DEF m
<1>2. PICK t, a, b : t = Script /\ a = QueriesAt(t, remoteVersion.qs) /\ b = QueriesAt(t, m.end.qs)
    OBVIOUS
<1>3. /\ \A r : r \in NewResults(m.mods) <=>
                   r.id \in Updated(m) /\ r = [id |-> r.id, at |-> m.end.ts]
      /\ Mentioned(m.mods) = Updated(m) \cup Dropped(m)
      /\ \A q : JournalOf(q, m.mods) = IF q.id \in Updated(m) THEN m.end.ts ELSE q.journal
      /\ \A id : /\ id \in Updated(m) <=> id \in b /\ (m.end.ts > m.start.ts \/ id \notin a)
                 /\ id \in Dropped(m) <=> id \in a /\ id \notin b
    BY <1>1, <1>2, ModsEffect
<1>4. QueriesAt(Script', remoteVersion'.qs) = b
    <2>1. m.end.qs \in Nat /\ m.end.qs <= srv.ver.qs /\ srv.ver.qs \in Nat
          /\ srv.ver.qs <= srv.qs /\ srv.qs \in Nat /\ srv.qs <= querySetVersion
          /\ querySetVersion \in Nat
        BY <1>1, VersionsOrder DEF Faithful, StateVersion
    <2>2. m.end.qs \in 0..querySetVersion
        BY <2>1
    <2> QED
        BY <1>1, <1>2, <2>2
<1>5. /\ results' = ResultsAfter(m.mods) /\ querySet' = JournalsAfter(m.mods)
      /\ views' = ViewsAfter(m.mods) /\ subs' = subs
    BY DEF ApplyTransition, m
<1>6. /\ \A r \in results' : \/ r \in results /\ r.id \notin Updated(m) /\ r.id \notin Dropped(m)
                             \/ r.id \in Updated(m) /\ r.at = m.end.ts
      /\ \A r \in results : r.id \notin Updated(m) /\ r.id \notin Dropped(m) => r \in results'
      /\ \A id \in Updated(m) : \E r \in results' : r.id = id
    <2>1. \A id \in Updated(m) : [id |-> id, at |-> m.end.ts] \in NewResults(m.mods)
        BY <1>3
    <2>2. \A r \in NewResults(m.mods) : r.id \in Updated(m) /\ r.at = m.end.ts
        BY <1>3
    <2>3. \A r : r \in results' <=>
             (r \in results /\ r.id \notin Updated(m) /\ r.id \notin Dropped(m))
                \/ r \in NewResults(m.mods)
        BY <1>3, <1>5 DEF ResultsAfter
    <2>4. PICK new, up, ts : new = NewResults(m.mods) /\ up = Updated(m) /\ ts = m.end.ts
        OBVIOUS
    <2>5. \A id \in up : \E r \in results' : r.id = id
        <3> SUFFICES ASSUME NEW id \in up PROVE \E r \in results' : r.id = id
            OBVIOUS
        <3>1. PICK r : r = [id |-> id, at |-> ts]
            OBVIOUS
        <3> QED
            BY <2>1, <2>3, <2>4, <3>1
    <2>6. \A r \in results' : \/ r \in results /\ r.id \notin up /\ r.id \notin Dropped(m)
                              \/ r.id \in up /\ r.at = ts
        BY <2>2, <2>3, <2>4
    <2> QED
        BY <2>3, <2>4, <2>5, <2>6
<1>7. ASSUME NEW x \in querySet'
      PROVE  \E q \in querySet : /\ x.id = q.id
                                 /\ x.journal = IF q.id \in Updated(m) THEN m.end.ts ELSE q.journal
    <2>1. PICK q \in querySet : x = [q EXCEPT !.journal = JournalOf(q, m.mods)]
        BY <1>5 DEF JournalsAfter
    <2>2. q \in LocalQuery
        BY DEF VersionsInv, ClientInv, TypeOK
    <2>3. x.id = q.id /\ x.journal = JournalOf(q, m.mods)
        BY <2>1, <2>2 DEF LocalQuery
    <2> QED
        BY <1>3, <2>3
<1>8. /\ \A r \in results : r.id \in a
      /\ \A q \in querySet : q.id \in a => \E r \in results : r.id = q.id
      /\ \A q \in querySet, r \in results : r.id = q.id => q.journal = r.at
      /\ \A v \in views : \E s \in subs : s.query = v.query /\ s.index = v.index
      /\ \A q \in querySet, v \in views : v.query = q.id => v.at = q.journal
    BY <1>2 DEF ResultInv, JournalMatchesView
<1>9. \A v \in views' : \/ v.query \in Updated(m) /\ v.at = m.end.ts
                           /\ \E s \in subs : s.query = v.query /\ s.index = v.index
                        \/ v.query \notin Updated(m) /\ v \in views
    BY <1>1, <1>5, ViewsMember
<1>10. \A r \in results' : r.id \in b
    BY <1>3, <1>6, <1>8
<1>11. ASSUME NEW x \in querySet', x.id \in b PROVE \E r \in results' : r.id = x.id
    <2>1. PICK q \in querySet : x.id = q.id
        BY <1>7
    <2>2. CASE x.id \in Updated(m)
        BY <1>6, <2>2
    <2>3. CASE x.id \notin Updated(m)
        <3>1. x.id \in a /\ x.id \notin Dropped(m)
            BY <1>3, <1>11, <2>3
        <3>2. PICK r \in results : r.id = x.id
            BY <1>8, <2>1, <3>1
        <3> QED
            BY <1>6, <2>3, <3>1, <3>2
    <2> QED
        BY <2>2, <2>3
<1>12. ASSUME NEW x \in querySet', NEW r \in results', r.id = x.id PROVE x.journal = r.at
    <2>1. PICK q \in querySet :
              /\ x.id = q.id
              /\ x.journal = IF q.id \in Updated(m) THEN m.end.ts ELSE q.journal
        BY <1>7
    <2> QED
        BY <1>6, <1>8, <1>12, <2>1
<1>13. ASSUME NEW x \in querySet', NEW v \in views', v.query = x.id PROVE v.at = x.journal
    <2>1. PICK q \in querySet :
              /\ x.id = q.id
              /\ x.journal = IF q.id \in Updated(m) THEN m.end.ts ELSE q.journal
        BY <1>7
    <2> QED
        BY <1>8, <1>9, <1>13, <2>1
<1>14. \A v \in views' : \E s \in subs' : s.query = v.query /\ s.index = v.index
    BY <1>5, <1>8, <1>9
<1> QED
    BY <1>4, <1>10, <1>11, <1>12, <1>13, <1>14 DEF ResultInv, JournalMatchesView

\* They keep it when a user subscribes, unsubscribes or asks for something.
LEMMA ResultUser ==
    ASSUME VersionsInv, ResultInv,
           \A n \in 0..querySetVersion : QueriesAt(Script', n) = QueriesAt(Script, n),
           remoteVersion.qs \in 0..querySetVersion, User \/ UNCHANGED vars
    PROVE  ResultInv'
<1>0. /\ TypeOK /\ RefCountExact /\ UniqueQueries
      /\ \A q \in querySet : q.id < nextQueryId
      /\ querySet \subseteq LocalQuery /\ nextQueryId \in Nat
    BY DEF VersionsInv, ClientInv, QueryInv, TypeOK
<1>1. PICK a : a = QueriesAt(Script, remoteVersion.qs)
    OBVIOUS
<1>2. QueriesAt(Script', remoteVersion.qs) = a
    BY <1>1
<1>3. \A id \in a : id \in Nat /\ id < nextQueryId
    BY <1>1, KnownQueries DEF VersionsInv
<1>4. /\ \A r \in results : r.id \in a
      /\ \A q \in querySet : q.id \in a => \E r \in results : r.id = q.id
      /\ \A q \in querySet, r \in results : r.id = q.id => q.journal = r.at
      /\ \A v \in views : \E s \in subs : s.query = v.query /\ s.index = v.index
      /\ \A q \in querySet, v \in views : v.query = q.id => v.at = q.journal
    BY <1>1 DEF ResultInv, JournalMatchesView
<1>5. \A v \in views : v.query < nextQueryId
    BY <1>0, <1>4 DEF RefCountExact
<1>6. ASSUME UNCHANGED <<remoteVersion>>,
             \A r \in results' : r \in results,
             \A q \in querySet' : q.id \in a => \E r \in results' : r.id = q.id,
             \A q \in querySet', r \in results' : r.id = q.id => q.journal = r.at,
             \A v \in views' : \E s \in subs' : s.query = v.query /\ s.index = v.index,
             \A q \in querySet', v \in views' : v.query = q.id => v.at = q.journal
      PROVE  ResultInv'
    BY <1>2, <1>4, <1>6 DEF ResultInv, JournalMatchesView
<1>7. CASE UNCHANGED <<remoteVersion, results, querySet, views, subs>>
    BY <1>4, <1>6, <1>7
<1>8. ASSUME NEW q \in querySet, SubscribeShared(q) PROVE ResultInv'
    <2>1. PICK s : s = [query |-> q.id, index |-> nextIndex]
        OBVIOUS
    <2>2. PICK j : j = Joined(q)
        OBVIOUS
    <2>3. j.id = q.id /\ j.journal = q.journal
        BY <1>0, <2>2 DEF Joined, LocalQuery
    <2>4. /\ querySet' = (querySet \ {q}) \cup {j} /\ subs' = subs \cup {s}
          /\ views' = views \cup Handed(s, results)
          /\ UNCHANGED <<remoteVersion, results>>
        BY <1>8, <2>1, <2>2 DEF SubscribeShared, CachedView
    <2>5. \A v \in Handed(s, results) :
              v.query = s.query /\ v.index = s.index /\ \E r \in results : r.id = s.query /\ v.at = r.at
        BY HandedMember
    <2>6. \A x \in querySet' : \E y \in querySet : x.id = y.id /\ x.journal = y.journal
        BY <2>3, <2>4
    <2>7. \A x \in querySet', v \in views' : v.query = x.id => v.at = x.journal
        BY <1>4, <2>4, <2>5, <2>6
    <2>8. \A v \in views' : \E u \in subs' : u.query = v.query /\ u.index = v.index
        BY <1>4, <2>4, <2>5
    <2>9. /\ \A x \in querySet' : x.id \in a => \E r \in results' : r.id = x.id
          /\ \A x \in querySet', r \in results' : r.id = x.id => x.journal = r.at
        BY <1>4, <2>4, <2>6
    <2> QED
        BY <1>6, <2>4, <2>7, <2>8, <2>9
<1>9. ASSUME NEW token \in Tokens, SubscribeNew(token) PROVE ResultInv'
    <2>1. PICK q, s :
              /\ q = [id |-> nextQueryId, token |-> token, num |-> 1, journal |-> NoJournal]
              /\ s = [query |-> nextQueryId, index |-> nextIndex]
        OBVIOUS
    <2>2. /\ querySet' = querySet \cup {q} /\ subs' = subs \cup {s}
          /\ views' = views \cup Handed(s, results)
          /\ UNCHANGED <<remoteVersion, results>>
        BY <1>9, <2>1 DEF SubscribeNew, CachedView
    <2>3. q.id = nextQueryId /\ s.query = nextQueryId /\ ~(nextQueryId < nextQueryId)
        BY <1>0, <2>1
    <2>4. \A r \in results : r.id # nextQueryId
        BY <1>3, <1>4, <2>3
    <2>5. Handed(s, results) = {}
        BY <2>3, <2>4 DEF Handed
    <2>6. views' = views
        BY <2>2, <2>5
    <2>7. nextQueryId \notin a /\ \A v \in views : v.query # nextQueryId
        BY <1>3, <1>5, <2>3
    <2> QED
        BY <1>4, <1>6, <2>2, <2>3, <2>4, <2>6, <2>7
<1>10. ASSUME NEW s \in subs, Unsubscribe(s) PROVE ResultInv'
    <2>1. PICK q \in querySet : q.id = s.query /\ (ReleaseShared(q) \/ ReleaseLast(q))
        BY <1>10 DEF Unsubscribe
    <2>2. /\ subs' = subs \ {s} /\ views' = {v \in views : v.index # s.index}
          /\ remoteVersion' = remoteVersion
        BY <1>10 DEF Unsubscribe
    <2>3. \A v \in views' : v \in views /\ \E u \in subs' : u.query = v.query /\ u.index = v.index
        BY <1>4, <2>2
    <2>4. CASE ReleaseShared(q)
        <3>1. PICK j : j = [q EXCEPT !.num = @ - 1]
            OBVIOUS
        <3>2. j.id = q.id /\ j.journal = q.journal
            BY <1>0, <3>1 DEF LocalQuery
        <3>3. querySet' = (querySet \ {q}) \cup {j} /\ results' = results
            BY <2>4, <3>1 DEF ReleaseShared
        <3>4. \A x \in querySet' : \E y \in querySet : x.id = y.id /\ x.journal = y.journal
            BY <3>2, <3>3
        <3> QED
            BY <1>4, <1>6, <2>2, <2>3, <3>3, <3>4
    <2>5. CASE ReleaseLast(q)
        <3>1. querySet' = querySet \ {q} /\ results' = {r \in results : r.id # q.id}
            BY <2>5 DEF ReleaseLast
        <3>2. \A x \in querySet' : x.id # q.id
            BY <1>0, <3>1 DEF UniqueQueries
        <3> QED
            BY <1>4, <1>6, <2>2, <2>3, <3>1, <3>2
    <2> QED
        BY <2>1, <2>4, <2>5
<1> QED
    BY <1>7, <1>8, <1>9, <1>10 DEF User, Request, SetAuth, vars, queryVars, remoteVars

\* Every step of the session keeps the results and journals right.
LEMMA ResultStep ==
    ASSUME VersionsInv, VersionsInv', TalkInv, ResultInv,
           QuietStep \/ Restart \/ Connect \/ ServerStep
    PROVE  ResultInv'
<1>1. CASE QuietStep
    <2>1. \A n \in 0..querySetVersion : QueriesAt(Script', n) = QueriesAt(Script, n)
        BY <1>1, QuietScript
    <2>2. remoteVersion.qs \in 0..querySetVersion
        <3>1. /\ remoteVersion.qs \in Nat /\ srv.ver.qs \in Nat /\ srv.qs \in Nat
              /\ querySetVersion \in Nat
              /\ remoteVersion.qs <= srv.ver.qs /\ srv.ver.qs <= srv.qs /\ srv.qs <= querySetVersion
            BY VersionsOrder
        <3> QED
            BY <3>1
    <2>3. CASE ReceiveMutationResponse(Head(down)) \/ ReceiveActionResponse(Head(down))
        <3>1. UNCHANGED <<remoteVersion, results, querySet, views, subs>>
            BY <2>3 DEF ReceiveMutationResponse, ReceiveActionResponse, queryVars
        <3> QED
            BY <2>1, <2>2, <3>1 DEF ResultInv, JournalMatchesView
    <2> QED
        BY <1>1, <2>1, <2>2, <2>3, ResultUser, ResultApply DEF QuietStep
<1>2. CASE Restart
    <2>1. results' = {} /\ remoteVersion'.qs = 0 /\ UNCHANGED <<querySet, views, subs>>
        BY <1>2 DEF Restart, Reconnect, RemoteAfterRestart, InitialVersion
    <2>2. PICK t \in Seq(ClientMessage) : t = Script'
        BY ConcatProperties DEF VersionsInv, ClientInv, TypeOK, Script
    <2>3. Chain(t, "ModifyQuerySet", querySetVersion')
        BY <2>2 DEF VersionsInv, ClientInv, ScriptInv
    <2>4. QueriesAt(Script', remoteVersion'.qs) = {}
        BY <2>1, <2>2, <2>3, NothingTaken
    <2> QED
        BY <2>1, <2>4 DEF ResultInv, JournalMatchesView
<1>3. CASE Connect
    <2>1. UNCHANGED <<remoteVersion, results, querySet, views, subs>>
        BY <1>3 DEF Connect, Open, queryVars, remoteVars
    <2>2. QueriesAt(Script', remoteVersion.qs) = QueriesAt(Script, remoteVersion.qs)
        BY <1>3, ConnectScript
    <2> QED
        BY <2>1, <2>2 DEF ResultInv, JournalMatchesView
<1>4. CASE ServerStep
    <2>1. UNCHANGED <<Script, remoteVersion, results, querySet, views, subs>>
        BY <1>4 DEF ServerStep, vars, wireVars, remoteVars, queryVars, Script
    <2> QED
        BY <2>1 DEF ResultInv, JournalMatchesView
<1> QED
    BY <1>1, <1>2, <1>3, <1>4

\* The inductive invariant behind InStepMeansExact and JournalMatchesView.
HeldInv == VersionsInv /\ TalkInv /\ ResultInv

\* It holds when the session begins.
LEMMA HeldInit == SessionInit => HeldInv
<1> SUFFICES ASSUME SessionInit PROVE HeldInv
    OBVIOUS
<1>1. VersionsInv
    BY VersionsInit
<1>2. /\ srv = NewConnection /\ down = <<>> /\ sent = <<>> /\ outgoing = <<>>
      /\ remoteVersion = InitialVersion /\ results = {} /\ views = {} /\ querySet = {}
    BY DEF SessionInit, Init
<1>3. Of(down, "Transition") = {}
    BY <1>2 DEF Of
<1>4. QueriesAt(Script, 0) = {}
    <2>1. PICK t \in Seq(ClientMessage) : t = Script
        BY ScriptType, <1>1 DEF VersionsInv, ClientInv
    <2>2. Chain(t, "ModifyQuerySet", querySetVersion)
        BY <1>1, <2>1 DEF VersionsInv, ClientInv, ScriptInv
    <2> QED
        BY <2>1, <2>2, NothingTaken
<1>5. TalkInv
    BY <1>2, <1>3, <1>4 DEF TalkInv, NewConnection, InitialVersion
<1>6. ResultInv
    BY <1>2 DEF ResultInv, JournalMatchesView
<1> QED
    BY <1>1, <1>5, <1>6 DEF HeldInv

\* Every step of the session keeps it.
LEMMA HeldStep ==
    ASSUME HeldInv, [SessionNext]_allVars
    PROVE  HeldInv' /\ (QuietStep \/ Restart \/ Connect \/ ServerStep)
<1>1. VersionsInv /\ VersionsInv' /\ TalkInv /\ ResultInv
    BY VersionsStep DEF HeldInv
<1>2. QuietStep \/ Restart \/ Connect \/ ServerStep
    BY <1>1, StepClasses DEF VersionsInv
<1> QED
    BY <1>1, <1>2, TalkStep, ResultStep DEF HeldInv

\* It is an invariant of the session.
LEMMA HeldCorrect == SessionSpec => []HeldInv
<1>1. HeldInv /\ [SessionNext]_allVars => HeldInv'
    BY HeldStep
<1> QED
    BY <1>1, HeldInit, PTL DEF SessionSpec

\* A client whose acknowledged query set is its own holds exactly the results
\* of its live queries: none is missing, and none is left of a query that was
\* dropped while its result was on its way.
THEOREM ExactInStep == SessionSpec => []InStepMeansExact
<1>1. ASSUME HeldInv PROVE InStepMeansExact
    <2> SUFFICES ASSUME remoteVersion.qs = querySetVersion PROVE Ids(results) = Ids(querySet)
        BY DEF InStepMeansExact
    <2>1. PICK t \in Seq(ClientMessage) : t = Script
        BY <1>1, ScriptType DEF HeldInv, VersionsInv, ClientInv
    <2>2. \A id : id \in QueriesAt(t, querySetVersion) <=> id \in Ids(querySet)
        BY <1>1, <2>1, AtClient DEF HeldInv, VersionsInv, ClientInv
    <2>3. /\ \A r \in results : r.id \in Ids(querySet)
          /\ \A q \in querySet : q.id \in Ids(querySet) => \E r \in results : r.id = q.id
        BY <1>1, <2>1, <2>2 DEF HeldInv, ResultInv
    <2>4. \A id : /\ id \in Ids(results) <=> \E r \in results : r.id = id
                  /\ id \in Ids(querySet) <=> \E q \in querySet : q.id = id
        BY IdsMemberOf
    <2> QED
        BY <2>3, <2>4
<1> QED
    BY <1>1, HeldCorrect, PTL

\* The journal a reconnect would resend belongs to the last result that the
\* subscribers of the query were handed.
THEOREM JournalsCurrent == SessionSpec => []JournalMatchesView
<1>1. HeldInv => JournalMatchesView
    BY DEF HeldInv, ResultInv
<1> QED
    BY <1>1, HeldCorrect, PTL

-----------------------------------------------------------------------------
(* Where the server resumes.                                               *)

\* The earliest timestamp a server resumes at when it is told of `observed`.
FloorOf(observed) == IF observed = NoTs THEN 0 ELSE observed

\* Connect is the first frame of a connection and no other, so a server that
\* has handled a frame knows where to resume and sends nothing earlier.
FloorInv ==
    /\ linked => sent # <<>> /\ sent[1].type = "Connect"
    /\ \A i \in Of(Script, "Connect") : i = 1 /\ linked
    /\ taken > 0 => srv.floor = FloorOf(sent[1].maxObserved)
    /\ \A i \in Of(down, "Transition") : taken > 0 /\ srv.floor <= down[i].end.ts

\* The elements of two sequences, one after the other.
LEMMA ConcatElements ==
    ASSUME NEW S, NEW a \in Seq(S), NEW b \in Seq(S)
    PROVE  /\ a \o b \in Seq(S)
           /\ \A i \in DOMAIN (a \o b) : \/ \E k \in DOMAIN a : (a \o b)[i] = a[k]
                                         \/ \E k \in DOMAIN b : (a \o b)[i] = b[k]
<1>1. /\ a \o b \in Seq(S) /\ Len(a \o b) = Len(a) + Len(b)
      /\ \A i \in 1..(Len(a) + Len(b)) :
             (a \o b)[i] = IF i <= Len(a) THEN a[i] ELSE b[i - Len(a)]
    BY ConcatProperties
<1>2. /\ DOMAIN a = 1..Len(a) /\ DOMAIN b = 1..Len(b) /\ Len(a) \in Nat /\ Len(b) \in Nat
      /\ DOMAIN (a \o b) = 1..Len(a \o b)
    BY <1>1, LenProperties
<1>3. ASSUME NEW i \in DOMAIN (a \o b)
      PROVE  \/ \E k \in DOMAIN a : (a \o b)[i] = a[k]
             \/ \E k \in DOMAIN b : (a \o b)[i] = b[k]
    <2>1. i \in 1..(Len(a) + Len(b))
        BY <1>1, <1>2
    <2>2. CASE i <= Len(a)
        BY <1>1, <1>2, <2>1, <2>2
    <2>3. CASE ~(i <= Len(a))
        <3>1. i - Len(a) \in 1..Len(b)
            BY <1>2, <2>1, <2>3
        <3> QED
            BY <1>1, <1>2, <2>1, <2>3, <3>1
    <2> QED
        BY <2>2, <2>3
<1> QED
    BY <1>1, <1>3

\* A restart queues no Connect: that is sent when the next socket opens.
LEMMA RestartConnects ==
    ASSUME TypeOK, NEW token \in Identity, Reconnect(token)
    PROVE  Of(Script', "Connect") = {}
<1>1. PICK ids : ids = Ids(ongoing \ LostActions(outgoing))
    OBVIOUS
<1>2. ids \in SUBSET Ids(ongoing)
    BY <1>1 DEF Ids
<1>3. PICK s \in Ascending(ids) :
          outgoing' = AuthenticateFirst(token) \o RestoreQueries \o Resend(s)
    BY <1>1 DEF Reconnect
<1>4. PICK a, r, e : a = AuthenticateFirst(token) /\ r = RestoreQueries /\ e = Resend(s)
    OBVIOUS
<1>5. a \in Seq(ClientMessage) /\ r \in Seq(ClientMessage) /\ e \in Seq(ClientMessage)
    BY <1>2, <1>4, RestoredPartsType
<1>6. Script' = (a \o r) \o e
    <2>1. (a \o r) \o e \in Seq(ClientMessage)
        BY <1>5, ConcatProperties
    <2> QED
        BY <1>3, <1>4, <2>1, ConcatEmptySeq DEF Script, Reconnect
<1>7. /\ \A k \in DOMAIN a : a[k].type # "Connect"
      /\ \A k \in DOMAIN r : r[k].type # "Connect"
      /\ \A k \in DOMAIN e : e[k].type # "Connect"
    <2>1. \A k \in DOMAIN a : a[k].type # "Connect"
        BY <1>4 DEF AuthenticateFirst, Authenticate
    <2>2. \A k \in DOMAIN r : r[k].type # "Connect"
        BY <1>4 DEF RestoreQueries, ModifyQuerySet
    <2>3. \A k \in DOMAIN e : e[k].type # "Connect"
        BY <1>2, <1>4, ResentTypes
    <2> QED
        BY <2>1, <2>2, <2>3
<1>8. /\ a \o r \in Seq(ClientMessage)
      /\ \A i \in DOMAIN (a \o r) : (a \o r)[i].type # "Connect"
    BY <1>5, <1>7, ConcatElements
<1>9. \A i \in DOMAIN ((a \o r) \o e) : ((a \o r) \o e)[i].type # "Connect"
    BY <1>5, <1>7, <1>8, ConcatElements
<1> QED
    BY <1>6, <1>9 DEF Of

\* Every step of the session keeps the server's floor.
LEMMA FloorStep ==
    ASSUME VersionsInv, VersionsInv', FloorInv, QuietStep \/ Restart \/ Connect \/ ServerStep
    PROVE  FloorInv'
<1>0. /\ ClientInv /\ ClientInv' /\ SessionTypes /\ ServerInv
      /\ down \in Seq(ServerMessage) /\ sent \in Seq(ClientMessage) /\ taken \in Nat
    <2>1. ClientInv /\ ClientInv' /\ SessionTypes /\ ServerInv
        BY DEF VersionsInv
    <2>2. down \in Seq(ServerMessage) /\ sent \in Seq(ClientMessage) /\ taken \in 0..Len(sent)
        BY <2>1 DEF SessionTypes, ClientInv, TypeOK
    <2> QED
        BY <2>1, <2>2, LenProperties
<1>1. CASE QuietStep
    <2>1. /\ ScriptMove /\ linked' = linked
          /\ \A i \in 1..Len(sent) : sent'[i] = sent[i]
          /\ Len(sent) <= Len(sent') /\ Len(sent) \in Nat /\ Len(sent') \in Nat
        BY <1>0, <1>1, QuietSent, LenProperties DEF ClientInv, TypeOK
    <2>2. UNCHANGED <<taken, srv>>
        BY <1>1 DEF QuietStep
    <2>3. linked => sent'[1] = sent[1] /\ sent' # <<>>
        <3> HAVE linked
        <3>1. Len(sent) > 0
            BY <1>0, EmptySeq DEF FloorInv
        <3> QED
            BY <2>1, <3>1
    <2>4. taken > 0 => linked
        BY <1>0 DEF ServerInv
    <2>5. Of(Script', "Connect") = Of(Script, "Connect")
        <3>1. CASE Script' = Script
            BY <3>1
        <3>2. ASSUME NEW f, NewFrame(f), Script' = Append(Script, f)
              PROVE  Of(Script', "Connect") = Of(Script, "Connect")
            <4>1. PICK t \in Seq(ClientMessage) : t = Script
                BY <1>0, ScriptType DEF ClientInv
            <4>2. f \in ClientMessage /\ f.type # "Connect"
                BY <3>2 DEF NewFrame
            <4>3. Of(Append(t, f), "Connect") =
                      Of(t, "Connect") \cup (IF f.type = "Connect" THEN {Len(t) + 1} ELSE {})
                BY <4>1, <4>2, OfArrival
            <4> QED
                BY <3>2, <4>1, <4>2, <4>3
        <3> QED
            BY <2>1, <3>1, <3>2 DEF ScriptMove
    <2>6. \A i \in Of(down', "Transition") : \E j \in Of(down, "Transition") : down'[i] = down[j]
        <3>1. CASE down' = down
            BY <3>1
        <3>2. CASE down # <<>> /\ down' = Tail(down)
            <4>1. \A i \in Of(Tail(down), "Transition") :
                      i + 1 \in Of(down, "Transition") /\ Tail(down)[i] = down[i + 1]
                BY <1>0, <3>2, OfTail
            <4> QED
                BY <3>2, <4>1
        <3> QED
            BY <1>1, <3>1, <3>2 DEF QuietStep
    <2> QED
        BY <2>1, <2>2, <2>3, <2>4, <2>5, <2>6 DEF FloorInv
<1>2. CASE Restart
    <2>1. ~linked' /\ taken' = 0 /\ down' = <<>>
        BY <1>2 DEF Restart, Abandon, Reconnect
    <2>2. Of(Script', "Connect") = {}
        BY <1>0, <1>2, RestartConnects DEF Restart, ClientInv
    <2>3. Of(<<>>, "Transition") = {}
        BY DEF Of
    <2> QED
        BY <2>1, <2>2, <2>3 DEF FloorInv
<1>3. CASE Connect
    <2>1. PICK c : c = [type |-> "Connect", count |-> connectionCount, maxObserved |-> maxObserved]
        OBVIOUS
    <2>2. c \in ClientMessage /\ c.type = "Connect"
        BY <1>0, <2>1 DEF ClientInv, TypeOK, ClientMessage
    <2>3. PICK t \in Seq(ClientMessage) : t = outgoing
        BY <1>0 DEF ClientInv, TypeOK
    <2>4. /\ sent = <<>> /\ sent' = <<c>> \o t /\ outgoing' = <<>> /\ linked' = TRUE /\ ~linked
          /\ UNCHANGED <<taken, down>>
        BY <1>0, <1>3, <2>1, <2>3 DEF Connect, Open, ClientInv, ScriptInv, connectionVars
    <2>5. taken = 0 /\ down = <<>>
        BY <1>0, <2>4 DEF ServerInv
    <2>6. Script = t /\ Script' = <<c>> \o t
        <3>1. <<c>> \o t \in Seq(ClientMessage)
            BY <2>2, ConcatProperties
        <3> QED
            BY <2>3, <2>4, <3>1, ConcatEmptySeq DEF Script
    <2>7. /\ (<<c>> \o t)[1] = c /\ <<c>> \o t # <<>>
          /\ \A i \in DOMAIN (<<c>> \o t) : i = 1 \/ (i - 1 \in DOMAIN t /\ (<<c>> \o t)[i] = t[i - 1])
        <3>1. <<c>> \in Seq(ClientMessage) /\ Len(<<c>>) = 1
            BY <2>2
        <3>2. /\ <<c>> \o t \in Seq(ClientMessage) /\ Len(<<c>> \o t) = 1 + Len(t)
              /\ \A i \in 1..(1 + Len(t)) :
                     (<<c>> \o t)[i] = IF i <= 1 THEN <<c>>[i] ELSE t[i - 1]
            BY <3>1, ConcatProperties
        <3>3. DOMAIN (<<c>> \o t) = 1..(1 + Len(t)) /\ DOMAIN t = 1..Len(t) /\ Len(t) \in Nat
            BY <3>2, LenProperties
        <3>4. (<<c>> \o t)[1] = c
            BY <3>2, <3>3
        <3>5. <<c>> \o t # <<>>
            BY <3>2, <3>3, EmptySeq
        <3>6. \A i \in 1..(1 + Len(t)) : i = 1 \/ (i - 1 \in 1..Len(t) /\ ~(i <= 1))
            BY <3>3
        <3> QED
            BY <3>2, <3>3, <3>4, <3>5, <3>6
    <2>8. Of(t, "Connect") = {}
        BY <2>4, <2>6 DEF FloorInv
    <2>9. \A i \in Of(Script', "Connect") : i = 1
        BY <2>6, <2>7, <2>8 DEF Of
    <2>10. Of(<<>>, "Transition") = {}
        BY DEF Of
    <2> QED
        BY <2>2, <2>4, <2>5, <2>7, <2>9, <2>10 DEF FloorInv
<1>4. ASSUME ServerStep PROVE FloorInv'
    <2>1. UNCHANGED <<Script, sent, linked>>
        BY <1>4 DEF ServerStep, vars, wireVars, linkVars, Script
    <2>2. linked => sent[1].type = "Connect"
        BY DEF FloorInv
    <2>3. ASSUME UNCHANGED <<srv, taken>>, Of(down', "Transition") = Of(down, "Transition"),
                 \A i \in Of(down, "Transition") : down'[i] = down[i]
          PROVE  FloorInv'
        BY <2>1, <2>3 DEF FloorInv
    <2>4. ASSUME NEW type, Handling(type), type # "Connect", srv'.floor = srv.floor,
                 Of(down', "Transition") = Of(down, "Transition"),
                 \A i \in Of(down, "Transition") : down'[i] = down[i]
          PROVE  FloorInv'
        <3>1. taken' = taken + 1 /\ NextFrame.type = type /\ linked
            BY <2>4 DEF Handling
        <3>2. taken > 0
            <4>1. ASSUME taken = 0 PROVE FALSE
                BY <2>2, <2>4, <3>1, <4>1 DEF NextFrame
            <4> QED
                BY <1>0, <4>1
        <3>3. taken' > 0
            BY <1>0, <3>1
        <3> QED
            BY <2>1, <2>4, <3>2, <3>3 DEF FloorInv
    <2>5. CASE ServeConnect
        <3>1. Handling("Connect") /\ down' = down
            BY <2>5 DEF ServeConnect
        <3>2. taken + 1 \in Of(Script, "Connect") /\ taken' = taken + 1
            BY <1>0, <3>1, Handled, NextFrameType
        <3>3. taken = 0 /\ taken' = 1
            BY <1>0, <3>2 DEF FloorInv
        <3>4. NextFrame = sent[1]
            BY <3>3 DEF NextFrame
        <3>5. srv'.floor = FloorOf(sent[1].maxObserved)
            BY <1>0, <2>5, <3>4 DEF ServeConnect, FloorOf, SessionTypes, ServerEnd
        <3>6. Of(down, "Transition") = {}
            BY <3>3 DEF FloorInv
        <3> QED
            BY <2>1, <3>1, <3>5, <3>6 DEF FloorInv
    <2>6. CASE ServeAuthenticate
        BY <1>0, <2>4, <2>6 DEF ServeAuthenticate, SessionTypes, ServerEnd
    <2>7. CASE ServeModifyQuerySet
        BY <1>0, <2>4, <2>7 DEF ServeModifyQuerySet, SessionTypes, ServerEnd
    <2>8. CASE ServeMutation
        BY <2>4, <2>8 DEF ServeMutation
    <2>9. CASE ServeAction
        <3>1. srv'.floor = srv.floor /\ srv'.ver = srv.ver /\ Handling("Action")
            BY <2>9 DEF ServeAction
        <3>2. ~Transit
            <4>1. taken' = taken + 1
                BY <3>1 DEF Handling
            <4>2. Transit => taken' = taken
                BY DEF Transit, SendTransition
            <4> QED
                BY <1>0, <4>1, <4>2
        <3>3. /\ Of(down', "Transition") = Of(down, "Transition")
              /\ \A i \in Of(down, "Transition") : down'[i] = down[i]
            BY <1>0, <1>4, <3>2, ServerSends DEF Transit
        <3> QED
            BY <2>4, <3>1, <3>3
    <2>10. CASE ServeLate \/ OtherCommit
        BY <2>3, <2>10 DEF ServeLate, OtherCommit, connectionVars
    <2>11. CASE RespondMutation
        <3>1. srv' = srv /\ taken' = taken /\ owed' # owed
            BY <2>11 DEF RespondMutation
        <3>2. ~Transit
            BY <3>1 DEF Transit, SendTransition
        <3>3. /\ Of(down', "Transition") = Of(down, "Transition")
              /\ \A i \in Of(down, "Transition") : down'[i] = down[i]
            BY <1>0, <1>4, <3>2, ServerSends DEF Transit
        <3> QED
            BY <2>3, <3>1, <3>3
    <2>12. CASE Transit
        <3>1. PICK ts \in 1..clock : SendTransition(ts)
            BY <2>12 DEF Transit
        <3>2. PICK m : Made(m, ts) /\ down' = Append(down, m)
            BY <1>0, <3>1, TransitionMade
        <3>3. m \in ServerMessage /\ m.end.ts = ts
            BY <3>2 DEF Made
        <3>4. /\ ts >= srv.floor /\ taken > 0 /\ taken' = taken /\ srv'.floor = srv.floor
              /\ srv.floor \in Nat /\ ts \in Nat
            BY <1>0, <3>1 DEF SendTransition, SessionTypes, ServerEnd
        <3>5. /\ Of(Append(down, m), "Transition") = Of(down, "Transition")
                    \cup (IF m.type = "Transition" THEN {Len(down) + 1} ELSE {})
              /\ \A i \in Of(down, "Transition") : Append(down, m)[i] = down[i]
              /\ Append(down, m)[Len(down) + 1] = m
            BY <1>0, <3>3, OfArrival
        <3>6. \A i \in Of(down', "Transition") : taken' > 0 /\ srv'.floor <= down'[i].end.ts
            BY <3>2, <3>3, <3>4, <3>5 DEF FloorInv
        <3> QED
            BY <2>1, <3>4, <3>6 DEF FloorInv
    <2> QED
        BY <1>4, <2>5, <2>6, <2>7, <2>8, <2>9, <2>10, <2>11, <2>12 DEF ServerStep, Serve
<1> QED
    BY <1>1, <1>2, <1>3, <1>4

-----------------------------------------------------------------------------
(* The snapshots of the client and its subscribers.                        *)

\* Once a connection has delivered a Transition, every result and every
\* subscriber's snapshot is at the acknowledged timestamp.  Before that there
\* are no results, and the subscribers' queries are in the query set that the
\* client restored, which the first Transition covers.
PresentInv ==
    /\ \A r \in results : r.at = remoteVersion.ts /\ r.at > 0
    /\ \A v \in views : remoteVersion.ts = 0 =>
          /\ v.query \in QueriesAt(Script, 1)
          /\ \A i \in Of(down, "Transition") : down[i].end.qs > 0
    /\ \A v \in views : remoteVersion.ts > 0 =>
          v.query \in QueriesAt(Script, remoteVersion.qs) /\ v.at = remoteVersion.ts

\* At the version a script reaches, the queries are those it adds and never
\* removes.
LEMMA AtEnd ==
    ASSUME NEW t \in Seq(ClientMessage), NEW version, Chain(t, "ModifyQuerySet", version)
    PROVE  \A id : id \in QueriesAt(t, version) <=> id \in Added(t) /\ id \notin Removed(t)
<1> DEFINE S == Of(t, "ModifyQuerySet")
<1>1. \A i \in S : t[i].base \in Nat /\ t[i].base < version
    BY ChainOrder
<1>2. \A id : id \in QueriesAt(t, version) <=>
                 /\ \E i \in S : t[i].base < version /\ id \in Ids(t[i].adds)
                 /\ \A i \in S : t[i].base < version => id \notin t[i].removes
    BY AtMember
<1>3. \A id : /\ id \in Added(t) <=> \E i \in S : id \in Ids(t[i].adds)
              /\ id \in Removed(t) <=> \E i \in S : id \in t[i].removes
    BY AddedMember
<1> HIDE DEF S
<1> QED
    BY <1>1, <1>2, <1>3

\* A query that is in the first version comes with the first ModifyQuerySet.
LEMMA FirstVersion ==
    ASSUME ClientInv, NEW id \in QueriesAt(Script, 1)
    PROVE  /\ 1 \in 0..querySetVersion
           /\ \E i \in Of(Script, "ModifyQuerySet") : Script[i].base = 0
<1>1. PICK t \in Seq(ClientMessage) : t = Script
    BY ScriptType DEF ClientInv
<1>2. Chain(t, "ModifyQuerySet", querySetVersion)
    BY <1>1 DEF ClientInv, ScriptInv
<1>3. PICK i \in Of(t, "ModifyQuerySet") : t[i].base < 1
    BY <1>1, AtMember
<1>4. t[i].base \in Nat /\ t[i].base < querySetVersion /\ querySetVersion \in Nat
    BY <1>2, ChainOrder
<1> QED
    BY <1>1, <1>3, <1>4

\* What a step of the user leaves of the results, and whom it hands a snapshot:
\* a new subscriber, the result that is there.
LEMMA UserViews ==
    ASSUME VersionsInv, User \/ UNCHANGED vars
    PROVE  /\ UNCHANGED <<remoteVersion, maxObserved, answers, linked>>
           /\ \A r \in results' : r \in results
           /\ \A w \in views' : \/ w \in views
                                \/ /\ w.index = nextIndex
                                   /\ \E r \in results : r.id = w.query /\ w.at = r.at
           /\ \A r \in ongoing' : r \in ongoing \/ r.ts = NoTs
<1>1. ASSUME NEW q \in querySet, SubscribeShared(q)
      PROVE  \A w \in views' : \/ w \in views
                               \/ /\ w.index = nextIndex
                                  /\ \E r \in results : r.id = w.query /\ w.at = r.at
    <2>1. PICK s : s = [query |-> q.id, index |-> nextIndex]
        OBVIOUS
    <2>2. views' = views \cup Handed(s, results) /\ s.index = nextIndex
        BY <1>1, <2>1 DEF SubscribeShared, CachedView
    <2> QED
        BY <2>2, HandedMember
<1>2. ASSUME NEW token \in Tokens, SubscribeNew(token)
      PROVE  \A w \in views' : \/ w \in views
                               \/ /\ w.index = nextIndex
                                  /\ \E r \in results : r.id = w.query /\ w.at = r.at
    <2>1. PICK s : s = [query |-> nextQueryId, index |-> nextIndex]
        OBVIOUS
    <2>2. views' = views \cup Handed(s, results) /\ s.index = nextIndex
        BY <1>2, <2>1 DEF SubscribeNew, CachedView
    <2> QED
        BY <2>2, HandedMember
<1>3. ASSUME NEW s \in subs, Unsubscribe(s)
      PROVE  (\A w \in views' : w \in views) /\ \A r \in results' : r \in results
    BY <1>3 DEF Unsubscribe, ReleaseShared, ReleaseLast
<1>4. ASSUME NEW kind, Request(kind) PROVE \A r \in ongoing' : r \in ongoing \/ r.ts = NoTs
    BY <1>4 DEF Request
<1>5. UNCHANGED <<remoteVersion, maxObserved, answers, linked>>
    BY DEF User, SubscribeShared, SubscribeNew, Unsubscribe, Request, SetAuth, vars, remoteVars,
        requestVars, linkVars
<1>6. \A r \in results' : r \in results
    BY <1>3 DEF User, SubscribeShared, SubscribeNew, Request, SetAuth, vars, remoteVars
<1>7. \A w \in views' : \/ w \in views
                        \/ /\ w.index = nextIndex
                           /\ \E r \in results : r.id = w.query /\ w.at = r.at
    BY <1>1, <1>2, <1>3 DEF User, Request, SetAuth, vars, remoteVars
<1>8. \A r \in ongoing' : r \in ongoing \/ r.ts = NoTs
    BY <1>4 DEF User, SubscribeShared, SubscribeNew, Unsubscribe, SetAuth, vars, requestVars
<1> QED
    BY <1>5, <1>6, <1>7, <1>8

\* A subscriber's query is one of the client's.
LEMMA ViewsLive ==
    ASSUME HeldInv
    PROVE  \A v \in views : v.query \in Ids(querySet)
<1>1. \A v \in views : \E s \in subs : s.query = v.query
    BY DEF HeldInv, ResultInv
<1>2. \A s \in subs : \E q \in querySet : q.id = s.query
    BY DEF HeldInv, VersionsInv, ClientInv, QueryInv, RefCountExact
<1> QED
    BY <1>1, <1>2, IdsMemberOf

\* After a Transition every result and every snapshot is at its timestamp.
LEMMA PresentApply ==
    ASSUME HeldInv, HeldInv', PresentInv, QuietStep, down # <<>>, ApplyTransition(Head(down))
    PROVE  PresentInv'
<1> DEFINE m == Head(down)
<1>1. /\ m \in ServerMessage /\ m.type = "Transition" /\ m.start = remoteVersion
      /\ remoteVersion' = m.end /\ m.end \in StateVersion /\ Faithful(m, Script, srv.ver.qs)
      /\ 1 \in Of(down, "Transition") /\ down[1] = m
    BY Applied DEF HeldInv
<1> HIDE DEF m
<1>2. PICK t, a, b : t = Script /\ a = QueriesAt(t, remoteVersion.qs) /\ b = QueriesAt(t, m.end.qs)
    OBVIOUS
<1>3. /\ \A r : r \in NewResults(m.mods) <=>
                   r.id \in Updated(m) /\ r = [id |-> r.id, at |-> m.end.ts]
      /\ Mentioned(m.mods) = Updated(m) \cup Dropped(m)
      /\ \A id : /\ id \in Updated(m) <=> id \in b /\ (m.end.ts > m.start.ts \/ id \notin a)
                 /\ id \in Dropped(m) <=> id \in a /\ id \notin b
    BY <1>1, <1>2, ModsEffect
<1>4. /\ m.start.ts \in Nat /\ m.end.ts \in Nat /\ m.end.ts >= 1 /\ m.start.ts <= m.end.ts
      /\ m.start.qs \in Nat /\ m.end.qs \in Nat /\ m.start.qs <= m.end.qs
      /\ m.end.qs \in 0..querySetVersion
    <2>1. /\ m.start \in StateVersion /\ m.end.qs <= srv.ver.qs /\ srv.ver.qs \in Nat
          /\ srv.ver.qs <= srv.qs /\ srv.qs \in Nat /\ srv.qs <= querySetVersion
          /\ querySetVersion \in Nat
        BY <1>1, VersionsOrder DEF Faithful, ServerMessage, HeldInv
    <2> QED
        BY <1>1, <2>1 DEF Faithful, StateVersion
<1>5. QueriesAt(Script', remoteVersion'.qs) = b
    BY <1>1, <1>2, <1>4, QuietScript DEF HeldInv
<1>6. results' = ResultsAfter(m.mods) /\ views' = ViewsAfter(m.mods)
    BY DEF ApplyTransition, m
<1>7. ASSUME NEW r \in results' PROVE r.at = m.end.ts
    <2>1. CASE r \in NewResults(m.mods)
        BY <1>3, <2>1
    <2>2. CASE r \in results /\ r.id \notin Mentioned(m.mods)
        <3>1. r.id \in a /\ r.id \notin Updated(m) /\ r.id \notin Dropped(m)
            BY <1>2, <1>3, <2>2 DEF HeldInv, ResultInv
        <3>2. m.end.ts = m.start.ts
            BY <1>3, <1>4, <3>1
        <3> QED
            BY <1>1, <2>2, <3>2 DEF PresentInv
    <2> QED
        BY <1>6, <2>1, <2>2 DEF ResultsAfter
<1>8. \A n \in Nat : \A id \in Ids(querySet) :
          n <= m.end.qs /\ id \in QueriesAt(t, n) => id \in b
    <2>1. t \in Seq(ClientMessage) /\ TypeOK /\ ScriptInv
        BY <1>2, ScriptType DEF HeldInv, VersionsInv, ClientInv
    <2>2. \A k, n \in Nat : \A id \in Ids(querySet) :
              k <= n /\ id \in QueriesAt(t, k) => id \in QueriesAt(t, n)
        BY <1>2, <2>1, AtClient
    <2> QED
        BY <1>2, <1>4, <2>2
<1>9. ASSUME NEW v \in views' PROVE v.query \in b /\ v.at = m.end.ts
    <2>1. \/ v.query \in Updated(m) /\ v.at = m.end.ts
          \/ v.query \notin Updated(m) /\ v \in views
        BY <1>1, <1>6, ViewsMember DEF HeldInv
    <2>2. CASE v.query \in Updated(m) /\ v.at = m.end.ts
        BY <1>3, <2>2
    <2>3. CASE v.query \notin Updated(m) /\ v \in views
        <3>1. v.query \in Ids(querySet)
            BY <2>3, ViewsLive
        <3>2. CASE m.start.ts = 0
            <4>1. v.query \in QueriesAt(t, 1) /\ m.end.qs > 0
                BY <1>1, <1>2, <2>3, <3>2 DEF PresentInv
            <4>2. v.query \in b
                BY <1>4, <1>8, <3>1, <4>1
            <4> QED
                BY <1>3, <1>4, <2>3, <3>2, <4>2
        <3>3. CASE m.start.ts > 0
            <4>1. v.query \in a /\ v.at = m.start.ts
                BY <1>1, <1>2, <2>3, <3>3 DEF PresentInv
            <4>2. v.query \in b
                BY <1>1, <1>2, <1>4, <1>8, <3>1, <4>1
            <4> QED
                BY <1>3, <1>4, <2>3, <4>1, <4>2
        <3> QED
            BY <1>4, <3>2, <3>3
    <2> QED
        BY <2>1, <2>2, <2>3
<1>10. remoteVersion'.ts = m.end.ts
    BY <1>1
<1> QED
    BY <1>4, <1>5, <1>7, <1>9, <1>10 DEF PresentInv

\* Every step of the session keeps the snapshots together.
LEMMA PresentStep ==
    ASSUME HeldInv, HeldInv', PresentInv, QuietStep \/ Restart \/ Connect \/ ServerStep
    PROVE  PresentInv'
<1>0. /\ VersionsInv /\ VersionsInv' /\ ClientInv /\ ClientInv' /\ SessionTypes /\ ServerInv
      /\ TalkInv /\ down \in Seq(ServerMessage)
    BY DEF HeldInv, VersionsInv, SessionTypes
<1>1. ASSUME QuietStep, remoteVersion' = remoteVersion, \A r \in results' : r \in results,
             \A w \in views' : w \in views \/ \E r \in results : r.id = w.query /\ w.at = r.at
      PROVE  PresentInv'
    <2>1. \A n \in 0..querySetVersion : QueriesAt(Script', n) = QueriesAt(Script, n)
        BY <1>0, <1>1, QuietScript
    <2>2. remoteVersion.qs \in 0..querySetVersion /\ remoteVersion.ts \in Nat
        <3>1. /\ remoteVersion.qs \in Nat /\ srv.ver.qs \in Nat /\ srv.qs \in Nat
              /\ querySetVersion \in Nat /\ remoteVersion.ts \in Nat
              /\ remoteVersion.qs <= srv.ver.qs /\ srv.ver.qs <= srv.qs /\ srv.qs <= querySetVersion
            BY <1>0, VersionsOrder
        <3> QED
            BY <3>1
    <2>3. \A id \in QueriesAt(Script, 1) : id \in QueriesAt(Script', 1)
        BY <1>0, <2>1, FirstVersion
    <2>4. QueriesAt(Script', remoteVersion'.qs) = QueriesAt(Script, remoteVersion.qs)
        BY <1>1, <2>1, <2>2
    <2>5. \A i \in Of(down', "Transition") : \E j \in Of(down, "Transition") : down'[i] = down[j]
        <3>1. CASE down' = down
            BY <3>1
        <3>2. CASE down # <<>> /\ down' = Tail(down)
            <4>1. \A i \in Of(Tail(down), "Transition") :
                      i + 1 \in Of(down, "Transition") /\ Tail(down)[i] = down[i + 1]
                BY <1>0, <3>2, OfTail
            <4> QED
                BY <3>2, <4>1
        <3> QED
            BY <1>1, <3>1, <3>2 DEF QuietStep
    <2>6. \A r \in results : /\ r.at = remoteVersion.ts /\ r.at > 0
                             /\ r.id \in QueriesAt(Script, remoteVersion.qs)
        BY DEF PresentInv, HeldInv, ResultInv
    <2>7. ASSUME NEW w \in views', remoteVersion.ts = 0
          PROVE  /\ w.query \in QueriesAt(Script', 1)
                 /\ \A i \in Of(down', "Transition") : down'[i].end.qs > 0
        <3>1. w \in views
            BY <1>1, <2>6, <2>7
        <3>2. /\ w.query \in QueriesAt(Script, 1)
              /\ \A i \in Of(down, "Transition") : down[i].end.qs > 0
            BY <2>7, <3>1 DEF PresentInv
        <3> QED
            BY <2>3, <2>5, <3>2
    <2>8. ASSUME NEW w \in views', remoteVersion.ts > 0
          PROVE  w.query \in QueriesAt(Script, remoteVersion.qs) /\ w.at = remoteVersion.ts
        BY <1>1, <2>6, <2>8 DEF PresentInv
    <2> QED
        BY <1>1, <2>4, <2>6, <2>7, <2>8 DEF PresentInv
<1>2. CASE QuietStep
    <2>1. CASE User \/ UNCHANGED vars
        BY <1>0, <1>1, <1>2, <2>1, UserViews
    <2>2. CASE ReceiveMutationResponse(Head(down)) \/ ReceiveActionResponse(Head(down))
        <3>1. UNCHANGED <<remoteVersion, results, views>>
            BY <2>2 DEF ReceiveMutationResponse, ReceiveActionResponse
        <3> QED
            BY <1>1, <1>2, <3>1
    <2> QED
        BY <1>2, <2>1, <2>2, PresentApply DEF QuietStep
<1>3. CASE Restart
    <2>1. PICK token \in Identity : Reconnect(token)
        BY <1>3 DEF Restart
    <2>2. /\ results' = {} /\ remoteVersion'.ts = 0 /\ UNCHANGED <<querySet, views>> /\ down' = <<>>
          /\ querySetVersion' = IF querySet = {} THEN 0 ELSE 1
        BY <1>3, <2>1 DEF Restart, Abandon, Reconnect, RemoteAfterRestart, InitialVersion
    <2>3. PICK t \in Seq(ClientMessage) : t = Script'
        BY <1>0, ConcatProperties DEF ClientInv, TypeOK, Script
    <2>4. /\ Chain(t, "ModifyQuerySet", querySetVersion')
          /\ \A id : id \in Ids(querySet) <=> id \in Added(t) /\ id \notin Removed(t)
        <3>1. Ids(querySet)' = Ids(querySet)
            BY <2>2 DEF Ids
        <3> QED
            BY <1>0, <2>3, <3>1 DEF ClientInv, ScriptInv
    <2>5. \A id : id \in QueriesAt(t, querySetVersion') <=> id \in Ids(querySet)
        BY <2>4, AtEnd
    <2>6. ASSUME NEW v \in views PROVE v.query \in QueriesAt(t, 1)
        <3>1. v.query \in Ids(querySet)
            BY ViewsLive
        <3>2. querySetVersion' = 1
            BY <2>2, <3>1 DEF Ids
        <3> QED
            BY <2>5, <3>1, <3>2
    <2>7. Of(down', "Transition") = {}
        BY <2>2 DEF Of
    <2> QED
        BY <2>2, <2>3, <2>6, <2>7 DEF PresentInv
<1>4. CASE Connect
    <2>1. UNCHANGED <<remoteVersion, results, views, down>>
        BY <1>4 DEF Connect, Open, remoteVars, connectionVars
    <2>2. \A n : QueriesAt(Script', n) = QueriesAt(Script, n)
        BY <1>0, <1>4, ConnectScript
    <2> QED
        BY <2>1, <2>2 DEF PresentInv
<1>5. CASE ServerStep
    <2>1. UNCHANGED <<Script, remoteVersion, results, views>>
        BY <1>5 DEF ServerStep, vars, wireVars, remoteVars, Script
    <2>2. CASE /\ Of(down', "Transition") = Of(down, "Transition")
               /\ \A i \in Of(down, "Transition") : down'[i] = down[i]
        BY <2>1, <2>2 DEF PresentInv
    <2>3. ASSUME NEW ts \in 1..clock, NEW m \in ServerMessage, SendTransition(ts), Made(m, ts),
                 down' = Append(down, m)
          PROVE  PresentInv'
        <3>1. \A i \in Of(down', "Transition") :
                  down'[i] = m \/ \E j \in Of(down, "Transition") : down'[i] = down[j]
            BY <1>0, <2>3, OfArrival
        <3>2. ASSUME NEW v \in views, remoteVersion.ts = 0 PROVE m.end.qs > 0
            <4>1. v.query \in QueriesAt(Script, 1)
                BY <3>2 DEF PresentInv
            <4>2. PICK i \in Of(Script, "ModifyQuerySet") : Script[i].base = 0
                BY <1>0, <4>1, FirstVersion
            <4>3. Script = sent /\ Script \in Seq(ClientMessage) /\ linked
                BY <1>0, <2>3, SentFirst DEF SendTransition, ClientInv
            <4>4. Restored /\ taken \in Nat /\ DOMAIN Script = 1..Len(Script) /\ Len(Script) \in Nat
                BY <1>0, <2>3, <4>3, LenProperties DEF SendTransition, SessionTypes
            <4>5. i \in 1..Len(sent) /\ sent[i].type = "ModifyQuerySet" /\ sent[i].base = 0
                BY <4>2, <4>3, <4>4 DEF Of
            <4>6. i <= taken
                <5> SUFFICES ASSUME ~(i <= taken) PROVE FALSE
                    OBVIOUS
                <5>1. i \in (taken + 1)..Len(sent)
                    BY <4>4, <4>5
                <5> QED
                    BY <4>4, <4>5, <5>1 DEF Restored
            <4>7. PICK k, n : k = taken /\ n = srv.qs
                OBVIOUS
            <4>8. /\ Chain(Script, "ModifyQuerySet", querySetVersion)
                  /\ n = Cardinality(Upto(Script, "ModifyQuerySet", k))
                BY <1>0, <4>7 DEF ServerInv, ClientInv, ScriptInv
            <4>9. \A j \in Of(Script, "ModifyQuerySet") : j <= k <=> Script[j].base < n
                BY <4>3, <4>4, <4>7, <4>8, Reached
            <4>10. 0 < srv.qs
                BY <4>2, <4>6, <4>7, <4>9
            <4> QED
                BY <2>3, <4>10 DEF Made
        <3>3. \A v \in views : remoteVersion.ts = 0 =>
                  \A i \in Of(down', "Transition") : down'[i].end.qs > 0
            BY <3>1, <3>2 DEF PresentInv
        <3> QED
            BY <2>1, <3>3 DEF PresentInv
    <2> QED
        BY <1>0, <1>5, <2>2, <2>3, ServerSends
<1> QED
    BY <1>2, <1>3, <1>4, <1>5

-----------------------------------------------------------------------------
(* What users have seen.                                                   *)

\* The open connection does not go back behind a timestamp: the client's version
\* has reached it, or its Connect has told the server of it.
Covered(ts) ==
    \/ ts <= 0
    \/ ts <= remoteVersion.ts
    \/ remoteVersion.ts = 0 /\ ts <= sent[1].maxObserved

\* The timestamps users have seen, in a snapshot or with a mutation's success,
\* are observed, so every connection covers them.
SeenInv ==
    /\ \A v \in views : v.at <= maxObserved /\ (linked => Covered(v.at))
    /\ \A a \in answers :
          a.outcome = "ok" => a.ts <= maxObserved /\ (linked => Covered(a.ts))
    /\ \A r \in ongoing : r.ts <= maxObserved
    /\ remoteVersion.ts > 0 => remoteVersion.ts <= maxObserved

\* The timestamps are numbers, an empty optional the least of them.
LEMMA Timestamps ==
    ASSUME TypeOK
    PROVE  /\ maxObserved \in Int /\ -1 <= maxObserved /\ remoteVersion.ts \in Nat
           /\ \A v \in views : v.at \in Nat
           /\ \A a \in answers : a.ts \in Int /\ -1 <= a.ts
           /\ \A r \in ongoing : r.ts \in Int /\ -1 <= r.ts
           /\ NoTs = -1
           /\ \A m \in ServerMessage : m.type = "MutationResponse" => m.ts \in Int /\ -1 <= m.ts
BY DEF TypeOK, StateVersion, Answer, PendingRequest, ServerMessage, NoTs

\* observe_timestamp() never lowers what is observed.
LEMMA ObservedGrows ==
    ASSUME NEW ts \in Int, maxObserved \in Int
    PROVE  Observed(ts) \in Int /\ maxObserved <= Observed(ts) /\ ts <= Observed(ts)
BY DEF Observed

\* A response delivers a success with a timestamp only behind the watermark.
LEMMA Responded ==
    ASSUME TypeOK, NEW m \in ServerMessage, \A r \in ongoing : r.ts <= maxObserved,
           ReceiveMutationResponse(m) \/ ReceiveActionResponse(m)
    PROVE  /\ UNCHANGED <<remoteVersion, results, views, linked>>
           /\ maxObserved' \in Int /\ maxObserved <= maxObserved'
           /\ \A r \in ongoing' : r.ts <= maxObserved'
           /\ \A a \in answers' :
                 \/ a \in answers \/ a.outcome # "ok"
                 \/ a.ts \in Int /\ a.ts <= remoteVersion.ts /\ a.ts <= maxObserved'
<1>1. UNCHANGED <<remoteVersion, results, views, linked>>
    BY DEF ReceiveMutationResponse, ReceiveActionResponse, linkVars
<1>2. /\ maxObserved \in Int /\ -1 <= maxObserved /\ remoteVersion.ts \in Nat /\ NoTs = -1
      /\ \A r \in ongoing : r.ts \in Int
      /\ m.type = "MutationResponse" => m.ts \in Int
    BY Timestamps
<1>3. ASSUME NEW outcome, AnswerNow(m, outcome)
      PROVE  /\ maxObserved' = maxObserved
             /\ \A r \in ongoing' : r \in ongoing
             /\ \A a \in answers' : a \in answers \/ a.ts = NoTs
    BY <1>3 DEF AnswerNow, Complete
<1>4. ASSUME m.type = "MutationResponse", HoldSuccess(m)
      PROVE  /\ maxObserved' \in Int /\ maxObserved <= maxObserved'
             /\ \A r \in ongoing' : r.ts <= maxObserved'
             /\ \A a \in answers' :
                   a \in answers \/ (a.ts \in Int /\ a.ts <= remoteVersion.ts /\ a.ts <= maxObserved')
    <2>1. PICK r \in ongoing :
              /\ maxObserved' = Observed(m.ts)
              /\ LET held == (ongoing \ {r}) \cup {[r EXCEPT !.completed = TRUE, !.ts = m.ts]}
                     done == Deliverable(held, remoteVersion.ts)
                 IN  ongoing' = held \ done /\ Complete({OkAnswer(x) : x \in done})
        BY <1>4 DEF HoldSuccess
    <2>2. PICK x : x = [r EXCEPT !.completed = TRUE, !.ts = m.ts]
        OBVIOUS
    <2>3. PICK held : held = (ongoing \ {r}) \cup {x}
        OBVIOUS
    <2>4. x.ts = m.ts
        BY <2>2 DEF TypeOK, PendingRequest
    <2>5. maxObserved' \in Int /\ maxObserved <= maxObserved' /\ m.ts <= maxObserved'
        BY <1>2, <1>4, <2>1, ObservedGrows
    <2>6. \A y \in held : y.ts \in Int /\ y.ts <= maxObserved'
        BY <1>2, <1>4, <2>3, <2>4, <2>5
    <2>7. \A a \in answers' : a \in answers \/ \E y \in Deliverable(held, remoteVersion.ts) : a = OkAnswer(y)
        BY <2>1, <2>2, <2>3 DEF Complete
    <2>8. \A y \in Deliverable(held, remoteVersion.ts) :
              y \in held /\ y.ts <= remoteVersion.ts /\ OkAnswer(y).ts = y.ts
        BY DEF Deliverable, OkAnswer
    <2>9. \A y \in ongoing' : y \in held
        BY <2>1, <2>2, <2>3
    <2> QED
        BY <2>5, <2>6, <2>7, <2>8, <2>9
<1>5. CASE IgnoreResponse(m)
    BY <1>1, <1>2, <1>5 DEF IgnoreResponse
<1>6. ASSUME NEW outcome, AnswerNow(m, outcome)
      PROVE  /\ maxObserved' \in Int /\ maxObserved <= maxObserved'
             /\ \A r \in ongoing' : r.ts <= maxObserved'
             /\ \A a \in answers' :
                   a \in answers \/ (a.ts \in Int /\ a.ts <= remoteVersion.ts /\ a.ts <= maxObserved')
    BY <1>2, <1>3, <1>6
<1>7. \/ m.type = "MutationResponse" /\ HoldSuccess(m)
      \/ \E outcome : AnswerNow(m, outcome)
      \/ IgnoreResponse(m)
    BY DEF ReceiveMutationResponse, ReceiveActionResponse
<1> QED
    BY <1>1, <1>4, <1>5, <1>6, <1>7

\* A Transition delivers the successes it has reached.
LEMMA AppliedAnswers ==
    ASSUME TypeOK, NEW m \in ServerMessage, m.type = "Transition", ApplyTransition(m)
    PROVE  /\ linked' = linked
           /\ maxObserved' \in Int /\ maxObserved <= maxObserved' /\ m.end.ts <= maxObserved'
           /\ \A r \in ongoing' : r \in ongoing
           /\ \A a \in answers' : a \in answers \/ (a.ts \in Int /\ a.ts <= m.end.ts)
<1>1. /\ linked' = linked /\ maxObserved' = Observed(m.end.ts)
      /\ ongoing' = ongoing \ Deliverable(ongoing, m.end.ts)
      /\ Complete({OkAnswer(r) : r \in Deliverable(ongoing, m.end.ts)})
    BY DEF ApplyTransition, linkVars
<1>2. m.end.ts \in Int /\ maxObserved \in Int /\ \A r \in ongoing : r.ts \in Int
    BY Timestamps DEF ServerMessage, StateVersion
<1>3. \A a \in answers' : a \in answers \/ \E y \in Deliverable(ongoing, m.end.ts) : a = OkAnswer(y)
    BY <1>1 DEF Complete
<1>4. \A y \in Deliverable(ongoing, m.end.ts) :
          y \in ongoing /\ y.ts <= m.end.ts /\ OkAnswer(y).ts = y.ts
    BY DEF Deliverable, OkAnswer
<1>5. maxObserved' \in Int /\ maxObserved <= maxObserved' /\ m.end.ts <= maxObserved'
    BY <1>1, <1>2, ObservedGrows
<1>6. \A a \in answers' : a \in answers \/ (a.ts \in Int /\ a.ts <= m.end.ts)
    BY <1>2, <1>3, <1>4
<1> QED
    BY <1>1, <1>5, <1>6

\* The first Transition of a connection covers what the Connect told of, and any
\* other leads on from the client's version.
LEMMA AppliedCovers ==
    ASSUME HeldInv, FloorInv, down # <<>>, ApplyTransition(Head(down))
    PROVE  \A ts \in Int : Covered(ts) => ts <= Head(down).end.ts
<1> DEFINE m == Head(down)
<1>1. /\ m \in ServerMessage /\ m.type = "Transition" /\ m.start = remoteVersion
      /\ m.end \in StateVersion /\ Faithful(m, Script, srv.ver.qs)
      /\ 1 \in Of(down, "Transition") /\ down[1] = m
    BY Applied DEF HeldInv
<1> HIDE DEF m
<1>2. remoteVersion.ts \in Nat /\ m.end.ts \in Nat /\ remoteVersion.ts <= m.end.ts /\ 1 <= m.end.ts
    BY <1>1, Timestamps DEF Faithful, StateVersion, HeldInv, VersionsInv, ClientInv
<1>3. srv.floor \in Nat /\ srv.floor <= m.end.ts /\ srv.floor = FloorOf(sent[1].maxObserved) /\ linked
    BY <1>1 DEF FloorInv, HeldInv, VersionsInv, SessionTypes, ServerEnd, ApplyTransition
<1>4. sent[1].maxObserved \in Nat \cup {NoTs}
    <2>1. sent \in Seq(ClientMessage) /\ sent # <<>> /\ sent[1].type = "Connect"
        BY <1>3 DEF FloorInv, HeldInv, VersionsInv, ClientInv, TypeOK
    <2>2. sent[1] \in ClientMessage
        BY <2>1, TailProperties
    <2> QED
        BY <2>1, <2>2 DEF ClientMessage
<1>5. \A ts \in Int : ts <= sent[1].maxObserved => ts <= m.end.ts
    BY <1>2, <1>3, <1>4 DEF FloorOf, NoTs
<1>6. \A ts \in Int : Covered(ts) => ts <= m.end.ts
    BY <1>2, <1>5 DEF Covered
<1> QED
    BY <1>6 DEF m

\* Every step of the session covers what users have seen.
LEMMA SeenStep ==
    ASSUME HeldInv, HeldInv', FloorInv, PresentInv, PresentInv', SeenInv,
           QuietStep \/ Restart \/ Connect \/ ServerStep
    PROVE  SeenInv'
<1>0. /\ VersionsInv /\ VersionsInv' /\ ClientInv /\ ClientInv' /\ TypeOK /\ TypeOK' /\ ServerInv
      /\ TalkInv
    BY DEF HeldInv, VersionsInv, ClientInv
<1>1. /\ maxObserved \in Int /\ -1 <= maxObserved /\ remoteVersion.ts \in Nat
      /\ \A v \in views : v.at \in Nat
      /\ \A a \in answers : a.ts \in Int /\ -1 <= a.ts
      /\ \A r \in ongoing : r.ts \in Int /\ -1 <= r.ts
      /\ NoTs = -1
    BY <1>0, Timestamps
<1>2. CASE QuietStep
    <2>1. linked' = linked /\ (linked => sent'[1] = sent[1])
        <3>1. /\ linked' = linked /\ \A i \in 1..Len(sent) : sent'[i] = sent[i]
            BY <1>0, <1>2, QuietSent
        <3>2. linked => 1 \in 1..Len(sent)
            <4> HAVE linked
            <4>1. sent # <<>> /\ sent \in Seq(ClientMessage)
                BY <1>0 DEF FloorInv, TypeOK
            <4> QED
                BY <4>1, TailProperties
        <3> QED
            BY <3>1, <3>2
    <2>2. ASSUME UNCHANGED remoteVersion, linked, NEW ts, Covered(ts) PROVE Covered(ts)'
        BY <2>1, <2>2 DEF Covered
    <2>3. CASE User \/ UNCHANGED vars
        <3>1. /\ UNCHANGED <<remoteVersion, maxObserved, answers, linked>>
              /\ \A w \in views' : \/ w \in views
                                   \/ \E r \in results : r.id = w.query /\ w.at = r.at
              /\ \A r \in ongoing' : r \in ongoing \/ r.ts = NoTs
            BY <1>0, <2>3, UserViews
        <3>2. ASSUME NEW w \in views' PROVE w.at <= maxObserved' /\ (linked' => Covered(w.at)')
            <4>1. CASE w \in views
                BY <2>2, <3>1, <4>1 DEF SeenInv
            <4>2. ASSUME NEW r \in results, w.at = r.at
                  PROVE  w.at <= maxObserved' /\ (linked' => Covered(w.at)')
                <5>1. w.at = remoteVersion.ts /\ w.at > 0
                    BY <4>2 DEF PresentInv
                <5>2. w.at <= maxObserved /\ w.at <= remoteVersion'.ts
                    BY <1>1, <3>1, <5>1 DEF SeenInv
                <5> QED
                    BY <3>1, <5>2 DEF Covered
            <4> QED
                BY <3>1, <4>1, <4>2
        <3>3. \A r \in ongoing' : r.ts <= maxObserved'
            BY <1>1, <3>1 DEF SeenInv
        <3>4. \A a \in answers' : a.outcome = "ok" =>
                  a.ts <= maxObserved' /\ (linked' => Covered(a.ts)')
            BY <2>2, <3>1 DEF SeenInv
        <3>5. remoteVersion'.ts > 0 => remoteVersion'.ts <= maxObserved'
            BY <3>1 DEF SeenInv
        <3> QED
            BY <3>2, <3>3, <3>4, <3>5 DEF SeenInv
    <2>4. CASE /\ down # <<>> /\ Head(down) \in ServerMessage
               /\ ReceiveMutationResponse(Head(down)) \/ ReceiveActionResponse(Head(down))
        <3>1. /\ UNCHANGED <<remoteVersion, results, views, linked>>
              /\ maxObserved' \in Int /\ maxObserved <= maxObserved'
              /\ \A r \in ongoing' : r.ts <= maxObserved'
              /\ \A a \in answers' :
                    \/ a \in answers \/ a.outcome # "ok"
                    \/ a.ts \in Int /\ a.ts <= remoteVersion.ts /\ a.ts <= maxObserved'
            BY <1>0, <2>4, Responded DEF SeenInv
        <3>2. \A v \in views' : v.at <= maxObserved' /\ (linked' => Covered(v.at)')
            BY <1>1, <2>2, <3>1 DEF SeenInv
        <3>3. ASSUME NEW a \in answers', a.outcome = "ok"
              PROVE  a.ts <= maxObserved' /\ (linked' => Covered(a.ts)')
            <4>1. CASE a \in answers
                BY <1>1, <2>2, <3>1, <3>3, <4>1 DEF SeenInv
            <4>2. CASE a.ts <= remoteVersion.ts /\ a.ts <= maxObserved'
                BY <3>1, <4>2 DEF Covered
            <4> QED
                BY <3>1, <3>3, <4>1, <4>2
        <3>4. remoteVersion'.ts > 0 => remoteVersion'.ts <= maxObserved'
            BY <1>1, <3>1 DEF SeenInv
        <3> QED
            BY <3>1, <3>2, <3>3, <3>4 DEF SeenInv
    <2>5. CASE down # <<>> /\ ApplyTransition(Head(down))
        <3>1. PICK m : m = Head(down)
            OBVIOUS
        <3>2. /\ m \in ServerMessage /\ m.type = "Transition" /\ remoteVersion' = m.end
              /\ m.end \in StateVersion /\ 1 <= m.end.ts
            BY <1>0, <2>5, <3>1, Applied DEF Faithful
        <3>3. /\ linked' = linked
              /\ maxObserved' \in Int /\ maxObserved <= maxObserved' /\ m.end.ts <= maxObserved'
              /\ \A r \in ongoing' : r \in ongoing
              /\ \A a \in answers' : a \in answers \/ (a.ts \in Int /\ a.ts <= m.end.ts)
            BY <1>0, <2>5, <3>1, <3>2, AppliedAnswers
        <3>4. \A ts \in Int : Covered(ts) => ts <= m.end.ts
            BY <2>5, <3>1, AppliedCovers
        <3>5. linked /\ remoteVersion'.ts = m.end.ts /\ m.end.ts \in Nat /\ m.end.ts > 0
            BY <2>5, <3>2 DEF ApplyTransition, StateVersion
        <3>6. \A ts \in Int : ts <= m.end.ts => ts <= maxObserved' /\ Covered(ts)'
            BY <3>3, <3>5 DEF Covered
        <3>7. \A v \in views' : v.at = m.end.ts
            BY <3>5 DEF PresentInv
        <3>8. ASSUME NEW a \in answers', a.outcome = "ok" PROVE a.ts \in Int /\ a.ts <= m.end.ts
            BY <1>1, <3>3, <3>4, <3>5, <3>8 DEF SeenInv
        <3>9. \A r \in ongoing' : r.ts <= maxObserved'
            BY <1>1, <3>3 DEF SeenInv
        <3> QED
            BY <3>3, <3>5, <3>6, <3>7, <3>8, <3>9 DEF SeenInv
    <2> QED
        BY <1>2, <2>3, <2>4, <2>5 DEF QuietStep
<1>3. CASE Restart
    <2>1. PICK token \in Identity : Reconnect(token)
        BY <1>3 DEF Restart
    <2>2. /\ UNCHANGED <<maxObserved, views>> /\ ~linked' /\ remoteVersion'.ts = 0
          /\ \A r \in ongoing' : r \in ongoing
          /\ \A a \in answers' : a \in answers \/ a.outcome = "lost"
        BY <2>1 DEF Reconnect, Complete, RemoteAfterRestart, InitialVersion
    <2> QED
        BY <2>2 DEF SeenInv
<1>4. CASE Connect
    <2>1. UNCHANGED <<maxObserved, views, ongoing, answers, remoteVersion>> /\ ~linked
        BY <1>4 DEF Connect, Open, remoteVars, requestVars
    <2>2. remoteVersion'.ts = 0
        BY <1>0, <2>1 DEF ServerInv, InitialVersion
    <2>3. sent'[1].maxObserved = maxObserved
        <3>1. PICK c : c = [type |-> "Connect", count |-> connectionCount,
                            maxObserved |-> maxObserved]
            OBVIOUS
        <3>2. c \in ClientMessage
            BY <1>0, <3>1 DEF TypeOK, ClientMessage
        <3>3. PICK t \in Seq(ClientMessage) : t = outgoing
            BY <1>0 DEF TypeOK
        <3>4. sent' = <<c>> \o t
            BY <1>4, <3>1, <3>3 DEF Connect, Open
        <3>5. <<c>> \in Seq(ClientMessage) /\ Len(<<c>>) = 1 /\ <<c>>[1] = c /\ Len(t) \in Nat
            BY <3>2, LenProperties
        <3>6. (<<c>> \o t)[1] = c
            BY <3>5, ConcatProperties
        <3> QED
            BY <3>1, <3>4, <3>6
    <2>4. \A ts : ts <= maxObserved => Covered(ts)'
        BY <2>2, <2>3 DEF Covered
    <2> QED
        BY <2>1, <2>2, <2>4 DEF SeenInv
<1>5. CASE ServerStep
    <2>1. UNCHANGED <<maxObserved, views, ongoing, answers, remoteVersion, sent, linked>>
        BY <1>5 DEF ServerStep, vars, remoteVars, requestVars, wireVars, linkVars
    <2> QED
        BY <2>1 DEF SeenInv, Covered
<1> QED
    BY <1>2, <1>3, <1>4, <1>5

\* What two users are told agrees: no snapshot is older than a mutation that
\* was reported to have succeeded, none differs from another of the same
\* subscriber.
HandInv ==
    /\ ReadYourWrites
    /\ \A v, w \in views : v.index = w.index => v.at = w.at

\* Every step of the session keeps the agreement.
LEMMA HandStep ==
    ASSUME HeldInv, HeldInv', PresentInv, PresentInv', SeenInv, SeenInv', HandInv,
           QuietStep \/ Restart \/ Connect \/ ServerStep
    PROVE  HandInv'
<1>0. /\ VersionsInv /\ VersionsInv' /\ TypeOK /\ TypeOK' /\ TalkInv /\ ServerInv'
    BY DEF HeldInv, VersionsInv, ClientInv
<1>1. /\ \A v \in views : v.at \in Nat
      /\ \A a \in answers : a.ts \in Int
      /\ remoteVersion.ts \in Nat /\ NoTs = -1
    BY <1>0, Timestamps
<1>2. /\ remoteVersion'.ts \in Nat
      /\ \A v \in views' : v.at \in Nat
      /\ \A a \in answers' : a.ts \in Int
    <2>1. /\ remoteVersion' \in StateVersion
          /\ answers' \subseteq Answer
          /\ views' \subseteq [query : QueryId, index : Nat, at : Nat]
        BY <1>0 DEF TypeOK
    <2>2. remoteVersion'.ts \in Nat
        BY <2>1 DEF StateVersion
    <2>3. \A v \in views' : v.at \in Nat
        BY <2>1
    <2>4. \A a \in answers' : a.ts \in Int
        BY <2>1 DEF Answer, NoTs
    <2> QED
        BY <2>2, <2>3, <2>4
<1>3. CASE remoteVersion'.ts > 0
    <2>1. linked'
        BY <1>0, <1>3 DEF ServerInv, InitialVersion
    <2>2. \A v \in views' : v.at = remoteVersion'.ts
        BY <1>3 DEF PresentInv
    <2>3. ASSUME NEW a \in answers', a.outcome = "ok" PROVE a.ts <= remoteVersion'.ts
        <3>1. Covered(a.ts)'
            BY <2>1, <2>3 DEF SeenInv
        <3> QED
            BY <1>2, <1>3, <3>1 DEF Covered
    <2>4. ReadYourWrites'
        BY <1>2, <2>2, <2>3 DEF ReadYourWrites
    <2> QED
        BY <2>2, <2>4 DEF HandInv
<1>4. ASSUME remoteVersion'.ts = 0, \A v \in views' : v \in views,
             \A a \in answers' : a \in answers \/ a.outcome # "ok" \/ a.ts <= 0
      PROVE  HandInv'
    <2>1. ASSUME NEW a \in answers', NEW v \in views', a.outcome = "ok" PROVE v.at >= a.ts
        <3>1. CASE a \in answers
            BY <1>4, <2>1, <3>1 DEF HandInv, ReadYourWrites
        <3>2. CASE a.ts <= 0
            BY <1>2, <3>2
        <3> QED
            BY <1>4, <2>1, <3>1, <3>2
    <2> QED
        BY <1>4, <2>1 DEF HandInv, ReadYourWrites
<1>5. CASE remoteVersion'.ts = 0 /\ QuietStep
    <2>1. CASE User \/ UNCHANGED vars
        <3>1. /\ UNCHANGED <<remoteVersion, answers>>
              /\ \A w \in views' : \/ w \in views
                                   \/ \E r \in results : r.id = w.query /\ w.at = r.at
            BY <1>0, <2>1, UserViews
        <3>2. results = {}
            BY <1>5, <3>1 DEF PresentInv
        <3> QED
            BY <1>4, <1>5, <3>1, <3>2
    <2>2. CASE /\ down # <<>> /\ Head(down) \in ServerMessage
               /\ ReceiveMutationResponse(Head(down)) \/ ReceiveActionResponse(Head(down))
        <3>1. /\ UNCHANGED <<remoteVersion, views>>
              /\ \A a \in answers' : \/ a \in answers \/ a.outcome # "ok"
                                     \/ a.ts \in Int /\ a.ts <= remoteVersion.ts
            BY <1>0, <2>2, Responded DEF SeenInv
        <3> QED
            BY <1>4, <1>5, <3>1
    <2>3. CASE down # <<>> /\ ApplyTransition(Head(down))
        <3>1. remoteVersion' = Head(down).end /\ 1 <= Head(down).end.ts
            BY <1>0, <2>3, Applied DEF Faithful
        <3> QED
            BY <1>5, <3>1
    <2> QED
        BY <1>5, <2>1, <2>2, <2>3 DEF QuietStep
<1>6. CASE Restart
    <2>1. PICK token \in Identity : Reconnect(token)
        BY <1>6 DEF Restart
    <2>2. /\ views' = views /\ remoteVersion'.ts = 0
          /\ \A a \in answers' : a \in answers \/ a.outcome = "lost"
        BY <2>1 DEF Reconnect, Complete, RemoteAfterRestart, InitialVersion
    <2> QED
        BY <1>4, <2>2
<1>7. CASE Connect \/ ServerStep
    <2>1. UNCHANGED <<views, answers>>
        BY <1>7 DEF Connect, Open, ServerStep, vars, remoteVars, requestVars
    <2> QED
        BY <2>1 DEF HandInv, ReadYourWrites
<1> QED
    BY <1>2, <1>3, <1>5, <1>6, <1>7

\* No step of the session takes a subscriber back in time.
LEMMA MonotonicStep ==
    ASSUME HeldInv, FloorInv, PresentInv', SeenInv, HandInv, TypeOK',
           QuietStep \/ Restart \/ Connect \/ ServerStep,
           NEW v \in views, NEW w \in views', v.index = w.index
    PROVE  v.at <= w.at
<1>0. VersionsInv /\ TypeOK /\ TalkInv /\ v.at \in Nat
    BY Timestamps DEF HeldInv, VersionsInv, ClientInv
<1>1. CASE w \in views
    BY <1>0, <1>1 DEF HandInv
<1>2. CASE QuietStep
    <2>1. CASE User \/ UNCHANGED vars
        <3>1. w \in views \/ w.index = nextIndex
            BY <1>0, <2>1, UserViews
        <3>2. w.index # nextIndex
            <4>1. PICK s \in subs : s.index = v.index
                BY DEF HeldInv, ResultInv
            <4>2. s.index < nextIndex /\ nextIndex \in Nat
                BY <1>0 DEF VersionsInv, ClientInv, QueryInv, TypeOK
            <4> QED
                BY <4>1, <4>2
        <3> QED
            BY <1>1, <3>1, <3>2
    <2>2. CASE ReceiveMutationResponse(Head(down)) \/ ReceiveActionResponse(Head(down))
        BY <1>1, <2>2 DEF ReceiveMutationResponse, ReceiveActionResponse
    <2>3. CASE down # <<>> /\ ApplyTransition(Head(down))
        <3>1. /\ remoteVersion' = Head(down).end /\ 1 <= Head(down).end.ts
              /\ Head(down).end \in StateVersion
            BY <1>0, <2>3, Applied DEF Faithful
        <3>2. w.at = Head(down).end.ts
            BY <3>1 DEF PresentInv, StateVersion
        <3>3. Covered(v.at)
            BY <2>3 DEF SeenInv, ApplyTransition
        <3> QED
            BY <1>0, <2>3, <3>2, <3>3, AppliedCovers
    <2> QED
        BY <1>2, <2>1, <2>2, <2>3 DEF QuietStep
<1>3. CASE Restart \/ Connect \/ ServerStep
    <2>1. views' = views
        BY <1>3 DEF Restart, Reconnect, Connect, Open, ServerStep, vars, remoteVars
    <2> QED
        BY <1>1, <2>1
<1> QED
    BY <1>2, <1>3

\* The inductive invariant behind ReadYourWrites and MonotonicViews.
ViewsInv == HeldInv /\ FloorInv /\ PresentInv /\ SeenInv /\ HandInv

\* It holds when the session begins.
LEMMA ViewsInit == SessionInit => ViewsInv
<1> SUFFICES ASSUME SessionInit PROVE ViewsInv
    OBVIOUS
<1>1. HeldInv
    BY HeldInit
<1>2. /\ down = <<>> /\ sent = <<>> /\ outgoing = <<>> /\ linked = FALSE /\ taken = 0
      /\ remoteVersion = InitialVersion /\ results = {} /\ views = {} /\ answers = {} /\ ongoing = {}
    BY DEF SessionInit, Init
<1>3. Script = <<>> /\ (\A type : Of(<<>>, type) = {}) /\ remoteVersion.ts = 0
    BY <1>2 DEF Of, Script, InitialVersion
<1>4. FloorInv
    BY <1>2, <1>3 DEF FloorInv
<1>5. PresentInv /\ SeenInv /\ HandInv
    BY <1>2, <1>3 DEF PresentInv, SeenInv, HandInv, ReadYourWrites
<1> QED
    BY <1>1, <1>4, <1>5 DEF ViewsInv

\* Every step of the session keeps it.
LEMMA ViewsStep ==
    ASSUME ViewsInv, [SessionNext]_allVars
    PROVE  ViewsInv' /\ (QuietStep \/ Restart \/ Connect \/ ServerStep)
<1>1. HeldInv /\ FloorInv /\ PresentInv /\ SeenInv /\ HandInv /\ VersionsInv
    BY DEF ViewsInv, HeldInv
<1>2. HeldInv' /\ VersionsInv' /\ (QuietStep \/ Restart \/ Connect \/ ServerStep)
    BY <1>1, HeldStep DEF HeldInv
<1>3. FloorInv'
    BY <1>1, <1>2, FloorStep
<1>4. PresentInv'
    BY <1>1, <1>2, PresentStep
<1>5. SeenInv'
    BY <1>1, <1>2, <1>4, SeenStep
<1>6. HandInv'
    BY <1>1, <1>2, <1>4, <1>5, HandStep
<1> QED
    BY <1>2, <1>3, <1>4, <1>5, <1>6 DEF ViewsInv

\* It is an invariant of the session.
LEMMA ViewsCorrect == SessionSpec => []ViewsInv
<1>1. ViewsInv /\ [SessionNext]_allVars => ViewsInv'
    BY ViewsStep
<1> QED
    BY <1>1, ViewsInit, PTL DEF SessionSpec

\* Read your writes: once a caller hears that its mutation succeeded, no
\* subscriber's snapshot is older than the commit, on any connection.
THEOREM WritesAreRead == SessionSpec => []ReadYourWrites
<1>1. ViewsInv => ReadYourWrites
    BY DEF ViewsInv, HandInv
<1> QED
    BY <1>1, ViewsCorrect, PTL

\* No subscriber is handed a snapshot older than the last one, also across a
\* reconnect and when it joined a query others had subscribed to.
THEOREM NeverBackInTime == SessionSpec => MonotonicViews
<1>1. ASSUME ViewsInv, [SessionNext]_allVars
      PROVE  [\A v \in views, w \in views' : v.index = w.index => v.at <= w.at]_allVars
    <2>1. ViewsInv' /\ (QuietStep \/ Restart \/ Connect \/ ServerStep)
        BY <1>1, ViewsStep
    <2>2. PresentInv' /\ TypeOK'
        BY <2>1 DEF ViewsInv, HeldInv, VersionsInv, ClientInv
    <2>3. \A v \in views, w \in views' : v.index = w.index => v.at <= w.at
        BY <1>1, <2>1, <2>2, MonotonicStep DEF ViewsInv
    <2> QED
        BY <2>3
<1> QED
    BY <1>1, ViewsCorrect, PTL DEF SessionSpec, MonotonicViews

-----------------------------------------------------------------------------
(* The requests that wait in a sequence of frames.                         *)

\* Their positions behind the first k frames, by kind, and their ids.
Waiting(t, k, type) == {i \in Of(t, type) : i > k}
Asks(t, k, type) == {t[i].id : i \in Waiting(t, k, type)}

\* A mutation of N waits behind every earlier one of N.
InTurn(t, k, N) ==
    \A i \in Waiting(t, k, "Mutation") : \A a \in N :
        t[i].id \in N /\ a < t[i].id =>
            \E j \in Waiting(t, k, "Mutation") : j < i /\ t[j].id = a

\* No action waits twice.
Once(t, k) == \A i, j \in Waiting(t, k, "Action") : t[i].id = t[j].id => i = j

\* The ids that wait, one by one.
LEMMA AsksMember ==
    ASSUME NEW t, NEW k, NEW type, NEW id
    PROVE  id \in Asks(t, k, type) <=> \E i \in Waiting(t, k, type) : t[i].id = id
BY DEF Asks

\* Positions are positions.
LEMMA WaitingType ==
    ASSUME NEW t \in Seq(ClientMessage), NEW k, NEW type
    PROVE  /\ Waiting(t, k, type) \subseteq 1..Len(t) /\ Len(t) \in Nat
           /\ \A i \in Waiting(t, k, type) :
                 i \in DOMAIN t /\ i > k /\ t[i].type = type /\ t[i] \in ClientMessage
           /\ \A i \in DOMAIN t : i > k /\ t[i].type = type => i \in Waiting(t, k, type)
<1>1. DOMAIN t = 1..Len(t) /\ Len(t) \in Nat
    BY LenProperties
<1> QED
    BY <1>1, ElementOfSeq DEF Waiting, Of

\* The actions behind no frame are all of them.
LEMMA AsksActions ==
    ASSUME NEW t \in Seq(ClientMessage)
    PROVE  Asks(t, 0, "Action") = ActionIds(t)
<1>1. Waiting(t, 0, "Action") = {j \in DOMAIN t : t[j].type = "Action"}
    BY LenProperties DEF Waiting, Of
<1> QED
    BY <1>1 DEF Asks, ActionIds

\* The same requests in the same order: positions of u are positions of t.
Mirror(t, k, u, l, type) ==
    \E p \in [Waiting(u, l, type) -> Waiting(t, k, type)] :
        /\ \A i \in Waiting(u, l, type) : u[i].id = t[p[i]].id
        /\ \A i, j \in Waiting(u, l, type) : i < j => p[i] < p[j]
        /\ \A x \in Waiting(t, k, type) : \E i \in Waiting(u, l, type) : p[i] = x

\* Such sequences say the same of the requests.
LEMMA MirrorAsks ==
    ASSUME NEW t, NEW k, NEW u, NEW l, NEW type, Mirror(t, k, u, l, type)
    PROVE  Asks(u, l, type) = Asks(t, k, type)
<1>1. PICK p \in [Waiting(u, l, type) -> Waiting(t, k, type)] :
          /\ \A i \in Waiting(u, l, type) : u[i].id = t[p[i]].id
          /\ \A x \in Waiting(t, k, type) : \E i \in Waiting(u, l, type) : p[i] = x
    BY DEF Mirror
<1>2. \A id : id \in Asks(u, l, type) <=> id \in Asks(t, k, type)
    BY <1>1, AsksMember
<1> QED
    BY <1>2

\* And keep the mutations in turn.
LEMMA MirrorTurn ==
    ASSUME NEW t \in Seq(ClientMessage), NEW k, NEW u \in Seq(ClientMessage), NEW l,
           Mirror(t, k, u, l, "Mutation"), NEW N, InTurn(t, k, N)
    PROVE  InTurn(u, l, N)
<1> DEFINE T == Waiting(t, k, "Mutation")
           U == Waiting(u, l, "Mutation")
<1>1. PICK p \in [U -> T] :
          /\ \A i \in U : u[i].id = t[p[i]].id
          /\ \A i, j \in U : i < j => p[i] < p[j]
          /\ \A x \in T : \E i \in U : p[i] = x
    BY DEF Mirror
<1>2. T \subseteq Int /\ U \subseteq Int
    BY WaitingType
<1>3. \A i \in T : \A a \in N : t[i].id \in N /\ a < t[i].id => \E j \in T : j < i /\ t[j].id = a
    BY DEF InTurn
<1> HIDE DEF T, U
<1>4. ASSUME NEW i \in U, NEW a \in N, u[i].id \in N, a < u[i].id
      PROVE  \E j \in U : j < i /\ u[j].id = a
    <2>1. PICK y \in T : y < p[i] /\ t[y].id = a
        BY <1>1, <1>3, <1>4
    <2>2. PICK j \in U : p[j] = y
        BY <1>1
    <2>3. p[i] \in Int /\ p[j] \in Int /\ i \in Int /\ j \in Int
        BY <1>1, <1>2
    <2>4. j # i /\ ~(i < j)
        <3>1. p[j] < p[i]
            BY <2>1, <2>2
        <3>2. ~(p[i] < p[j]) /\ p[i] # p[j]
            BY ONLY <2>3, <3>1
        <3> QED
            BY <1>1, <3>2
    <2>5. j < i
        BY <2>3, <2>4
    <2> QED
        BY <1>1, <2>1, <2>2, <2>5
<1> QED
    BY <1>4 DEF InTurn, U

\* And no action more than once.
LEMMA MirrorOnce ==
    ASSUME NEW t \in Seq(ClientMessage), NEW k, NEW u \in Seq(ClientMessage), NEW l,
           Mirror(t, k, u, l, "Action"), Once(t, k)
    PROVE  Once(u, l)
<1> DEFINE T == Waiting(t, k, "Action")
           U == Waiting(u, l, "Action")
<1>1. PICK p \in [U -> T] :
          /\ \A i \in U : u[i].id = t[p[i]].id
          /\ \A i, j \in U : i < j => p[i] < p[j]
    BY DEF Mirror
<1>2. T \subseteq Int /\ U \subseteq Int
    BY WaitingType
<1>3. \A i, j \in T : t[i].id = t[j].id => i = j
    BY DEF Once
<1> HIDE DEF T, U
<1>4. ASSUME NEW i \in U, NEW j \in U, u[i].id = u[j].id PROVE i = j
    <2>1. p[i] \in T /\ p[j] \in T /\ i \in Int /\ j \in Int
        BY <1>1, <1>2
    <2>2. p[i] = p[j] /\ p[i] \in Int
        <3>1. t[p[i]].id = t[p[j]].id
            BY <1>1, <1>4
        <3> QED
            BY <1>2, <1>3, <2>1, <3>1
    <2>3. ~(p[i] < p[j]) /\ ~(p[j] < p[i])
        BY ONLY <2>2
    <2>4. ~(i < j) /\ ~(j < i)
        BY <1>1, <2>3
    <2> QED
        BY <2>1, <2>4
<1> QED
    BY <1>4 DEF Once, U

\* Positions shifted by d.
LEMMA MirrorShift ==
    ASSUME NEW t \in Seq(ClientMessage), NEW k, NEW u \in Seq(ClientMessage), NEW l, NEW type,
           NEW d \in Int,
           \A i \in Waiting(u, l, type) : i + d \in Waiting(t, k, type) /\ u[i] = t[i + d],
           \A x \in Waiting(t, k, type) : x - d \in Waiting(u, l, type)
    PROVE  Mirror(t, k, u, l, type)
<1> DEFINE T == Waiting(t, k, type)
           U == Waiting(u, l, type)
           p == [i \in U |-> i + d]
<1>1. T \subseteq Int /\ U \subseteq Int
    BY WaitingType
<1>2. p \in [U -> T]
    OBVIOUS
<1>3. \A i \in U : u[i].id = t[p[i]].id
    OBVIOUS
<1>4. \A i, j \in U : i < j => p[i] < p[j]
    <2> SUFFICES ASSUME NEW i \in U, NEW j \in U, i < j PROVE p[i] < p[j]
        OBVIOUS
    <2>1. i \in Int /\ j \in Int /\ p[i] = i + d /\ p[j] = j + d
        BY <1>1
    <2> QED
        BY <2>1
<1>5. \A x \in T : \E i \in U : p[i] = x
    <2> SUFFICES ASSUME NEW x \in T PROVE \E i \in U : p[i] = x
        OBVIOUS
    <2>1. x - d \in U /\ x \in Int /\ (x - d) + d = x
        BY <1>1
    <2> QED
        BY <2>1
<1> HIDE DEF T, U, p
<1>6. \E q \in [U -> T] : /\ \A i \in U : u[i].id = t[q[i]].id
                          /\ \A i, j \in U : i < j => q[i] < q[j]
                          /\ \A x \in T : \E i \in U : q[i] = x
    BY <1>2, <1>3, <1>4, <1>5
<1> QED
    BY <1>6 DEF Mirror, T, U

\* A frame of another kind, appended, changes nothing.
LEMMA MirrorAppend ==
    ASSUME NEW t \in Seq(ClientMessage), NEW f \in ClientMessage, NEW k, NEW type, f.type # type
    PROVE  Mirror(t, k, Append(t, f), k, type)
<1>1. /\ Of(Append(t, f), type) = Of(t, type)
      /\ \A i \in Of(t, type) : Append(t, f)[i] = t[i] /\ i \in Int
    <2>1. /\ Of(Append(t, f), type) = Of(t, type)
          /\ \A i \in Of(t, type) : Append(t, f)[i] = t[i] /\ i \in 1..Len(t)
        <3>1. /\ Of(Append(t, f), type) = Of(t, type) \cup (IF f.type = type THEN {Len(t) + 1} ELSE {})
              /\ \A i \in Of(t, type) : Append(t, f)[i] = t[i] /\ i \in 1..Len(t)
            BY OfAppend
        <3> QED
            BY <3>1
    <2> QED
        BY <2>1
<1>2. Waiting(Append(t, f), k, type) = Waiting(t, k, type)
    BY <1>1 DEF Waiting
<1>3. \A i \in Waiting(t, k, type) : i \in Of(t, type) /\ i + 0 = i /\ i - 0 = i
    BY <1>1 DEF Waiting
<1>4. Append(t, f) \in Seq(ClientMessage) /\ 0 \in Int
    BY AppendProperties
<1>5. /\ \A i \in Waiting(Append(t, f), k, type) :
             i + 0 \in Waiting(t, k, type) /\ Append(t, f)[i] = t[i + 0]
      /\ \A x \in Waiting(t, k, type) : x - 0 \in Waiting(Append(t, f), k, type)
    BY <1>1, <1>2, <1>3
<1> QED
    BY <1>4, <1>5, MirrorShift

\* Neither does one in front.
LEMMA MirrorPrepend ==
    ASSUME NEW c \in ClientMessage, NEW t \in Seq(ClientMessage), NEW type, c.type # type
    PROVE  Mirror(t, 0, <<c>> \o t, 0, type)
<1>1. OneBack(t, <<c>> \o t, type)
    BY OfPrepend
<1>2. PICK u \in Seq(ClientMessage) : u = <<c>> \o t
    <2>1. <<c>> \in Seq(ClientMessage)
        OBVIOUS
    <2> QED
        BY <2>1, ConcatProperties
<1>3. Of(t, type) \subseteq 1..Len(t) /\ Of(u, type) \subseteq 1..Len(u) /\ Len(t) \in Nat /\ Len(u) \in Nat
    BY <1>2, OfFinite, LenProperties
<1>4. Waiting(t, 0, type) = Of(t, type) /\ Waiting(u, 0, type) = Of(u, type)
    BY <1>3 DEF Waiting
<1>5. \A i \in Int : i + (-1) = i - 1 /\ i - (-1) = i + 1
    OBVIOUS
<1>6. /\ \A i \in Waiting(u, 0, type) : i + (-1) \in Waiting(t, 0, type) /\ u[i] = t[i + (-1)]
      /\ \A x \in Waiting(t, 0, type) : x - (-1) \in Waiting(u, 0, type)
    <2>1. /\ \A i \in Of(t, type) : i + 1 \in Of(u, type) /\ i \in Int
          /\ \A i \in Of(u, type) : i - 1 \in Of(t, type) /\ u[i] = t[i - 1] /\ i \in Int
        BY <1>1, <1>2, <1>3 DEF OneBack
    <2>2. \A i \in Of(u, type) : i + (-1) = i - 1
        BY <1>5, <2>1
    <2>3. \A x \in Of(t, type) : x - (-1) = x + 1
        BY <1>5, <2>1
    <2> QED
        BY <1>4, <2>1, <2>2, <2>3
<1>7. -1 \in Int
    OBVIOUS
<1>8. Mirror(t, 0, u, 0, type)
    BY <1>6, <1>7, MirrorShift
<1> QED
    BY <1>2, <1>8

\* What waits behind the first frame waits in the rest.
LEMMA MirrorTail ==
    ASSUME NEW t \in Seq(ClientMessage), t # <<>>, NEW type
    PROVE  Mirror(t, 1, Tail(t), 0, type) /\ Tail(t) \in Seq(ClientMessage)
<1>1. /\ Tail(t) \in Seq(ClientMessage)
      /\ DOMAIN t = 1..Len(t) /\ Len(t) \in Nat \ {0}
      /\ DOMAIN Tail(t) = 1..(Len(t) - 1)
      /\ \A i \in 1..(Len(t) - 1) : Tail(t)[i] = t[i + 1]
    BY TailProperties
<1>2. ASSUME NEW i \in Waiting(Tail(t), 0, type)
      PROVE  i + 1 \in Waiting(t, 1, type) /\ Tail(t)[i] = t[i + 1]
    <2>1. i \in 1..(Len(t) - 1) /\ Tail(t)[i].type = type
        BY <1>1 DEF Waiting, Of
    <2>2. i + 1 \in 1..Len(t) /\ i + 1 > 1
        BY <1>1, <2>1
    <2> QED
        BY <1>1, <2>1, <2>2 DEF Waiting, Of
<1>3. ASSUME NEW x \in Waiting(t, 1, type) PROVE x - 1 \in Waiting(Tail(t), 0, type)
    <2>1. x \in 1..Len(t) /\ x > 1 /\ t[x].type = type
        BY <1>1 DEF Waiting, Of
    <2>2. x - 1 \in 1..(Len(t) - 1) /\ x - 1 > 0 /\ (x - 1) + 1 = x
        BY <1>1, <2>1
    <2> QED
        BY <1>1, <2>1, <2>2 DEF Waiting, Of
<1>4. 1 \in Int
    OBVIOUS
<1>5. Mirror(t, 1, Tail(t), 0, type)
    BY <1>1, <1>2, <1>3, <1>4, MirrorShift
<1> QED
    BY <1>1, <1>5

\* The requests of some frames are just those frames' requests.
LEMMA MirrorRequests ==
    ASSUME NEW t \in Seq(ClientMessage), NEW type \in {"Mutation", "Action"}
    PROVE  Mirror(t, 0, RequestsOf(t), 0, type) /\ RequestsOf(t) \in Seq(ClientMessage)
<1>0. PICK u : u = RequestsOf(t)
    OBVIOUS
<1>1. /\ u \in Seq(RequestFrame)
      /\ \E p \in [DOMAIN u -> RequestsIn(t)] :
            /\ \A k \in DOMAIN u : u[k] = t[p[k]]
            /\ \A k, l \in DOMAIN u : k < l => p[k] < p[l]
            /\ \A i \in RequestsIn(t) : \E k \in DOMAIN u : p[k] = i
    BY <1>0, RequestsOfProperties
<1>2. PICK p \in [DOMAIN u -> RequestsIn(t)] :
          /\ \A k \in DOMAIN u : u[k] = t[p[k]]
          /\ \A k, l \in DOMAIN u : k < l => p[k] < p[l]
          /\ \A i \in RequestsIn(t) : \E k \in DOMAIN u : p[k] = i
    BY <1>1
<1>3. u \in Seq(ClientMessage)
    <2>1. RequestFrame \subseteq ClientMessage
        BY DEF RequestFrame, ClientMessage
    <2>2. \A k \in 1..Len(u) : u[k] \in ClientMessage
        BY <1>1, <2>1, ElementOfSeq
    <2>3. Len(u) \in Nat /\ u = [k \in 1..Len(u) |-> u[k]]
        BY <1>1, LenProperties
    <2> QED
        BY <2>2, <2>3, IsASeq
<1>4. DOMAIN t = 1..Len(t) /\ Len(t) \in Nat /\ DOMAIN u = 1..Len(u) /\ Len(u) \in Nat
    BY <1>3, LenProperties
<1>5. /\ \A i : i \in Waiting(u, 0, type) <=> i \in DOMAIN u /\ u[i].type = type
      /\ \A i : i \in Waiting(t, 0, type) <=> i \in DOMAIN t /\ t[i].type = type
    BY <1>4 DEF Waiting, Of
<1>6. \A i \in DOMAIN t : t[i].type = type => i \in RequestsIn(t)
    BY DEF RequestsIn
<1> DEFINE q == [i \in Waiting(u, 0, type) |-> p[i]]
<1>7. q \in [Waiting(u, 0, type) -> Waiting(t, 0, type)]
    <2> SUFFICES ASSUME NEW i \in Waiting(u, 0, type) PROVE p[i] \in Waiting(t, 0, type)
        OBVIOUS
    <2>1. i \in DOMAIN u /\ u[i].type = type /\ u[i] = t[p[i]]
        BY <1>2, <1>5
    <2>2. p[i] \in DOMAIN t
        BY <1>2, <2>1 DEF RequestsIn
    <2> QED
        BY <1>5, <2>1, <2>2
<1>8. /\ \A i \in Waiting(u, 0, type) : u[i].id = t[q[i]].id
      /\ \A i, j \in Waiting(u, 0, type) : i < j => q[i] < q[j]
    BY <1>2, <1>5
<1>9. \A x \in Waiting(t, 0, type) : \E i \in Waiting(u, 0, type) : q[i] = x
    <2> SUFFICES ASSUME NEW x \in Waiting(t, 0, type)
                 PROVE  \E i \in Waiting(u, 0, type) : p[i] = x
        OBVIOUS
    <2>1. x \in RequestsIn(t) /\ t[x].type = type
        BY <1>5, <1>6
    <2>2. PICK k \in DOMAIN u : p[k] = x
        BY <1>2, <2>1
    <2>3. u[k].type = type
        BY <1>2, <2>1, <2>2
    <2> QED
        BY <1>5, <2>2, <2>3
<1> HIDE DEF q
<1>10. Mirror(t, 0, u, 0, type)
    BY <1>7, <1>8, <1>9 DEF Mirror
<1> QED
    BY <1>0, <1>3, <1>10

\* Behind one frame more, with fewer mutations to wait for.
LEMMA NextTurn ==
    ASSUME NEW t \in Seq(ClientMessage), NEW k \in Nat, NEW N, NEW M \in SUBSET N, InTurn(t, k, N),
           k + 1 \in Waiting(t, k, "Mutation") => t[k + 1].id \notin M
    PROVE  InTurn(t, k + 1, M)
<1> DEFINE T == Waiting(t, k, "Mutation")
           U == Waiting(t, k + 1, "Mutation")
<1>1. T \subseteq Int
    BY WaitingType
<1>2. U = T \ {k + 1}
    <2>1. \A i \in Int : i > k + 1 <=> i > k /\ i # k + 1
        OBVIOUS
    <2>2. Of(t, "Mutation") \subseteq 1..Len(t)
        BY OfFinite
    <2> QED
        BY <2>1, <2>2 DEF Waiting
<1>3. \A i \in T : \A a \in N : t[i].id \in N /\ a < t[i].id => \E j \in T : j < i /\ t[j].id = a
    BY DEF InTurn
<1>4. k + 1 \in T => t[k + 1].id \notin M
    OBVIOUS
<1> HIDE DEF T, U
<1>5. ASSUME NEW i \in U, NEW a \in M, t[i].id \in M, a < t[i].id
      PROVE  \E j \in U : j < i /\ t[j].id = a
    <2>1. PICK j \in T : j < i /\ t[j].id = a
        BY <1>2, <1>3, <1>5
    <2> QED
        BY <1>2, <1>4, <2>1
<1> QED
    BY <1>5 DEF InTurn, U

\* With fewer mutations to wait for.
LEMMA FewerTurns ==
    ASSUME NEW t, NEW k, NEW N, NEW M \in SUBSET N, InTurn(t, k, N)
    PROVE  InTurn(t, k, M)
BY DEF InTurn

\* What waits behind one frame more.
LEMMA NextAsks ==
    ASSUME NEW t \in Seq(ClientMessage), NEW k \in Nat
    PROVE  /\ \A type, id : id \in Asks(t, k, type) =>
                 \/ id \in Asks(t, k + 1, type)
                 \/ k + 1 \in Waiting(t, k, type) /\ t[k + 1].id = id
           /\ \A type : Asks(t, k + 1, type) \subseteq Asks(t, k, type)
           /\ Once(t, k) =>
                 /\ Once(t, k + 1)
                 /\ k + 1 \in Waiting(t, k, "Action") => t[k + 1].id \notin Asks(t, k + 1, "Action")
<1>1. ASSUME NEW type
      PROVE  /\ Waiting(t, k + 1, type) \subseteq Waiting(t, k, type)
             /\ \A i \in Waiting(t, k, type) : i = k + 1 \/ i \in Waiting(t, k + 1, type)
             /\ k + 1 \notin Waiting(t, k + 1, type)
    <2>1. Of(t, type) \subseteq 1..Len(t)
        BY OfFinite
    <2>2. \A i \in Int : /\ i > k + 1 => i > k
                         /\ i > k => i = k + 1 \/ i > k + 1
        OBVIOUS
    <2>3. ~(k + 1 > k + 1)
        OBVIOUS
    <2> QED
        BY <2>1, <2>2, <2>3 DEF Waiting
<1>2. ASSUME NEW type, NEW id, id \in Asks(t, k, type)
      PROVE  \/ id \in Asks(t, k + 1, type)
             \/ k + 1 \in Waiting(t, k, type) /\ t[k + 1].id = id
    BY <1>1, <1>2, AsksMember
<1>3. ASSUME NEW type PROVE Asks(t, k + 1, type) \subseteq Asks(t, k, type)
    BY <1>1, AsksMember
<1>4. ASSUME Once(t, k)
      PROVE  /\ Once(t, k + 1)
             /\ k + 1 \in Waiting(t, k, "Action") => t[k + 1].id \notin Asks(t, k + 1, "Action")
    BY <1>1, <1>4, AsksMember DEF Once
<1> QED
    BY <1>2, <1>3, <1>4

\* The first frames of a sequence, from k on, that its owner did not handle.
LEMMA PrefixAsks ==
    ASSUME NEW t \in Seq(ClientMessage), NEW k \in Nat, NEW n \in Nat, k <= n, n <= Len(t),
           NEW u \in Seq(ClientMessage), DOMAIN u = 1..(n - k), \A i \in 1..(n - k) : u[i] = t[k + i]
    PROVE  /\ \A type : Asks(u, 0, type) \subseteq Asks(t, k, type)
           /\ \A N : InTurn(t, k, N) => InTurn(u, 0, N)
           /\ Once(t, k) => Once(u, 0)
<1>1. DOMAIN t = 1..Len(t) /\ Len(t) \in Nat
    BY LenProperties
<1>2. ASSUME NEW type, NEW i \in Waiting(u, 0, type)
      PROVE  /\ i \in 1..(n - k) /\ k + i \in Waiting(t, k, type) /\ u[i] = t[k + i]
             /\ \A j \in Waiting(t, k, type) :
                   j < k + i => /\ j - k \in Waiting(u, 0, type) /\ j - k < i
                                /\ u[j - k] = t[j]
    <2>1. i \in 1..(n - k) /\ u[i].type = type /\ u[i] = t[k + i]
        BY DEF Waiting, Of
    <2>2. k + i \in 1..Len(t) /\ k + i > k
        BY <1>1, <2>1
    <2>3. ASSUME NEW j \in Waiting(t, k, type), j < k + i
          PROVE  j - k \in Waiting(u, 0, type) /\ j - k < i /\ u[j - k] = t[j]
        <3>1. j \in 1..Len(t) /\ j > k /\ t[j].type = type
            BY <1>1 DEF Waiting, Of
        <3>2. j - k \in 1..(n - k) /\ j - k < i /\ j - k > 0 /\ k + (j - k) = j
            BY <1>1, <2>1, <2>3, <3>1
        <3> QED
            BY <3>1, <3>2 DEF Waiting, Of
    <2> QED
        BY <1>1, <2>1, <2>2, <2>3 DEF Waiting, Of
<1>3. ASSUME NEW type PROVE Asks(u, 0, type) \subseteq Asks(t, k, type)
    BY <1>2, AsksMember
<1>4. ASSUME NEW N, InTurn(t, k, N) PROVE InTurn(u, 0, N)
    <2> SUFFICES ASSUME NEW i \in Waiting(u, 0, "Mutation"), NEW a \in N,
                        u[i].id \in N, a < u[i].id
                 PROVE  \E j \in Waiting(u, 0, "Mutation") : j < i /\ u[j].id = a
        BY DEF InTurn
    <2>1. k + i \in Waiting(t, k, "Mutation") /\ u[i] = t[k + i]
        BY <1>2
    <2>2. PICK j \in Waiting(t, k, "Mutation") : j < k + i /\ t[j].id = a
        BY <1>4, <2>1 DEF InTurn
    <2>3. j - k \in Waiting(u, 0, "Mutation") /\ j - k < i /\ u[j - k] = t[j]
        BY <1>2, <2>2
    <2> QED
        BY <2>2, <2>3
<1>5. ASSUME Once(t, k) PROVE Once(u, 0)
    <2> SUFFICES ASSUME NEW i \in Waiting(u, 0, "Action"), NEW j \in Waiting(u, 0, "Action"),
                        u[i].id = u[j].id
                 PROVE  i = j
        BY DEF Once
    <2>1. /\ k + i \in Waiting(t, k, "Action") /\ u[i] = t[k + i] /\ i \in Int
          /\ k + j \in Waiting(t, k, "Action") /\ u[j] = t[k + j] /\ j \in Int
        BY <1>2
    <2>2. k + i = k + j
        BY <1>5, <2>1 DEF Once
    <2> QED
        BY <2>1, <2>2
<1> QED
    BY <1>3, <1>4, <1>5

\* Two sequences, one after the other.
LEMMA ConcatAsks ==
    ASSUME NEW s \in Seq(ClientMessage), NEW t \in Seq(ClientMessage)
    PROVE  /\ \A type : Asks(s \o t, 0, type) = Asks(s, 0, type) \cup Asks(t, 0, type)
           /\ \A N : InTurn(s, 0, N) /\ InTurn(t, 0, N) => InTurn(s \o t, 0, N)
           /\ /\ Once(s, 0) /\ Once(t, 0)
              /\ \A id \in Asks(t, 0, "Action") : id \notin Asks(s, 0, "Action")
              => Once(s \o t, 0)
<1> DEFINE u == s \o t
           n == Len(s)
<1>1. /\ u \in Seq(ClientMessage) /\ n \in Nat /\ Len(t) \in Nat
      /\ DOMAIN s = 1..n /\ DOMAIN t = 1..Len(t) /\ DOMAIN u = 1..(n + Len(t))
      /\ \A i \in 1..(n + Len(t)) : u[i] = IF i <= n THEN s[i] ELSE t[i - n]
    BY ConcatProperties, LenProperties
<1> HIDE DEF u, n
<1>2. ASSUME NEW type
      PROVE  /\ \A i \in Waiting(s, 0, type) : i \in Waiting(u, 0, type) /\ u[i] = s[i] /\ i \in 1..n
             /\ \A i \in Waiting(t, 0, type) :
                   n + i \in Waiting(u, 0, type) /\ u[n + i] = t[i] /\ i \in 1..Len(t)
             /\ \A i \in Waiting(u, 0, type) :
                   \/ i \in Waiting(s, 0, type) /\ u[i] = s[i] /\ i \in 1..n
                   \/ /\ i - n \in Waiting(t, 0, type) /\ u[i] = t[i - n] /\ i \in Int
    <2>1. ASSUME NEW i \in Waiting(s, 0, type)
          PROVE  i \in Waiting(u, 0, type) /\ u[i] = s[i] /\ i \in 1..n
        <3>1. i \in 1..n /\ s[i].type = type
            BY <1>1 DEF Waiting, Of
        <3>2. i \in 1..(n + Len(t)) /\ u[i] = s[i] /\ i > 0
            BY <1>1, <3>1
        <3> QED
            BY <1>1, <3>1, <3>2 DEF Waiting, Of
    <2>2. ASSUME NEW i \in Waiting(t, 0, type)
          PROVE  n + i \in Waiting(u, 0, type) /\ u[n + i] = t[i] /\ i \in 1..Len(t)
        <3>1. i \in 1..Len(t) /\ t[i].type = type
            BY <1>1 DEF Waiting, Of
        <3>2. n + i \in 1..(n + Len(t)) /\ n + i > 0 /\ ~(n + i <= n) /\ (n + i) - n = i
            BY <1>1, <3>1
        <3>3. u[n + i] = t[i]
            BY <1>1, <3>2
        <3> QED
            BY <1>1, <3>1, <3>2, <3>3 DEF Waiting, Of
    <2>3. ASSUME NEW i \in Waiting(u, 0, type)
          PROVE  \/ i \in Waiting(s, 0, type) /\ u[i] = s[i] /\ i \in 1..n
                 \/ i - n \in Waiting(t, 0, type) /\ u[i] = t[i - n] /\ i \in Int
        <3>1. i \in 1..(n + Len(t)) /\ u[i].type = type /\ i > 0
            BY <1>1 DEF Waiting, Of
        <3>2. CASE i <= n
            <4>1. u[i] = s[i] /\ i \in 1..n
                BY <1>1, <3>1, <3>2
            <4> QED
                BY <1>1, <3>1, <4>1 DEF Waiting, Of
        <3>3. CASE ~(i <= n)
            <4>1. u[i] = t[i - n] /\ i - n \in 1..Len(t) /\ i - n > 0 /\ i \in Int
                BY <1>1, <3>1, <3>3
            <4> QED
                BY <1>1, <3>1, <4>1 DEF Waiting, Of
        <3> QED
            BY <3>2, <3>3
    <2> QED
        BY <2>1, <2>2, <2>3
<1>3. ASSUME NEW type PROVE Asks(u, 0, type) = Asks(s, 0, type) \cup Asks(t, 0, type)
    <2>1. \A id : id \in Asks(u, 0, type) <=> id \in Asks(s, 0, type) \/ id \in Asks(t, 0, type)
        BY <1>2, AsksMember
    <2> QED
        BY <2>1
<1>4. ASSUME NEW N, InTurn(s, 0, N), InTurn(t, 0, N) PROVE InTurn(u, 0, N)
    <2> SUFFICES ASSUME NEW i \in Waiting(u, 0, "Mutation"), NEW a \in N, u[i].id \in N, a < u[i].id
                 PROVE  \E j \in Waiting(u, 0, "Mutation") : j < i /\ u[j].id = a
        BY DEF InTurn
    <2>1. CASE i \in Waiting(s, 0, "Mutation") /\ u[i] = s[i]
        <3>1. PICK j \in Waiting(s, 0, "Mutation") : j < i /\ s[j].id = a
            BY <1>4, <2>1 DEF InTurn
        <3> QED
            BY <1>2, <3>1
    <2>2. CASE i - n \in Waiting(t, 0, "Mutation") /\ u[i] = t[i - n] /\ i \in Int
        <3>1. PICK j \in Waiting(t, 0, "Mutation") : j < i - n /\ t[j].id = a
            BY <1>4, <2>2 DEF InTurn
        <3>2. n + j \in Waiting(u, 0, "Mutation") /\ u[n + j] = t[j] /\ j \in 1..Len(t)
            BY <1>2
        <3>3. n + j < i
            BY <1>1, <2>2, <3>1, <3>2
        <3> QED
            BY <3>1, <3>2, <3>3
    <2> QED
        BY <1>2, <2>1, <2>2
<1>5. ASSUME Once(s, 0), Once(t, 0), \A id \in Asks(t, 0, "Action") : id \notin Asks(s, 0, "Action")
      PROVE  Once(u, 0)
    <2> SUFFICES ASSUME NEW i \in Waiting(u, 0, "Action"), NEW j \in Waiting(u, 0, "Action"),
                        u[i].id = u[j].id
                 PROVE  i = j
        BY DEF Once
    <2> DEFINE S == Waiting(s, 0, "Action")
               T == Waiting(t, 0, "Action")
    <2>1. \A x \in Waiting(u, 0, "Action") :
              \/ x \in S /\ u[x] = s[x]
              \/ x - n \in T /\ u[x] = t[x - n] /\ x \in Int
        BY <1>2
    <2>2. CASE i \in S /\ u[i] = s[i] /\ j \in S /\ u[j] = s[j]
        BY <1>5, <2>2 DEF Once
    <2>3. CASE i - n \in T /\ u[i] = t[i - n] /\ j - n \in T /\ u[j] = t[j - n] /\ i \in Int /\ j \in Int
        <3>1. i - n = j - n
            BY <1>5, <2>3 DEF Once
        <3> QED
            BY <1>1, <2>3, <3>1
    <2>4. \A x \in S, y \in T : s[x].id # t[y].id
        BY <1>5, AsksMember
    <2> QED
        BY <2>1, <2>2, <2>3, <2>4
<1> QED
    BY <1>3, <1>4, <1>5 DEF u

-----------------------------------------------------------------------------
(* Which requests are mutations, and which of them have run.               *)

\* The actions ever asked for; every other request is a mutation.
Asked == transmitted \cup ActionIds(outgoing)
Mutations == (0..(nextRequestId - 1)) \ Asked
NotRun == Mutations \ Ids(outcomes)

\* Requests keep their kind wherever they are, and what ran is a mutation.
KindsInv ==
    /\ nextRequestId <= MaxRequests
    /\ \A r \in ongoing : r.kind = "Action" <=> r.id \in Asked
    /\ ActionIds(sent) \subseteq transmitted
    /\ Asks(Script, 0, "Mutation") \subseteq Mutations
    /\ Asks(late, 0, "Mutation") \subseteq Mutations
    /\ Asks(late, 0, "Action") \subseteq transmitted
    /\ Ids(outcomes) \subseteq Mutations
    /\ owed \subseteq Ids(outcomes)

\* drain_outgoing() puts on the wire what it takes from the queue.
LEMMA DrainAsked ==
    ASSUME TypeOK, NEW queue \in Seq(ClientMessage), Drain(queue), ActionIds(sent) \subseteq transmitted
    PROVE  /\ Asked' = transmitted \cup ActionIds(queue)
           /\ transmitted \subseteq transmitted'
           /\ ActionIds(sent') \subseteq transmitted'
<1>1. CASE linked
    <2>1. sent' = sent \o queue /\ outgoing' = <<>> /\ transmitted' = transmitted \cup ActionIds(queue)
        BY <1>1 DEF Drain
    <2>2. ActionIds(sent \o queue) = ActionIds(sent) \cup ActionIds(queue)
        BY ActionIdsConcat DEF TypeOK
    <2>3. ActionIds(outgoing') = {}
        BY <2>1, NoActionIds
    <2> QED
        BY <2>1, <2>2, <2>3 DEF Asked
<1>2. CASE ~linked
    BY <1>2 DEF Drain, Asked
<1> QED
    BY <1>1, <1>2

\* A request more.
Asking(kind) ==
    LET r == [id |-> nextRequestId, kind |-> kind, completed |-> FALSE, ts |-> NoTs]
        f == [type |-> kind, id |-> nextRequestId]
    IN  /\ nextRequestId < MaxRequests /\ nextRequestId' = nextRequestId + 1
        /\ ongoing' = ongoing \cup {r} /\ answers' = answers /\ down' = down
        /\ f \in ClientMessage /\ Script' = Append(Script, f)
        /\ Asked' = Asked \cup (IF kind = "Action" THEN {nextRequestId} ELSE {})

\* No request more, but perhaps another frame.
Unasked ==
    /\ nextRequestId' = nextRequestId /\ Asked' = Asked
    /\ \/ Script' = Script
       \/ \E f \in ClientMessage : /\ f.type # "Mutation" /\ f.type # "Action"
                                   /\ Script' = Append(Script, f)

\* The oldest message arrives.
Arrives ==
    /\ down # <<>> /\ Head(down) \in ServerMessage /\ down' = Tail(down)
    /\ \/ ApplyTransition(Head(down))
       \/ ReceiveMutationResponse(Head(down))
       \/ ReceiveActionResponse(Head(down))

\* What a quiet step may do to the requests.
LEMMA QuietAsks ==
    ASSUME ClientInv, QuietStep, ActionIds(sent) \subseteq transmitted
    PROVE  /\ transmitted \subseteq transmitted' /\ ActionIds(sent') \subseteq transmitted'
           /\ UNCHANGED <<clock, outcomes, actionRuns, late, taken, owed>>
           /\ \/ \E kind \in {"Mutation", "Action"} : Asking(kind)
              \/ Unasked /\ UNCHANGED <<ongoing, answers, down>>
              \/ Unasked /\ Arrives
<1>0. TypeOK /\ ScriptInv /\ outgoing \in Seq(ClientMessage) /\ nextRequestId \in Nat
    BY DEF ClientInv, TypeOK
<1>1. UNCHANGED <<clock, outcomes, actionRuns, late, taken, owed>>
    BY DEF QuietStep, sessionVars
<1>2. ASSUME Drain(outgoing), UNCHANGED <<nextRequestId, linked>>
      PROVE  transmitted \subseteq transmitted' /\ ActionIds(sent') \subseteq transmitted' /\ Unasked
    <2>1. Script' = Script
        BY <1>0, <1>2, ScriptGrows DEF ScriptInv
    <2>2. Asked' = transmitted \cup ActionIds(outgoing)
        BY <1>0, <1>2, DrainAsked
    <2>3. transmitted \subseteq transmitted' /\ ActionIds(sent') \subseteq transmitted'
        BY <1>0, <1>2, DrainAsked
    <2> QED
        BY <1>2, <2>1, <2>2, <2>3 DEF Unasked, Asked
<1>3. ASSUME NEW f \in ClientMessage, Drain(Append(outgoing, f)), UNCHANGED linked
      PROVE  /\ transmitted \subseteq transmitted' /\ ActionIds(sent') \subseteq transmitted'
             /\ Script' = Append(Script, f)
             /\ Asked' = Asked \cup (IF f.type = "Action" THEN {f.id} ELSE {})
    <2>1. Append(outgoing, f) \in Seq(ClientMessage)
        BY <1>0, AppendProperties
    <2>2. /\ Asked' = transmitted \cup ActionIds(Append(outgoing, f))
          /\ transmitted \subseteq transmitted' /\ ActionIds(sent') \subseteq transmitted'
        BY <1>0, <1>3, <2>1, DrainAsked
    <2>3. ActionIds(Append(outgoing, f)) =
              ActionIds(outgoing) \cup (IF f.type = "Action" THEN {f.id} ELSE {})
        BY <1>0, ActionIdsAppend
    <2>4. Script' = Append(Script, f)
        BY <1>0, <1>3, ScriptGrows DEF ScriptInv
    <2> QED
        BY <2>2, <2>3, <2>4 DEF Asked
<1>4. ASSUME NEW f \in ClientMessage, f.type # "Mutation", f.type # "Action",
             Drain(Append(outgoing, f)), UNCHANGED <<nextRequestId, linked>>
      PROVE  transmitted \subseteq transmitted' /\ ActionIds(sent') \subseteq transmitted' /\ Unasked
    BY <1>3, <1>4 DEF Unasked
<1> DEFINE Kept == /\ transmitted \subseteq transmitted' /\ ActionIds(sent') \subseteq transmitted'
                   /\ Unasked
<1>5. CASE down' = down /\ \E q \in querySet : SubscribeShared(q)
    <2>1. Drain(outgoing) /\ UNCHANGED <<nextRequestId, linked, ongoing, answers>>
        BY <1>5 DEF SubscribeShared, requestVars, linkVars
    <2> QED
        BY <1>1, <1>2, <1>5, <2>1
<1>6. ASSUME down' = down, NEW token \in Tokens, SubscribeNew(token)
      PROVE  Kept /\ UNCHANGED <<ongoing, answers, down>>
    <2>1. PICK q : q = [id |-> nextQueryId, token |-> token, num |-> 1, journal |-> NoJournal]
        OBVIOUS
    <2>2. PICK f : f = ModifyQuerySet(querySetVersion, {AddOf(q)}, {})
        OBVIOUS
    <2>3. q \in LocalQuery
        BY <1>0, <2>1 DEF LocalQuery, TypeOK
    <2>4. /\ Drain(Append(outgoing, f)) /\ UNCHANGED <<nextRequestId, linked, ongoing, answers>>
        BY <1>6, <2>1, <2>2 DEF SubscribeNew, requestVars, linkVars
    <2>5. f \in ClientMessage /\ f.type = "ModifyQuerySet"
        BY <1>0, <2>2, <2>3, FramesType DEF ModifyQuerySet, TypeOK
    <2> QED
        BY <1>4, <1>6, <2>4, <2>5
<1>7. ASSUME down' = down, NEW s \in subs, Unsubscribe(s)
      PROVE  Kept /\ UNCHANGED <<ongoing, answers, down>>
    <2>1. UNCHANGED <<nextRequestId, linked, ongoing, answers>>
        BY <1>7 DEF Unsubscribe, requestVars, linkVars
    <2>2. PICK q \in querySet : ReleaseShared(q) \/ ReleaseLast(q)
        BY <1>7 DEF Unsubscribe
    <2>3. CASE ReleaseShared(q)
        BY <1>2, <1>7, <2>1, <2>3 DEF ReleaseShared
    <2>4. CASE ReleaseLast(q)
        <3>1. PICK f : f = ModifyQuerySet(querySetVersion, {}, {q.id})
            OBVIOUS
        <3>2. Drain(Append(outgoing, f))
            BY <2>4, <3>1 DEF ReleaseLast
        <3>3. f \in ClientMessage /\ f.type = "ModifyQuerySet"
            BY <1>0, <3>1, FramesType DEF ModifyQuerySet, TypeOK, LocalQuery
        <3> QED
            BY <1>4, <1>7, <2>1, <3>2, <3>3
    <2> QED
        BY <2>2, <2>3, <2>4
<1>8. ASSUME down' = down, NEW kind \in {"Mutation", "Action"}, Request(kind)
      PROVE  transmitted \subseteq transmitted' /\ ActionIds(sent') \subseteq transmitted' /\ Asking(kind)
    <2>1. PICK f : f = [type |-> kind, id |-> nextRequestId]
        OBVIOUS
    <2>2. f \in ClientMessage /\ f.type = kind /\ f.id = nextRequestId
        BY <1>0, <2>1 DEF ClientMessage
    <2>3. /\ Drain(Append(outgoing, f)) /\ UNCHANGED <<linked, answers>>
          /\ nextRequestId < MaxRequests /\ nextRequestId' = nextRequestId + 1
          /\ ongoing' = ongoing \cup {[id |-> nextRequestId, kind |-> kind,
                                       completed |-> FALSE, ts |-> NoTs]}
        BY <1>8, <2>1 DEF Request, OriginalMessage, linkVars
    <2>4. /\ transmitted \subseteq transmitted' /\ ActionIds(sent') \subseteq transmitted'
          /\ Script' = Append(Script, f)
          /\ Asked' = Asked \cup (IF kind = "Action" THEN {nextRequestId} ELSE {})
        BY <1>3, <2>2, <2>3
    <2> QED
        BY <1>8, <2>1, <2>2, <2>3, <2>4 DEF Asking
<1>9. ASSUME down' = down, NEW token \in Identity, SetAuth(token)
      PROVE  Kept /\ UNCHANGED <<ongoing, answers, down>>
    <2>1. PICK f : f = Authenticate(identityVersion, token)
        OBVIOUS
    <2>2. f \in ClientMessage /\ f.type = "Authenticate"
        BY <1>0, <2>1, FramesType DEF Authenticate, TypeOK
    <2>3. Drain(Append(outgoing, f)) /\ UNCHANGED <<nextRequestId, linked, ongoing, answers>>
        BY <1>9, <2>1 DEF SetAuth, requestVars, linkVars
    <2> QED
        BY <1>4, <1>9, <2>2, <2>3
<1>10. CASE down' = down /\ UNCHANGED vars
    <2>1. /\ UNCHANGED <<nextRequestId, ongoing, answers, transmitted, outgoing, sent>>
        BY <1>10 DEF vars, requestVars, wireVars
    <2> QED
        BY <1>1, <1>10, <2>1 DEF Unasked, Asked, Script
<1>11. CASE Arrives
    <2>1. Drain(outgoing) /\ UNCHANGED <<nextRequestId, linked>>
        BY <1>11 DEF Arrives, ApplyTransition, ReceiveMutationResponse, ReceiveActionResponse, linkVars
    <2> QED
        BY <1>1, <1>2, <1>11, <2>1
<1> QED
    BY <1>1, <1>5, <1>6, <1>7, <1>8, <1>9, <1>10, <1>11 DEF QuietStep, User, Arrives

\* What restart() sends again: the mutations nobody answered, in their order,
\* and the actions that were never on a wire.
LEMMA RestartAsks ==
    ASSUME ClientInv, NEW token \in Identity, Reconnect(token)
    PROVE  /\ nextRequestId' = nextRequestId /\ Asked' = Asked /\ transmitted' = transmitted
           /\ sent' = <<>> /\ Script' \in Seq(ClientMessage)
           /\ \A r \in ongoing' : r \in ongoing
           /\ \A r \in ongoing : r.kind = "Mutation" => r \in ongoing'
           /\ \A id : id \in Asks(Script', 0, "Mutation") <=>
                         \E r \in ongoing : r.kind = "Mutation" /\ r.id = id
           /\ Asks(Script', 0, "Action") = ActionIds(outgoing)
           /\ Once(Script', 0)
           /\ \A N : /\ \A a \in N : \E r \in ongoing : r.kind = "Mutation" /\ r.id = a
                     => InTurn(Script', 0, N)
<1>0. TypeOK /\ UniqueRequests /\ QueueInv /\ nextRequestId \in Nat /\ ongoing \subseteq PendingRequest
    BY DEF ClientInv, RequestInv, TypeOK
<1> DEFINE kept == ongoing \ LostActions(outgoing)
<1>1. /\ nextRequestId' = nextRequestId /\ transmitted' = transmitted /\ sent' = <<>>
      /\ ongoing' = kept
    BY DEF Reconnect
<1>2. kept \in SUBSET ongoing /\ Ids(kept) \in SUBSET Ids(ongoing)
    BY DEF Ids
<1>3. PICK s \in Ascending(Ids(kept)) :
          outgoing' = AuthenticateFirst(token) \o RestoreQueries \o Resend(s)
    BY DEF Reconnect
<1>4. \A r \in ongoing : /\ r.kind = "Mutation" => r \in kept
                         /\ r \in kept /\ r.kind = "Action" <=> r.kind = "Action" /\ r.id \in ActionIds(outgoing)
                         /\ r.kind \in {"Mutation", "Action"} /\ r.id \in Nat
    BY <1>0 DEF LostActions, PendingRequest
<1> HIDE DEF kept
<1>5. PICK front, e : front = AuthenticateFirst(token) \o RestoreQueries /\ e = Resend(s)
    OBVIOUS
<1>6. /\ AuthenticateFirst(token) \in Seq(ClientMessage) /\ RestoreQueries \in Seq(ClientMessage)
      /\ e \in Seq(ClientMessage)
    BY <1>0, <1>2, <1>5, RestoredPartsType
<1>7. /\ front \in Seq(ClientMessage)
      /\ \A i \in DOMAIN front : front[i].type # "Mutation" /\ front[i].type # "Action"
    <2>1. \A i \in DOMAIN AuthenticateFirst(token) : AuthenticateFirst(token)[i].type = "Authenticate"
        BY DEF AuthenticateFirst, Authenticate
    <2>2. \A i \in DOMAIN RestoreQueries : RestoreQueries[i].type = "ModifyQuerySet"
        BY DEF RestoreQueries, ModifyQuerySet
    <2>3. PICK a, r : a = AuthenticateFirst(token) /\ r = RestoreQueries
        OBVIOUS
    <2>4. /\ a \o r \in Seq(ClientMessage) /\ Len(a \o r) = Len(a) + Len(r)
          /\ \A i \in 1..(Len(a) + Len(r)) : (a \o r)[i] = IF i <= Len(a) THEN a[i] ELSE r[i - Len(a)]
        BY <1>6, <2>3, ConcatProperties
    <2>5. /\ DOMAIN a = 1..Len(a) /\ DOMAIN r = 1..Len(r) /\ Len(a) \in Nat /\ Len(r) \in Nat
          /\ DOMAIN (a \o r) = 1..(Len(a) + Len(r))
        BY <1>6, <2>3, <2>4, LenProperties
    <2>6. ASSUME NEW i \in 1..(Len(a) + Len(r))
          PROVE  (a \o r)[i].type # "Mutation" /\ (a \o r)[i].type # "Action"
        <3>1. CASE i <= Len(a)
            BY <2>1, <2>3, <2>4, <2>5, <3>1
        <3>2. CASE ~(i <= Len(a))
            <4>1. i - Len(a) \in 1..Len(r)
                BY <2>5, <3>2
            <4> QED
                BY <2>2, <2>3, <2>4, <2>5, <3>2, <4>1
        <3> QED
            BY <3>1, <3>2
    <2> QED
        BY <1>5, <2>3, <2>4, <2>5, <2>6
<1>8. \A type \in {"Mutation", "Action"} : Waiting(front, 0, type) = {}
    BY <1>7 DEF Waiting, Of
<1>9. /\ \A type \in {"Mutation", "Action"} : Asks(front, 0, type) = {}
      /\ \A N : InTurn(front, 0, N)
      /\ Once(front, 0)
    BY <1>8 DEF Asks, InTurn, Once
<1>10. Script' = front \o e
    <2>1. front \o e \in Seq(ClientMessage)
        BY <1>6, <1>7, ConcatProperties
    <2> QED
        BY <1>1, <1>3, <1>5, <2>1, ConcatEmptySeq DEF Script
<1>11. PICK n \in Nat :
          /\ s \in [1..n -> Ids(kept)]
          /\ \A i, j \in 1..n : i < j => s[i] < s[j]
          /\ \A x \in Ids(kept) : \E i \in 1..n : s[i] = x
    <2>1. PICK n \in 0..nextRequestId : s \in [1..n -> Ids(kept)]
        BY DEF Ascending
    <2>2. n \in Nat /\ DOMAIN s = 1..n
        BY <1>0, <2>1
    <2> QED
        BY <2>1, <2>2 DEF Ascending
<1>12. DOMAIN e = 1..n /\ \A i \in 1..n : e[i] = [type |-> KindOf(s[i]), id |-> s[i]]
    BY <1>5, <1>11 DEF Resend
<1>13. \A r \in ongoing : KindOf(r.id) = r.kind
    BY <1>0 DEF KindOf, UniqueRequests
<1>14. \A i \in 1..n : \E r \in kept : /\ r \in ongoing /\ r.id = s[i]
                                       /\ e[i].type = r.kind /\ e[i].id = r.id
    <2> SUFFICES ASSUME NEW i \in 1..n
                 PROVE  \E r \in kept : /\ r \in ongoing /\ r.id = s[i]
                                        /\ e[i].type = r.kind /\ e[i].id = r.id
        OBVIOUS
    <2>1. PICK r \in kept : r.id = s[i]
        BY <1>11, IdsMember
    <2>2. r \in ongoing
        BY <1>2
    <2> QED
        BY <1>12, <1>13, <2>1, <2>2
<1>15. \A r \in kept : \E i \in 1..n : s[i] = r.id /\ e[i].type = r.kind /\ e[i].id = r.id
    <2> SUFFICES ASSUME NEW r \in kept
                 PROVE  \E i \in 1..n : s[i] = r.id /\ e[i].type = r.kind /\ e[i].id = r.id
        OBVIOUS
    <2>1. r.id \in Ids(kept) /\ r \in ongoing
        BY <1>2, IdsMember
    <2> QED
        BY <1>11, <1>12, <1>13, <2>1
<1>16. \A i, type : i \in Waiting(e, 0, type) <=> i \in 1..n /\ e[i].type = type
    BY <1>12 DEF Waiting, Of
<1>17. ASSUME NEW i \in 1..n, NEW j \in 1..n, s[i] = s[j] PROVE i = j
    <2>1. s[i] \in Int
        BY <1>4, <1>14
    <2>2. ~(i < j) /\ ~(j < i)
        BY <1>11, <1>17, <2>1
    <2> QED
        BY <2>2
<1>18. Once(e, 0)
    BY <1>12, <1>16, <1>17 DEF Once
<1>19. ASSUME NEW N, \A a \in N : \E r \in ongoing : r.kind = "Mutation" /\ r.id = a
       PROVE  InTurn(e, 0, N)
    <2> SUFFICES ASSUME NEW i \in Waiting(e, 0, "Mutation"), NEW a \in N, a < e[i].id
                 PROVE  \E j \in Waiting(e, 0, "Mutation") : j < i /\ e[j].id = a
        BY DEF InTurn
    <2>1. PICK r \in ongoing : r.kind = "Mutation" /\ r.id = a
        BY <1>19
    <2>2. PICK j \in 1..n : s[j] = a /\ e[j].type = "Mutation" /\ e[j].id = a
        BY <1>4, <1>15, <2>1
    <2>3. i \in 1..n /\ e[i].id = s[i] /\ s[i] \in Int /\ a \in Int
        BY <1>4, <1>12, <1>14, <1>16, <2>1
    <2>4. ~(s[i] < s[j]) /\ s[i] # s[j]
        BY <2>2, <2>3
    <2>5. j < i
        BY <1>11, <2>3, <2>4
    <2> QED
        BY <1>16, <2>2, <2>5
<1>20. PICK t \in Seq(ClientMessage) : t = front \o e
    BY <1>6, <1>7, ConcatProperties
<1>21. /\ \A type \in {"Mutation", "Action"} : Asks(t, 0, type) = Asks(e, 0, type)
       /\ \A N : InTurn(e, 0, N) => InTurn(t, 0, N)
       /\ Once(t, 0)
    <2>1. /\ \A type : Asks(t, 0, type) = Asks(front, 0, type) \cup Asks(e, 0, type)
          /\ \A N : InTurn(front, 0, N) /\ InTurn(e, 0, N) => InTurn(t, 0, N)
          /\ /\ Once(front, 0) /\ Once(e, 0)
             /\ \A id \in Asks(e, 0, "Action") : id \notin Asks(front, 0, "Action")
             => Once(t, 0)
        BY <1>6, <1>7, <1>20, ConcatAsks
    <2> QED
        BY <1>9, <1>18, <2>1
<1>22. \A id, type : type \in {"Mutation", "Action"} =>
           (id \in Asks(t, 0, type) <=> \E r \in kept : r.kind = type /\ r.id = id)
    <2> SUFFICES ASSUME NEW id, NEW type \in {"Mutation", "Action"}
                 PROVE  id \in Asks(t, 0, type) <=> \E r \in kept : r.kind = type /\ r.id = id
        OBVIOUS
    <2>1. id \in Asks(t, 0, type) <=> \E i \in Waiting(e, 0, type) : e[i].id = id
        BY <1>21, AsksMember
    <2>2. ASSUME NEW i \in Waiting(e, 0, type), e[i].id = id
          PROVE  \E r \in kept : r.kind = type /\ r.id = id
        <3>1. i \in 1..n /\ e[i].type = type
            BY <1>16, <2>2
        <3> QED
            BY <1>14, <2>2, <3>1
    <2>3. ASSUME NEW r \in kept, r.kind = type, r.id = id
          PROVE  \E i \in Waiting(e, 0, type) : e[i].id = id
        <3>1. PICK i \in 1..n : e[i].type = r.kind /\ e[i].id = r.id
            BY <1>15
        <3> QED
            BY <1>16, <2>3, <3>1
    <2> QED
        BY <2>1, <2>2, <2>3
<1>23. \A id : id \in Asks(t, 0, "Mutation") <=> \E r \in ongoing : r.kind = "Mutation" /\ r.id = id
    BY <1>2, <1>4, <1>22
<1>24. Asks(t, 0, "Action") = ActionIds(outgoing)
    <2>1. \A id \in ActionIds(outgoing) : \E r \in ongoing : r.kind = "Action" /\ r.id = id
        <3>1. PICK S : S = {r \in ongoing : r.kind = "Action"}
            OBVIOUS
        <3>2. ActionIds(outgoing) \subseteq Ids(S)
            BY <1>0, <3>1 DEF QueueInv
        <3>3. \A id \in Ids(S) : \E r \in S : id = r.id
            BY IdsMember
        <3> QED
            BY <3>1, <3>2, <3>3
    <2>2. \A id : id \in Asks(t, 0, "Action") <=> id \in ActionIds(outgoing)
        BY <1>2, <1>4, <1>22, <2>1
    <2> QED
        BY <2>2
<1>25. outgoing' = t /\ ActionIds(t) = Asks(t, 0, "Action")
    BY <1>3, <1>5, <1>20, AsksActions
<1>26. Asked' = Asked
    BY <1>1, <1>24, <1>25 DEF Asked
<1>27. /\ \A r \in ongoing' : r \in ongoing
       /\ \A r \in ongoing : r.kind = "Mutation" => r \in ongoing'
    BY <1>1, <1>2, <1>4
<1>28. \A N : /\ \A a \in N : \E r \in ongoing : r.kind = "Mutation" /\ r.id = a
              => InTurn(t, 0, N)
    BY <1>19, <1>21
<1> QED
    BY <1>1, <1>10, <1>20, <1>21, <1>23, <1>24, <1>26, <1>27, <1>28

\* A new connection sends what was queued behind its Connect.
LEMMA ConnectAsks ==
    ASSUME ClientInv, SessionTypes, ServerInv, Connect
    PROVE  /\ UNCHANGED <<nextRequestId, ongoing, answers, sessionVars, connectionVars>>
           /\ Asked' = Asked /\ transmitted \subseteq transmitted'
           /\ ActionIds(sent') \subseteq transmitted'
           /\ taken = 0 /\ Script \in Seq(ClientMessage) /\ Script' \in Seq(ClientMessage)
           /\ Mirror(Script, 0, Script', 0, "Mutation") /\ Mirror(Script, 0, Script', 0, "Action")
<1>1. PICK c : c = [type |-> "Connect", count |-> connectionCount, maxObserved |-> maxObserved]
    OBVIOUS
<1>2. c \in ClientMessage /\ c.type = "Connect"
    BY <1>1 DEF ClientInv, TypeOK, ClientMessage
<1>3. PICK t \in Seq(ClientMessage) : t = outgoing
    BY DEF ClientInv, TypeOK
<1>4. /\ sent = <<>> /\ sent' = <<c>> \o t /\ outgoing' = <<>> /\ ~linked
      /\ transmitted' = transmitted \cup ActionIds(t)
      /\ UNCHANGED <<nextRequestId, ongoing, answers, sessionVars, connectionVars>>
    BY <1>1, <1>3 DEF Connect, Open, ClientInv, ScriptInv, requestVars
<1>5. <<c>> \in Seq(ClientMessage) /\ <<c>> \o t \in Seq(ClientMessage)
    <2>1. <<c>> \in Seq(ClientMessage)
        BY <1>2
    <2> QED
        BY <2>1, ConcatProperties
<1>6. Script = t /\ Script' = <<c>> \o t
    BY <1>3, <1>4, <1>5, ConcatEmptySeq DEF Script
<1>7. ActionIds(<<c>> \o t) = ActionIds(t)
    <2>1. ActionIds(<<c>>) = {}
        BY <1>2 DEF ActionIds
    <2>2. ActionIds(<<c>> \o t) = ActionIds(<<c>>) \cup ActionIds(t)
        BY <1>3, <1>5, ActionIdsConcat
    <2> QED
        BY <2>1, <2>2
<1>8. Asked' = Asked
    BY <1>3, <1>4, NoActionIds DEF Asked
<1>9. taken = 0
    BY <1>4 DEF ServerInv
<1>10. \A type \in {"Mutation", "Action"} : Mirror(t, 0, <<c>> \o t, 0, type)
    BY <1>2, MirrorPrepend
<1> QED
    BY <1>4, <1>5, <1>6, <1>7, <1>8, <1>9, <1>10

\* What a message that arrives does to the requests.
LEMMA ArrivalAnswers ==
    ASSUME ClientInv, Arrives, NEW m, m = Head(down)
    PROVE  /\ \A r \in ongoing' : \E x \in ongoing : x.id = r.id /\ x.kind = r.kind
           /\ \A x \in ongoing :
                 \/ \E r \in ongoing' : r.id = x.id
                 \/ x.completed
                 \/ m.type \in {"MutationResponse", "ActionResponse"} /\ m.id = x.id
           /\ \A r \in ongoing' : r.completed =>
                 \/ r \in ongoing
                 \/ m.type = "MutationResponse" /\ m.ok /\ r.id = m.id /\ r.ts = m.ts
           /\ \A a \in answers' :
                 \/ a \in answers
                 \/ \E x \in ongoing : x.completed /\ a = OkAnswer(x)
                 \/ /\ m.type = "MutationResponse" /\ a.id = m.id
                    /\ \/ m.ok /\ a.outcome = "ok" /\ a.ts = m.ts
                       \/ ~m.ok /\ a.outcome = "error" /\ a.ts = NoTs
                 \/ m.type = "ActionResponse" /\ a.id = m.id
<1>0. ongoing \subseteq PendingRequest /\ m \in ServerMessage
    BY DEF ClientInv, TypeOK, Arrives
<1>1. CASE ApplyTransition(m)
    <2>1. /\ ongoing' = ongoing \ Deliverable(ongoing, m.end.ts)
          /\ answers' \subseteq answers \cup {OkAnswer(r) : r \in Deliverable(ongoing, m.end.ts)}
        BY <1>1 DEF ApplyTransition, Complete
    <2>2. \A r \in Deliverable(ongoing, m.end.ts) : r \in ongoing /\ r.completed
        BY DEF Deliverable
    <2> QED
        BY <2>1, <2>2
<1>2. ASSUME m.type \in {"MutationResponse", "ActionResponse"}, NEW outcome, AnswerNow(m, outcome)
      PROVE  /\ \A r \in ongoing' : r \in ongoing
             /\ \A x \in ongoing : x \in ongoing' \/ m.id = x.id
             /\ \A a \in answers' : \/ a \in answers
                                    \/ a.id = m.id /\ a.outcome = outcome /\ a.ts = NoTs
    BY <1>2 DEF AnswerNow, Complete
<1>3. ASSUME m.type = "MutationResponse", HoldSuccess(m)
      PROVE  /\ \A r \in ongoing' : \E x \in ongoing : x.id = r.id /\ x.kind = r.kind
             /\ \A x \in ongoing : x \in ongoing' \/ x.completed \/ m.id = x.id
             /\ \A r \in ongoing' : r \in ongoing \/ (m.ok /\ r.id = m.id /\ r.ts = m.ts)
             /\ \A a \in answers' : \/ a \in answers
                                    \/ \E x \in ongoing : x.completed /\ a = OkAnswer(x)
                                    \/ m.ok /\ a.id = m.id /\ a.outcome = "ok" /\ a.ts = m.ts
    <2>1. PICK r \in ongoing :
              LET held == (ongoing \ {r}) \cup {[r EXCEPT !.completed = TRUE, !.ts = m.ts]}
                  done == Deliverable(held, remoteVersion.ts)
              IN  /\ r.id = m.id /\ m.ok
                  /\ ongoing' = held \ done
                  /\ Complete({OkAnswer(x) : x \in done})
        BY <1>3 DEF HoldSuccess
    <2>2. PICK new : new = [r EXCEPT !.completed = TRUE, !.ts = m.ts]
        OBVIOUS
    <2>3. new.id = m.id /\ new.ts = m.ts /\ new.kind = r.kind
        BY <1>0, <2>1, <2>2 DEF PendingRequest
    <2>4. PICK held, done : /\ held = (ongoing \ {r}) \cup {new}
                            /\ done = Deliverable(held, remoteVersion.ts)
        OBVIOUS
    <2>5. /\ ongoing' = held \ done
          /\ \A a \in answers' : a \in answers \/ \E x \in done : a = OkAnswer(x)
        BY <2>1, <2>2, <2>4 DEF Complete
    <2>6. \A x \in done : x \in held /\ x.completed
        BY <2>4 DEF Deliverable
    <2>7. \A x : /\ OkAnswer(x).id = x.id /\ OkAnswer(x).outcome = "ok" /\ OkAnswer(x).ts = x.ts
        BY DEF OkAnswer
    <2>8. \A q \in ongoing' : q \in ongoing \/ q = new
        BY <2>4, <2>5
    <2>9. \A x \in ongoing : x \in ongoing' \/ x.completed \/ m.id = x.id
        BY <2>1, <2>4, <2>5, <2>6
    <2>10. \A a \in answers' : \/ a \in answers
                               \/ \E x \in ongoing : x.completed /\ a = OkAnswer(x)
                               \/ m.ok /\ a.id = m.id /\ a.outcome = "ok" /\ a.ts = m.ts
        <3> SUFFICES ASSUME NEW x \in done, NEW a, a = OkAnswer(x)
                     PROVE  \/ x \in ongoing /\ x.completed
                            \/ m.ok /\ a.id = m.id /\ a.outcome = "ok" /\ a.ts = m.ts
            BY <2>5
        <3>1. CASE x = new
            BY <2>1, <2>3, <2>7, <3>1
        <3>2. CASE x \in ongoing
            BY <2>6, <3>2
        <3> QED
            BY <2>4, <2>6, <3>1, <3>2
    <2> QED
        BY <2>1, <2>3, <2>8, <2>9, <2>10
<1>4. CASE IgnoreResponse(m)
    BY <1>4 DEF IgnoreResponse
<1>5. CASE ReceiveMutationResponse(m)
    <2>1. m.type = "MutationResponse"
        BY <1>5 DEF ReceiveMutationResponse
    <2>2. CASE HoldSuccess(m)
        BY <1>3, <2>1, <2>2
    <2>3. CASE m.ok /\ m.ts = NoTs /\ AnswerNow(m, "ok")
        BY <1>2, <2>1, <2>3
    <2>4. CASE ~m.ok /\ AnswerNow(m, "error")
        BY <1>2, <2>1, <2>4
    <2> QED
        BY <1>4, <1>5, <2>2, <2>3, <2>4 DEF ReceiveMutationResponse
<1>6. CASE ReceiveActionResponse(m)
    <2>1. m.type = "ActionResponse"
        BY <1>6 DEF ReceiveActionResponse
    <2>2. ASSUME NEW outcome, AnswerNow(m, outcome)
          PROVE  /\ \A r \in ongoing' : r \in ongoing
                 /\ \A x \in ongoing : x \in ongoing' \/ m.id = x.id
                 /\ \A a \in answers' : a \in answers \/ a.id = m.id
        BY <1>2, <2>1, <2>2
    <2>3. (\E outcome : AnswerNow(m, outcome)) \/ IgnoreResponse(m)
        BY <1>6 DEF ReceiveActionResponse
    <2> QED
        BY <1>4, <2>1, <2>2, <2>3
<1> QED
    BY <1>1, <1>5, <1>6 DEF Arrives

\* The late requests are frames.
LEMMA LateType ==
    ASSUME SessionTypes
    PROVE  late \in Seq(ClientMessage)
<1>1. late \in Seq(RequestFrame)
    BY DEF SessionTypes
<1>2. RequestFrame \subseteq ClientMessage
    BY DEF RequestFrame, ClientMessage
<1>3. \A i \in 1..Len(late) : late[i] \in ClientMessage
    BY <1>1, <1>2, ElementOfSeq
<1>4. Len(late) \in Nat /\ late = [i \in 1..Len(late) |-> late[i]]
    BY <1>1, LenProperties
<1> QED
    BY <1>3, <1>4, IsASeq

\* What the connection the client gives up leaves to arrive late.
LEMMA AbandonAsks ==
    ASSUME ClientInv, SessionTypes, Abandon
    PROVE  /\ taken' = 0 /\ owed' = {} /\ down' = <<>>
           /\ UNCHANGED <<clock, outcomes, actionRuns>>
           /\ late \in Seq(ClientMessage) /\ late' \in Seq(ClientMessage)
           /\ \A type \in {"Mutation", "Action"} :
                 Asks(late', 0, type) \subseteq Asks(late, 0, type) \cup Asks(Script, taken, type)
           /\ Asks(late', 0, "Action") \subseteq Asks(late, 0, "Action") \cup ActionIds(sent)
           /\ \A N : InTurn(late, 0, N) /\ InTurn(Script, taken, N) => InTurn(late', 0, N)
           /\ /\ Once(late, 0) /\ Once(Script, taken)
              /\ \A id \in Asks(Script, taken, "Action") : id \notin Asks(late, 0, "Action")
              => Once(late', 0)
<1>1. PICK s \in Seq(ClientMessage), t \in Seq(ClientMessage) : s = sent /\ t = Script
    BY ScriptType DEF ClientInv, TypeOK
<1>2. PICK k \in 0..Len(s) : k = taken
    BY <1>1 DEF SessionTypes
<1>3. PICK rest : rest = SubSeq(s, k + 1, Len(s))
    OBVIOUS
<1>4. /\ rest \in Seq(ClientMessage) /\ DOMAIN rest = 1..(Len(s) - k)
      /\ \A i \in 1..(Len(s) - k) : rest[i] = s[k + i]
    BY <1>3, RestType
<1>5. /\ Len(s) \in Nat /\ Len(t) \in Nat /\ k \in Nat /\ k <= Len(s) /\ Len(s) <= Len(s)
      /\ DOMAIN s = 1..Len(s) /\ DOMAIN t = 1..Len(t)
    BY LenProperties
<1>6. Len(s) <= Len(t) /\ \A i \in 1..Len(s) : t[i] = s[i]
    BY <1>1, <1>5, SentFirst DEF ClientInv
<1>7. \A i \in 1..(Len(s) - k) : rest[i] = t[k + i]
    <2> SUFFICES ASSUME NEW i \in 1..(Len(s) - k) PROVE rest[i] = t[k + i]
        OBVIOUS
    <2>1. k + i \in 1..Len(s)
        BY <1>5
    <2> QED
        BY <1>4, <1>6, <2>1
<1>8. /\ \A type : Asks(rest, 0, type) \subseteq Asks(t, k, type)
      /\ \A N : InTurn(t, k, N) => InTurn(rest, 0, N)
      /\ Once(t, k) => Once(rest, 0)
    BY <1>4, <1>5, <1>6, <1>7, PrefixAsks
<1>9. Asks(rest, 0, "Action") \subseteq ActionIds(s)
    <2>1. Asks(rest, 0, "Action") \subseteq Asks(s, k, "Action")
        BY <1>4, <1>5, PrefixAsks
    <2>2. Waiting(s, k, "Action") \subseteq Waiting(s, 0, "Action")
        BY <1>5 DEF Waiting, Of
    <2>3. Asks(s, k, "Action") \subseteq Asks(s, 0, "Action")
        BY <2>2, AsksMember
    <2> QED
        BY <2>1, <2>3, AsksActions
<1>10. PICK u : u = RequestsOf(rest)
    OBVIOUS
<1>11. /\ u \in Seq(ClientMessage)
       /\ Mirror(rest, 0, u, 0, "Mutation") /\ Mirror(rest, 0, u, 0, "Action")
    BY <1>4, <1>10, MirrorRequests
<1>12. /\ \A type \in {"Mutation", "Action"} : Asks(u, 0, type) = Asks(rest, 0, type)
       /\ \A N : InTurn(rest, 0, N) => InTurn(u, 0, N)
       /\ Once(rest, 0) => Once(u, 0)
    BY <1>4, <1>11, MirrorAsks, MirrorTurn, MirrorOnce
<1>13. PICK l \in Seq(ClientMessage) : l = late
    BY LateType
<1>14. late' = l \o u /\ l \o u \in Seq(ClientMessage)
    BY <1>1, <1>2, <1>3, <1>10, <1>11, <1>13, ConcatProperties DEF Abandon
<1>15. /\ \A type : Asks(l \o u, 0, type) = Asks(l, 0, type) \cup Asks(u, 0, type)
       /\ \A N : InTurn(l, 0, N) /\ InTurn(u, 0, N) => InTurn(l \o u, 0, N)
       /\ /\ Once(l, 0) /\ Once(u, 0)
          /\ \A id \in Asks(u, 0, "Action") : id \notin Asks(l, 0, "Action")
          => Once(l \o u, 0)
    BY <1>11, ConcatAsks
<1>16. \A type \in {"Mutation", "Action"} :
           Asks(l \o u, 0, type) \subseteq Asks(l, 0, type) \cup Asks(t, k, type)
    BY <1>8, <1>12, <1>15
<1>17. Asks(l \o u, 0, "Action") \subseteq Asks(l, 0, "Action") \cup ActionIds(s)
    BY <1>9, <1>12, <1>15
<1>18. \A N : InTurn(l, 0, N) /\ InTurn(t, k, N) => InTurn(l \o u, 0, N)
    BY <1>8, <1>12, <1>15
<1>19. /\ Once(l, 0) /\ Once(t, k)
       /\ \A id \in Asks(t, k, "Action") : id \notin Asks(l, 0, "Action")
       => Once(l \o u, 0)
    BY <1>8, <1>12, <1>15
<1>20. taken' = 0 /\ owed' = {} /\ down' = <<>> /\ UNCHANGED <<clock, outcomes, actionRuns>>
    BY DEF Abandon
<1> QED
    BY <1>1, <1>2, <1>13, <1>14, <1>16, <1>17, <1>18, <1>19, <1>20

\* The server runs a mutation, unless it ran before.
LEMMA RunOnce ==
    ASSUME SessionTypes, NEW id, RunMutation(id)
    PROVE  /\ outcomes \subseteq outcomes' /\ Ids(outcomes') = Ids(outcomes) \cup {id}
           /\ clock' \in Nat /\ clock <= clock'
           /\ \A o \in outcomes' : \/ o \in outcomes
                                   \/ /\ o.id = id /\ id \notin Ids(outcomes)
                                      /\ \/ o.ok = TRUE /\ o.ts = clock + 1 /\ clock' = clock + 1
                                         \/ o.ok = FALSE /\ o.ts = NoTs
<1>0. clock \in Nat
    BY DEF SessionTypes
<1>1. CASE id \in Ids(outcomes)
    BY <1>0, <1>1 DEF RunMutation
<1>2. ASSUME id \notin Ids(outcomes), NEW o, o.id = id, outcomes' = outcomes \cup {o}
      PROVE  Ids(outcomes') = Ids(outcomes) \cup {id}
    BY <1>2, IdsUnion
<1>3. CASE /\ id \notin Ids(outcomes) /\ clock' = clock + 1
           /\ outcomes' = outcomes \cup {[id |-> id, ok |-> TRUE, ts |-> clock + 1]}
    <2>1. PICK o : o = [id |-> id, ok |-> TRUE, ts |-> clock + 1]
        OBVIOUS
    <2>2. o.id = id /\ o.ok = TRUE /\ o.ts = clock + 1 /\ outcomes' = outcomes \cup {o}
        BY <1>3, <2>1
    <2>3. Ids(outcomes') = Ids(outcomes) \cup {id}
        BY <1>2, <1>3, <2>2
    <2> QED
        BY <1>0, <1>3, <2>2, <2>3
<1>4. CASE /\ id \notin Ids(outcomes) /\ clock' = clock
           /\ outcomes' = outcomes \cup {[id |-> id, ok |-> FALSE, ts |-> NoTs]}
    <2>1. PICK o : o = [id |-> id, ok |-> FALSE, ts |-> NoTs]
        OBVIOUS
    <2>2. o.id = id /\ o.ok = FALSE /\ o.ts = NoTs /\ outcomes' = outcomes \cup {o}
        BY <1>4, <2>1
    <2>3. Ids(outcomes') = Ids(outcomes) \cup {id}
        BY <1>2, <1>4, <2>2
    <2> QED
        BY <1>0, <1>4, <2>2, <2>3
<1> QED
    BY <1>1, <1>3, <1>4 DEF RunMutation

\* The server takes the next frame.
Reads(type) == taken' = taken + 1 /\ taken + 1 \in Waiting(Script, taken, type)

Skips == /\ \E type : type \notin {"Mutation", "Action"} /\ Reads(type)
         /\ UNCHANGED <<clock, outcomes, actionRuns, late, owed, down>>
RunsNext == /\ Reads("Mutation") /\ RunMutation(Script[taken + 1].id)
            /\ owed' = owed \cup {Script[taken + 1].id}
            /\ UNCHANGED <<actionRuns, late, down>>
ActsNext == /\ Reads("Action") /\ RunAction(Script[taken + 1].id)
            /\ \E m \in ServerMessage : /\ m.type = "ActionResponse"
                                        /\ m.id = Script[taken + 1].id
                                        /\ down' = Append(down, m)
            /\ UNCHANGED <<clock, outcomes, late, owed>>
RunsLate == /\ late # <<>> /\ late' = Tail(late) /\ Head(late).type = "Mutation"
            /\ RunMutation(Head(late).id)
            /\ UNCHANGED <<actionRuns, taken, owed, down>>
ActsLate == /\ late # <<>> /\ late' = Tail(late) /\ Head(late).type = "Action"
            /\ RunAction(Head(late).id)
            /\ UNCHANGED <<clock, outcomes, taken, owed, down>>
Tells == /\ UNCHANGED <<outcomes, actionRuns, late, taken>>
         /\ clock' \in Nat /\ clock <= clock' /\ owed' \subseteq owed
         /\ \/ down' = down
            \/ \E m \in ServerMessage :
                  /\ down' = Append(down, m)
                  /\ \/ m.type = "Transition"
                     \/ /\ m.type = "MutationResponse"
                        /\ \E o \in outcomes : o.id = m.id /\ o.ok = m.ok /\ o.ts = m.ts

\* What the server may do to the requests.
LEMMA ServerRequests ==
    ASSUME ClientInv, SessionTypes, ServerInv, ServerStep
    PROVE  /\ UNCHANGED <<nextRequestId, ongoing, answers, transmitted, outgoing, sent>>
           /\ Asked' = Asked /\ Script' = Script
           /\ Skips \/ RunsNext \/ ActsNext \/ RunsLate \/ ActsLate \/ Tells
<1>0. clock \in Nat /\ outcomes \subseteq Outcome
    BY DEF SessionTypes
<1>1. /\ UNCHANGED <<nextRequestId, ongoing, answers, transmitted, outgoing, sent>>
      /\ Asked' = Asked /\ Script' = Script
    BY DEF ServerStep, vars, requestVars, wireVars, Asked, Script
<1>2. ASSUME NEW type, Handling(type)
      PROVE  /\ Reads(type) /\ Script[taken + 1] = NextFrame
             /\ NextFrame \in ClientMessage /\ NextFrame.type = type
    <2>1. /\ taken \in Nat /\ taken' = taken + 1 /\ NextFrame \in ClientMessage
          /\ NextFrame.type = type
        BY <1>2, NextFrameType
    <2>2. Script[taken + 1] = NextFrame /\ taken + 1 \in Of(Script, type)
        BY <1>2, Handled
    <2>3. taken + 1 > taken
        BY <2>1
    <2> QED
        BY <2>1, <2>2, <2>3 DEF Reads, Waiting
<1>3. CASE ServeConnect \/ ServeAuthenticate \/ ServeModifyQuerySet
    <2>1. \E type \in {"Connect", "Authenticate", "ModifyQuerySet"} : Handling(type)
        BY <1>3 DEF ServeConnect, ServeAuthenticate, ServeModifyQuerySet
    <2>2. UNCHANGED <<clock, outcomes, actionRuns, late, owed, down>>
        BY <1>3 DEF ServeConnect, ServeAuthenticate, ServeModifyQuerySet, sessionVars
    <2>3. \E type : type \notin {"Mutation", "Action"} /\ Reads(type)
        BY <1>2, <2>1
    <2> QED
        BY <1>1, <2>2, <2>3 DEF Skips
<1>4. CASE ServeMutation
    BY <1>1, <1>2, <1>4 DEF ServeMutation, RunsNext
<1>5. CASE ServeAction
    <2>1. Reads("Action") /\ Script[taken + 1] = NextFrame /\ NextFrame.id \in RequestId
        BY <1>2, <1>5 DEF ServeAction, ClientMessage
    <2>2. PICK ok \in BOOLEAN :
              down' = Append(down, [type |-> "ActionResponse", id |-> NextFrame.id, ok |-> ok])
        BY <1>5 DEF ServeAction
    <2>3. PICK m : m = [type |-> "ActionResponse", id |-> NextFrame.id, ok |-> ok]
        OBVIOUS
    <2>4. m \in ServerMessage /\ m.type = "ActionResponse" /\ m.id = NextFrame.id
        BY <2>1, <2>3 DEF ServerMessage
    <2>5. \E x \in ServerMessage : /\ x.type = "ActionResponse" /\ x.id = Script[taken + 1].id
                                   /\ down' = Append(down, x)
        BY <2>1, <2>2, <2>3, <2>4
    <2> QED
        BY <1>1, <1>5, <2>1, <2>5 DEF ServeAction, ActsNext
<1>6. CASE ServeLate
    BY <1>1, <1>6 DEF ServeLate, RunsLate, ActsLate, connectionVars
<1>7. CASE RespondMutation
    <2>1. PICK o \in outcomes :
              /\ owed' = owed \ {o.id}
              /\ down' = Append(down, [type |-> "MutationResponse", id |-> o.id, ok |-> o.ok,
                                       ts |-> o.ts])
              /\ UNCHANGED <<vars, sessionVars, taken, srv>>
        BY <1>7 DEF RespondMutation
    <2>2. PICK m : m = [type |-> "MutationResponse", id |-> o.id, ok |-> o.ok, ts |-> o.ts]
        OBVIOUS
    <2>3. m \in ServerMessage
        BY <1>0, <2>1, <2>2 DEF ServerMessage, Outcome
    <2>4. m.type = "MutationResponse" /\ o.id = m.id /\ o.ok = m.ok /\ o.ts = m.ts
        BY <2>2
    <2>5. UNCHANGED <<outcomes, actionRuns, late, taken>> /\ clock' \in Nat /\ clock <= clock'
        BY <1>0, <2>1 DEF sessionVars
    <2>6. owed' \subseteq owed /\ down' = Append(down, m)
        BY <2>1, <2>2
    <2> QED
        BY <1>1, <2>1, <2>3, <2>4, <2>5, <2>6 DEF Tells
<1>8. CASE Transit
    <2>1. PICK ts \in 1..clock : SendTransition(ts)
        BY <1>8 DEF Transit
    <2>2. PICK m : Made(m, ts) /\ down' = Append(down, m)
        BY <2>1, TransitionMade
    <2>3. m \in ServerMessage /\ m.type = "Transition"
        BY <2>2 DEF Made
    <2>4. UNCHANGED <<outcomes, actionRuns, late, taken, owed>> /\ clock' \in Nat /\ clock <= clock'
        BY <1>0, <2>1 DEF SendTransition, sessionVars
    <2> QED
        BY <1>1, <2>2, <2>3, <2>4 DEF Tells
<1>9. CASE OtherCommit
    BY <1>0, <1>1, <1>9 DEF OtherCommit, Tells, connectionVars
<1> QED
    BY <1>1, <1>3, <1>4, <1>5, <1>6, <1>7, <1>8, <1>9 DEF ServerStep, Serve

\* A request more, at the end.
LEMMA AppendAsks ==
    ASSUME NEW t \in Seq(ClientMessage), NEW f \in ClientMessage, NEW k \in 0..Len(t),
           f.type \in {"Mutation", "Action"}
    PROVE  /\ Append(t, f) \in Seq(ClientMessage)
           /\ Asks(Append(t, f), k, f.type) = Asks(t, k, f.type) \cup {f.id}
           /\ f.type = "Mutation" =>
                 \A N \in SUBSET Asks(t, k, "Mutation") :
                    /\ InTurn(t, k, N) /\ f.id \notin Asks(t, k, "Mutation")
                    /\ \A a \in N : a \in Int /\ a < f.id
                    => InTurn(Append(t, f), k, N \cup {f.id})
           /\ f.type = "Action" =>
                 (Once(t, k) /\ f.id \notin Asks(t, k, "Action") => Once(Append(t, f), k))
<1>0. Len(t) \in Nat /\ k \in Int /\ f.id \in Int
    BY LenProperties DEF ClientMessage
<1>1. PICK u \in Seq(ClientMessage) : u = Append(t, f)
    BY AppendProperties
<1>2. PICK n : n = Len(t) + 1
    OBVIOUS
<1>3. /\ Of(u, f.type) = Of(t, f.type) \cup {n} /\ Of(t, f.type) \subseteq 1..Len(t)
      /\ \A i \in Of(t, f.type) : u[i] = t[i]
      /\ u[n] = f
    <2>1. /\ Of(Append(t, f), f.type) =
                 Of(t, f.type) \cup (IF f.type = f.type THEN {Len(t) + 1} ELSE {})
          /\ Of(t, f.type) \subseteq 1..Len(t)
          /\ \A i \in Of(t, f.type) : Append(t, f)[i] = t[i]
          /\ Append(t, f)[Len(t) + 1] = f
        BY OfArrival
    <2> QED
        BY <1>1, <1>2, <2>1
<1> DEFINE T == Waiting(t, k, f.type)
           U == Waiting(u, k, f.type)
<1>4. /\ U = T \cup {n} /\ u[n] = f /\ n \in Int
      /\ \A i \in T : u[i] = t[i] /\ i < n /\ i \in Int
    <2>1. n > k /\ n \in Int
        BY <1>0, <1>2
    <2>2. \A i \in T : i \in Of(t, f.type) /\ i \in 1..Len(t)
        BY <1>3 DEF Waiting
    <2>3. \A i \in T : u[i] = t[i] /\ i < n /\ i \in Int
        BY <1>0, <1>2, <1>3, <2>2
    <2>4. U = T \cup {n}
        BY <1>3, <2>1 DEF Waiting
    <2> QED
        BY <1>3, <2>1, <2>3, <2>4
<1>5. \A id : /\ id \in Asks(u, k, f.type) <=> \E i \in U : u[i].id = id
              /\ id \in Asks(t, k, f.type) <=> \E i \in T : t[i].id = id
    BY AsksMember
<1> HIDE DEF T, U
<1>6. Asks(u, k, f.type) = Asks(t, k, f.type) \cup {f.id}
    <2>1. \A id : id \in Asks(u, k, f.type) <=> id \in Asks(t, k, f.type) \/ id = f.id
        BY <1>4, <1>5
    <2> QED
        BY <2>1
<1>7. ASSUME f.type = "Mutation", NEW N \in SUBSET Asks(t, k, "Mutation"), InTurn(t, k, N),
             f.id \notin Asks(t, k, "Mutation"), \A a \in N : a \in Int /\ a < f.id
      PROVE  InTurn(u, k, N \cup {f.id})
    <2>1. \A i \in T : \A a \in N : t[i].id \in N /\ a < t[i].id => \E j \in T : j < i /\ t[j].id = a
        BY <1>7 DEF InTurn, T
    <2> SUFFICES ASSUME NEW i \in U, NEW a \in N \cup {f.id}, u[i].id \in N \cup {f.id}, a < u[i].id
                 PROVE  \E j \in U : j < i /\ u[j].id = a
        BY <1>7 DEF InTurn, U
    <2>2. \A x \in N \cup {f.id} : x \in Int /\ ~(f.id < x)
        BY <1>0, <1>7
    <2>3. a \in N
        BY <2>2
    <2>4. CASE i = n
        <3>1. PICK j \in T : t[j].id = a
            BY <1>5, <1>7, <2>3
        <3> QED
            BY <1>4, <2>4, <3>1
    <2>5. CASE i \in T
        <3>1. u[i] = t[i]
            BY <1>4, <2>5
        <3>2. t[i].id # f.id
            BY <1>5, <1>7, <2>5
        <3> QED
            BY <1>4, <2>1, <2>3, <2>5, <3>1, <3>2
    <2> QED
        BY <1>4, <2>4, <2>5
<1>8. ASSUME f.type = "Action", Once(t, k), f.id \notin Asks(t, k, "Action")
      PROVE  Once(u, k)
    <2>1. \A i, j \in T : t[i].id = t[j].id => i = j
        BY <1>8 DEF Once, T
    <2>2. \A i \in T : t[i].id # f.id
        BY <1>5, <1>8
    <2>3. \A i, j \in U : u[i].id = u[j].id => i = j
        BY <1>4, <2>1, <2>2
    <2> QED
        BY <1>8, <2>3 DEF Once, U
<1> QED
    BY <1>1, <1>6, <1>7, <1>8

\* Whoever is next comes before everybody who waits.
LEMMA FirstTurn ==
    ASSUME NEW t \in Seq(ClientMessage), NEW k \in Nat, NEW N, InTurn(t, k, N),
           k + 1 \in Waiting(t, k, "Mutation"), t[k + 1].id \in N
    PROVE  \A a \in N : ~(a < t[k + 1].id)
<1> SUFFICES ASSUME NEW a \in N, a < t[k + 1].id PROVE FALSE
    OBVIOUS
<1>1. PICK j \in Waiting(t, k, "Mutation") : j < k + 1 /\ t[j].id = a
    BY DEF InTurn
<1>2. j \in Int /\ j > k
    BY WaitingType
<1> QED
    BY <1>1, <1>2

\* The first of the late requests arrives.
LEMMA LateNext ==
    ASSUME NEW t \in Seq(ClientMessage), t # <<>>
    PROVE  /\ Head(t) = t[1] /\ Tail(t) \in Seq(ClientMessage)
           /\ \A type : 1 \in Waiting(t, 0, type) <=> Head(t).type = type
           /\ \A type : Asks(Tail(t), 0, type) = Asks(t, 1, type)
           /\ \A N : InTurn(t, 1, N) => InTurn(Tail(t), 0, N)
           /\ Once(t, 1) => Once(Tail(t), 0)
<1>1. \A type : Mirror(t, 1, Tail(t), 0, type)
    BY MirrorTail
<1>2. Tail(t) \in Seq(ClientMessage)
    BY MirrorTail
<1>3. \A type : Asks(Tail(t), 0, type) = Asks(t, 1, type)
    BY <1>1, MirrorAsks
<1>4. \A N : InTurn(t, 1, N) => InTurn(Tail(t), 0, N)
    BY <1>1, <1>2, MirrorTurn
<1>5. Once(t, 1) => Once(Tail(t), 0)
    BY <1>1, <1>2, MirrorOnce
<1>6. /\ \A type : 1 \in Of(t, type) <=> Head(t).type = type
      /\ t[1] = Head(t)
    BY OfTail
<1>7. 1 > 0
    OBVIOUS
<1>8. \A type : 1 \in Waiting(t, 0, type) <=> Head(t).type = type
    BY <1>6, <1>7 DEF Waiting
<1> QED
    BY <1>2, <1>3, <1>4, <1>5, <1>6, <1>8

\* The ids of what is ongoing, of actions, and of what is asked.
LEMMA AskedIds ==
    ASSUME ClientInv
    PROVE  /\ nextRequestId \in Nat /\ Asked \subseteq 0..(nextRequestId - 1)
           /\ \A r \in ongoing : r.id \in 0..(nextRequestId - 1)
           /\ Mutations \subseteq 0..(nextRequestId - 1) /\ transmitted \subseteq Asked
<1>1. nextRequestId \in Nat /\ Asked \subseteq 0..(nextRequestId - 1)
    BY DEF ClientInv, TypeOK, WireInv, Asked
<1>2. Ids(ongoing) \subseteq 0..(nextRequestId - 1)
    BY DEF ClientInv, RequestInv, Ledger
<1>3. \A r \in ongoing : r.id \in Ids(ongoing)
    BY IdsMember
<1> QED
    BY <1>1, <1>2, <1>3 DEF Mutations, Asked

\* A request more is a mutation more, or none.
LEMMA AskingMutations ==
    ASSUME ClientInv, NEW kind \in {"Mutation", "Action"}, Asking(kind)
    PROVE  /\ kind = "Mutation" => Mutations' = Mutations \cup {nextRequestId}
           /\ kind = "Action" => Mutations' = Mutations
<1>1. PICK n \in Nat : n = nextRequestId
    BY AskedIds
<1>2. n \notin 0..(n - 1) /\ 0..n = 0..(n - 1) \cup {n} /\ (n + 1) - 1 = n
    OBVIOUS
<1>3. Asked \subseteq 0..(n - 1)
    BY <1>1, AskedIds
<1>4. n \notin Asked
    BY <1>2, <1>3
<1>5. nextRequestId' = n + 1 /\ Asked' = Asked \cup (IF kind = "Action" THEN {n} ELSE {})
    BY <1>1 DEF Asking
<1> QED
    BY <1>1, <1>2, <1>4, <1>5 DEF Mutations

\* Every step keeps the kinds.
LEMMA KindsStep ==
    ASSUME ClientInv, ClientInv', SessionTypes, ServerInv, KindsInv,
           QuietStep \/ Restart \/ Connect \/ ServerStep
    PROVE  KindsInv' /\ Mutations \subseteq Mutations' /\ transmitted \subseteq transmitted'
<1>0. /\ nextRequestId \in Nat /\ Asked \subseteq 0..(nextRequestId - 1)
      /\ \A r \in ongoing : r.id \in 0..(nextRequestId - 1)
      /\ Mutations \subseteq 0..(nextRequestId - 1)
    BY AskedIds
<1>1. PICK t \in Seq(ClientMessage) : t = Script
    BY ScriptType DEF ClientInv
<1>2. /\ nextRequestId <= MaxRequests
      /\ \A r \in ongoing : r.kind = "Action" <=> r.id \in Asked
      /\ ActionIds(sent) \subseteq transmitted
      /\ Asks(t, 0, "Mutation") \subseteq Mutations
      /\ Asks(late, 0, "Mutation") \subseteq Mutations
      /\ Asks(late, 0, "Action") \subseteq transmitted
      /\ Ids(outcomes) \subseteq Mutations /\ owed \subseteq Ids(outcomes)
    BY <1>1 DEF KindsInv
<1>3. MaxRequests \in Nat
    BY BoundsAssumption
<1>4. ASSUME QuietStep
      PROVE  KindsInv' /\ Mutations \subseteq Mutations' /\ transmitted \subseteq transmitted'
    <2>1. /\ transmitted \subseteq transmitted' /\ ActionIds(sent') \subseteq transmitted'
          /\ UNCHANGED <<outcomes, late, owed>>
        BY <1>2, <1>4, QuietAsks
    <2>2. ASSUME Mutations \subseteq Mutations', Asks(Script', 0, "Mutation") \subseteq Mutations',
                 nextRequestId' <= MaxRequests,
                 \A r \in ongoing' : r.kind = "Action" <=> r.id \in Asked'
          PROVE  KindsInv' /\ Mutations \subseteq Mutations' /\ transmitted \subseteq transmitted'
        BY <1>2, <2>1, <2>2 DEF KindsInv
    <2>3. ASSUME NEW kind \in {"Mutation", "Action"}, Asking(kind)
          PROVE  KindsInv' /\ Mutations \subseteq Mutations' /\ transmitted \subseteq transmitted'
        <3>1. PICK n : n = nextRequestId
            OBVIOUS
        <3>2. PICK r, f : /\ r = [id |-> n, kind |-> kind, completed |-> FALSE, ts |-> NoTs]
                          /\ f = [type |-> kind, id |-> n]
            OBVIOUS
        <3>3. /\ n < MaxRequests /\ nextRequestId' = n + 1
              /\ ongoing' = ongoing \cup {r} /\ f \in ClientMessage /\ Script' = Append(t, f)
              /\ Asked' = Asked \cup (IF kind = "Action" THEN {n} ELSE {})
            BY <1>1, <2>3, <3>1, <3>2 DEF Asking
        <3>4. r.id = n /\ r.kind = kind /\ f.type = kind /\ f.id = n
            BY <3>2
        <3>5. n \in Nat /\ n \notin 0..(n - 1) /\ 0..n = 0..(n - 1) \cup {n} /\ (n + 1) - 1 = n
            BY <1>0, <3>1
        <3>6. n \notin Asked /\ \A x \in ongoing : x.id # n
            BY <1>0, <3>1, <3>5
        <3>7. /\ kind = "Mutation" => Mutations' = Mutations \cup {n}
              /\ kind = "Action" => Mutations' = Mutations
            BY <2>3, <3>1, AskingMutations
        <3>8. \A x \in ongoing' : x.kind = "Action" <=> x.id \in Asked'
            BY <1>2, <3>3, <3>4, <3>6
        <3>9. Asks(Script', 0, "Mutation") \subseteq Mutations'
            <4>1. CASE kind = "Mutation"
                <5>1. 0 \in 0..Len(t)
                    BY LenProperties
                <5>2. Asks(Append(t, f), 0, "Mutation") = Asks(t, 0, "Mutation") \cup {n}
                    BY <3>3, <3>4, <4>1, <5>1, AppendAsks
                <5> QED
                    BY <1>2, <3>3, <3>7, <4>1, <5>2
            <4>2. CASE kind = "Action"
                <5>1. Mirror(t, 0, Append(t, f), 0, "Mutation")
                    BY <3>3, <3>4, <4>2, MirrorAppend
                <5>2. Asks(Append(t, f), 0, "Mutation") = Asks(t, 0, "Mutation")
                    BY <5>1, MirrorAsks
                <5> QED
                    BY <1>2, <3>3, <3>7, <4>2, <5>2
            <4> QED
                BY <4>1, <4>2
        <3>10. n + 1 <= MaxRequests
            BY <1>3, <3>3, <3>5
        <3> QED
            BY <2>2, <3>3, <3>7, <3>8, <3>9, <3>10
    <2>4. ASSUME Unasked PROVE Mutations' = Mutations /\ Asks(Script', 0, "Mutation") \subseteq Mutations
        <3>1. Mutations' = Mutations
            BY <2>4 DEF Unasked, Mutations
        <3>2. ASSUME NEW f \in ClientMessage, f.type # "Mutation", Script' = Append(t, f)
              PROVE  Asks(Script', 0, "Mutation") \subseteq Mutations
            <4>1. Mirror(t, 0, Append(t, f), 0, "Mutation")
                BY <3>2, MirrorAppend
            <4>2. Asks(Append(t, f), 0, "Mutation") = Asks(t, 0, "Mutation")
                BY <4>1, MirrorAsks
            <4> QED
                BY <1>2, <3>2, <4>2
        <3> QED
            BY <1>1, <1>2, <2>4, <3>1, <3>2 DEF Unasked
    <2>5. CASE Unasked /\ UNCHANGED <<ongoing, answers, down>>
        BY <1>2, <2>2, <2>4, <2>5 DEF Unasked
    <2>6. CASE Unasked /\ Arrives
        <3>1. \A r \in ongoing' : \E x \in ongoing : x.id = r.id /\ x.kind = r.kind
            BY <2>6, ArrivalAnswers
        <3>2. \A r \in ongoing' : r.kind = "Action" <=> r.id \in Asked'
            BY <1>2, <2>6, <3>1 DEF Unasked
        <3> QED
            BY <1>2, <2>2, <2>4, <2>6, <3>2 DEF Unasked
    <2> QED
        BY <1>2, <1>4, <2>3, <2>5, <2>6, QuietAsks
<1>5. ASSUME Restart
      PROVE  KindsInv' /\ Mutations \subseteq Mutations' /\ transmitted \subseteq transmitted'
    <2>1. PICK token \in Identity : Reconnect(token)
        BY <1>5 DEF Restart
    <2>2. /\ nextRequestId' = nextRequestId /\ Asked' = Asked /\ transmitted' = transmitted
          /\ sent' = <<>> /\ \A r \in ongoing' : r \in ongoing
          /\ \A id : id \in Asks(Script', 0, "Mutation") <=>
                        \E r \in ongoing : r.kind = "Mutation" /\ r.id = id
        BY <2>1, RestartAsks
    <2>3. /\ UNCHANGED outcomes /\ owed' = {}
          /\ \A type \in {"Mutation", "Action"} :
                Asks(late', 0, type) \subseteq Asks(late, 0, type) \cup Asks(t, taken, type)
          /\ Asks(late', 0, "Action") \subseteq Asks(late, 0, "Action") \cup ActionIds(sent)
        BY <1>1, <1>5, AbandonAsks DEF Restart
    <2>4. Mutations' = Mutations
        BY <2>2 DEF Mutations
    <2>5. Asks(t, taken, "Mutation") \subseteq Asks(t, 0, "Mutation")
        <3>1. taken \in Nat
            BY LenProperties DEF SessionTypes, ClientInv, TypeOK
        <3>2. Waiting(t, taken, "Mutation") \subseteq Waiting(t, 0, "Mutation")
            <4>1. Of(t, "Mutation") \subseteq 1..Len(t)
                BY OfFinite
            <4>2. \A i \in Int : i > taken => i > 0
                BY <3>1
            <4> QED
                BY <4>1, <4>2 DEF Waiting
        <3> QED
            BY <3>2, AsksMember
    <2>6. Asks(Script', 0, "Mutation") \subseteq Mutations
        <3> SUFFICES ASSUME NEW r \in ongoing, r.kind = "Mutation" PROVE r.id \in Mutations
            BY <2>2
        <3> QED
            BY <1>0, <1>2 DEF Mutations
    <2>7. ActionIds(sent') = {}
        BY <2>2, NoActionIds
    <2>8. Asks(late', 0, "Mutation") \subseteq Mutations /\ Asks(late', 0, "Action") \subseteq transmitted
        BY <1>2, <2>3, <2>5
    <2> QED
        BY <1>2, <2>2, <2>3, <2>4, <2>6, <2>7, <2>8 DEF KindsInv
<1>6. ASSUME Connect
      PROVE  KindsInv' /\ Mutations \subseteq Mutations' /\ transmitted \subseteq transmitted'
    <2>1. /\ UNCHANGED <<nextRequestId, ongoing, late, outcomes, owed>>
          /\ Asked' = Asked /\ transmitted \subseteq transmitted'
          /\ ActionIds(sent') \subseteq transmitted'
          /\ Mirror(t, 0, Script', 0, "Mutation")
        BY <1>1, <1>6, ConnectAsks DEF sessionVars, connectionVars
    <2>2. Asks(Script', 0, "Mutation") = Asks(t, 0, "Mutation")
        BY <2>1, MirrorAsks
    <2>3. Mutations' = Mutations
        BY <2>1 DEF Mutations
    <2> QED
        BY <1>2, <2>1, <2>2, <2>3 DEF KindsInv
<1>7. ASSUME ServerStep
      PROVE  KindsInv' /\ Mutations \subseteq Mutations' /\ transmitted \subseteq transmitted'
    <2>1. /\ UNCHANGED <<nextRequestId, ongoing, transmitted, sent>> /\ Asked' = Asked
          /\ Script' = t
          /\ Skips \/ RunsNext \/ ActsNext \/ RunsLate \/ ActsLate \/ Tells
        BY <1>1, <1>7, ServerRequests
    <2>2. Mutations' = Mutations
        BY <2>1 DEF Mutations
    <2>3. ASSUME Asks(late', 0, "Mutation") \subseteq Mutations,
                 Asks(late', 0, "Action") \subseteq transmitted,
                 Ids(outcomes') \subseteq Mutations, owed' \subseteq Ids(outcomes')
          PROVE  KindsInv' /\ Mutations \subseteq Mutations' /\ transmitted \subseteq transmitted'
        BY <1>1, <1>2, <2>1, <2>2, <2>3 DEF KindsInv
    <2>4. CASE Skips \/ ActsNext \/ Tells
        <3>1. UNCHANGED <<late, outcomes>> /\ owed' \subseteq owed
            BY <2>4 DEF Skips, ActsNext, Tells
        <3> QED
            BY <1>2, <2>3, <3>1
    <2>5. CASE RunsNext
        <3>1. PICK id : id = t[taken + 1].id
            OBVIOUS
        <3>2. /\ RunMutation(id) /\ owed' = owed \cup {id} /\ UNCHANGED late
              /\ taken + 1 \in Waiting(t, taken, "Mutation")
            BY <1>1, <2>5, <3>1 DEF RunsNext, Reads
        <3>3. id \in Asks(t, 0, "Mutation")
            <4>1. taken + 1 \in Of(t, "Mutation") /\ taken \in Nat
                BY <3>2, LenProperties DEF Waiting, SessionTypes, ClientInv, TypeOK
            <4>2. taken + 1 \in Waiting(t, 0, "Mutation")
                BY <4>1 DEF Waiting
            <4> QED
                BY <3>1, <4>2, AsksMember
        <3>4. Ids(outcomes') = Ids(outcomes) \cup {id}
            BY <3>2, RunOnce
        <3> QED
            BY <1>2, <2>3, <3>2, <3>3, <3>4
    <2>6. CASE RunsLate \/ ActsLate
        <3>1. PICK l \in Seq(ClientMessage) : l = late
            BY LateType
        <3>2. l # <<>> /\ late' = Tail(l)
            BY <2>6, <3>1 DEF RunsLate, ActsLate
        <3>3. /\ \A type : 1 \in Waiting(l, 0, type) <=> Head(l).type = type
              /\ \A type : Asks(late', 0, type) = Asks(l, 1, type)
              /\ Head(l) = l[1]
            BY <3>2, LateNext
        <3>4. \A type : Asks(l, 1, type) \subseteq Asks(l, 0, type)
            <4>1. \A type : Asks(l, 0 + 1, type) \subseteq Asks(l, 0, type)
                BY NextAsks
            <4> QED
                BY <4>1
        <3>5. Ids(outcomes') \subseteq Mutations /\ owed' \subseteq Ids(outcomes')
            <4>1. CASE RunsLate
                <5>1. RunMutation(Head(l).id) /\ Head(l).type = "Mutation" /\ owed' = owed
                    BY <3>1, <4>1 DEF RunsLate
                <5>2. Ids(outcomes') = Ids(outcomes) \cup {Head(l).id}
                    BY <5>1, RunOnce
                <5>3. Head(l).id \in Asks(l, 0, "Mutation")
                    BY <3>3, <5>1, AsksMember
                <5> QED
                    BY <1>2, <3>1, <5>1, <5>2, <5>3
            <4>2. CASE ActsLate
                BY <1>2, <4>2 DEF ActsLate
            <4> QED
                BY <2>6, <4>1, <4>2
        <3> QED
            BY <1>2, <2>3, <3>1, <3>3, <3>4, <3>5
    <2> QED
        BY <2>1, <2>4, <2>5, <2>6
<1> QED
    BY <1>4, <1>5, <1>6, <1>7

-----------------------------------------------------------------------------
(* Actions run once.                                                       *)

\* An action that waits, at the server's end or among the late, waits once and
\* has not run; what ran was on a wire.
RunsInv ==
    /\ actionRuns \in [0..(MaxRequests - 1) -> {0, 1}]
    /\ Once(Script, taken) /\ Once(late, 0)
    /\ \A id \in Asks(Script, taken, "Action") : /\ id \notin Asks(late, 0, "Action")
                                                 /\ actionRuns[id] = 0
    /\ \A id \in Asks(late, 0, "Action") : actionRuns[id] = 0
    /\ \A id \in 0..(MaxRequests - 1) : actionRuns[id] # 0 => id \in transmitted

\* What the server has yet to handle, and what it may find there.
LEMMA WaitingActions ==
    ASSUME ClientInv, SessionTypes, KindsInv
    PROVE  /\ taken \in Nat /\ taken \in 0..Len(Script)
           /\ Asks(Script, taken, "Action") \subseteq Asked
           /\ Asks(Script, taken, "Mutation") \subseteq Mutations
           /\ Asked \subseteq 0..(MaxRequests - 1)
<1>1. PICK s \in Seq(ClientMessage), q \in Seq(ClientMessage) : s = sent /\ q = outgoing
    BY DEF ClientInv, TypeOK
<1>2. PICK t \in Seq(ClientMessage) : t = Script
    BY ScriptType DEF ClientInv
<1>3. t = s \o q
    BY <1>1, <1>2 DEF Script
<1>4. ActionIds(t) = ActionIds(s) \cup ActionIds(q)
    BY <1>3, ActionIdsConcat
<1>5. ActionIds(t) \subseteq Asked
    BY <1>1, <1>4 DEF KindsInv, Asked
<1>6. taken \in 0..Len(s) /\ Len(s) \in Nat /\ Len(t) \in Nat /\ Len(s) <= Len(t)
    BY <1>1, <1>2, LenProperties, SentFirst DEF SessionTypes, ClientInv
<1>7. taken \in Nat /\ taken \in 0..Len(t)
    BY <1>6
<1>8. ASSUME NEW type PROVE Asks(t, taken, type) \subseteq Asks(t, 0, type)
    <2>1. Of(t, type) \subseteq 1..Len(t)
        BY OfFinite
    <2>2. \A i \in Int : i > taken => i > 0
        BY <1>7
    <2>3. Waiting(t, taken, type) \subseteq Waiting(t, 0, type)
        BY <2>1, <2>2 DEF Waiting
    <2> QED
        BY <2>3, AsksMember
<1>9. Asks(t, 0, "Action") \subseteq Asked
    BY <1>5, AsksActions
<1>10. Asked \subseteq 0..(MaxRequests - 1)
    <2>1. PICK n \in Nat : n = nextRequestId
        BY AskedIds
    <2>2. n <= MaxRequests /\ MaxRequests \in Nat
        BY <2>1, BoundsAssumption DEF KindsInv
    <2>3. 0..(n - 1) \subseteq 0..(MaxRequests - 1)
        BY <2>2
    <2> QED
        BY <2>1, <2>3, AskedIds
<1>11. Asks(t, 0, "Mutation") \subseteq Mutations
    BY <1>2 DEF KindsInv
<1> QED
    BY <1>2, <1>7, <1>8, <1>9, <1>10, <1>11

\* Running an action that did not run yet.
LEMMA RunActionOnce ==
    ASSUME actionRuns \in [0..(MaxRequests - 1) -> {0, 1}], NEW id \in 0..(MaxRequests - 1),
           actionRuns[id] = 0, RunAction(id)
    PROVE  /\ actionRuns' \in [0..(MaxRequests - 1) -> {0, 1}] /\ actionRuns'[id] = 1
           /\ \A x \in 0..(MaxRequests - 1) : x = id \/ actionRuns'[x] = actionRuns[x]
BY DEF RunAction

\* Every step keeps this, and an action that ran stays run.
LEMMA RunsStep ==
    ASSUME ClientInv, ClientInv', SessionTypes, SessionTypes', ServerInv, KindsInv, KindsInv', RunsInv,
           QuietStep \/ Restart \/ Connect \/ ServerStep
    PROVE  /\ RunsInv'
           /\ \A id \in 0..(MaxRequests - 1) : actionRuns[id] = 1 => actionRuns'[id] = 1
           /\ ServerStep /\ ActsNext =>
                 Script[taken + 1].id \in transmitted /\ actionRuns'[Script[taken + 1].id] = 1
<1> DEFINE StillRun == \A id \in 0..(MaxRequests - 1) : actionRuns[id] = 1 => actionRuns'[id] = 1
<1>1. PICK t \in Seq(ClientMessage), l \in Seq(ClientMessage) : t = Script /\ l = late
    BY ScriptType, LateType DEF ClientInv
<1>2. PICK k \in Nat : k = taken
    BY WaitingActions
<1>3. /\ k \in 0..Len(t) /\ Asks(t, k, "Action") \subseteq Asked
      /\ Asked \subseteq 0..(MaxRequests - 1)
    BY <1>1, <1>2, WaitingActions
<1>4. /\ actionRuns \in [0..(MaxRequests - 1) -> {0, 1}]
      /\ Once(t, k) /\ Once(l, 0)
      /\ \A id \in Asks(t, k, "Action") : id \notin Asks(l, 0, "Action") /\ actionRuns[id] = 0
      /\ \A id \in Asks(l, 0, "Action") : actionRuns[id] = 0
      /\ \A id \in 0..(MaxRequests - 1) : actionRuns[id] # 0 => id \in transmitted
    BY <1>1, <1>2 DEF RunsInv
<1>5. /\ Asks(l, 0, "Action") \subseteq transmitted /\ ActionIds(sent) \subseteq transmitted
      /\ transmitted \subseteq Asked /\ transmitted \subseteq transmitted'
      /\ ActionIds(outgoing) \cap transmitted = {} /\ ActionIds(outgoing) \subseteq Asked
    BY <1>1, KindsStep DEF KindsInv, Asked, ClientInv, WireInv
<1>6. PICK n \in Nat : n = nextRequestId
    BY AskedIds
<1>7. n \notin Asked /\ n \notin Mutations
    <2>1. Asked \subseteq 0..(n - 1) /\ Mutations \subseteq 0..(n - 1)
        BY <1>6, AskedIds
    <2> QED
        BY <1>6, <2>1
<1>8. CASE QuietStep
    <2>1. UNCHANGED <<actionRuns, late, taken>>
        BY <1>5, <1>8, QuietAsks
    <2>2. ASSUME Once(Script', k), Asks(Script', k, "Action") = Asks(t, k, "Action") PROVE RunsInv'
        BY <1>1, <1>2, <1>4, <1>5, <2>1, <2>2 DEF RunsInv
    <2>3. ASSUME NEW f \in ClientMessage, f.type # "Action", Script' = Append(t, f)
          PROVE  RunsInv'
        <3>1. Mirror(t, k, Append(t, f), k, "Action") /\ Append(t, f) \in Seq(ClientMessage)
            BY <2>3, MirrorAppend, AppendProperties
        <3>2. Asks(Append(t, f), k, "Action") = Asks(t, k, "Action")
            BY <3>1, MirrorAsks
        <3>3. Once(Append(t, f), k)
            BY <1>4, <3>1, MirrorOnce
        <3> QED
            BY <2>2, <2>3, <3>2, <3>3
    <2>4. ASSUME Asking("Mutation") PROVE RunsInv'
        <3>1. PICK f : f = [type |-> "Mutation", id |-> nextRequestId]
            OBVIOUS
        <3>2. f \in ClientMessage /\ f.type = "Mutation" /\ Script' = Append(t, f)
            BY <1>1, <2>4, <3>1 DEF Asking
        <3>3. f.type # "Action"
            BY <3>2
        <3> QED
            BY <2>3, <3>2, <3>3
    <2>5. ASSUME Asking("Action") PROVE RunsInv'
        <3>1. PICK f : f = [type |-> "Action", id |-> n]
            OBVIOUS
        <3>2. f \in ClientMessage /\ Script' = Append(t, f) /\ f.type = "Action" /\ f.id = n
            BY <1>1, <1>6, <2>5, <3>1 DEF Asking
        <3>3. n \notin Asks(t, k, "Action") /\ n \notin Asks(l, 0, "Action")
            BY <1>3, <1>5, <1>7
        <3>4. Asks(Append(t, f), k, "Action") = Asks(t, k, "Action") \cup {n} /\ Once(Append(t, f), k)
            BY <1>3, <1>4, <3>2, <3>3, AppendAsks, SMTT(30)
        <3>5. n \in 0..(MaxRequests - 1)
            BY <1>6, <2>5, BoundsAssumption DEF Asking
        <3>6. actionRuns[n] = 0
            BY <1>4, <1>5, <1>7, <3>5
        <3>7. \A id \in Asks(Script', k, "Action") : id \notin Asks(l, 0, "Action") /\ actionRuns[id] = 0
            BY <1>4, <3>2, <3>3, <3>4, <3>6
        <3>8. Once(Script', k)
            BY <3>2, <3>4
        <3>9. \A id \in 0..(MaxRequests - 1) : actionRuns[id] # 0 => id \in transmitted'
            BY <1>4, <1>5
        <3> QED
            BY <1>1, <1>2, <1>4, <2>1, <3>7, <3>8, <3>9 DEF RunsInv
    <2>6. ASSUME Unasked PROVE RunsInv'
        <3>1. CASE Script' = t
            BY <1>4, <2>2, <3>1
        <3>2. CASE Script' # t
            <4>1. PICK f \in ClientMessage : f.type # "Action" /\ Script' = Append(t, f)
                BY <1>1, <2>6, <3>2 DEF Unasked
            <4> QED
                BY <2>3, <4>1
        <3> QED
            BY <3>1, <3>2
    <2>7. RunsInv'
        BY <1>5, <1>8, <2>4, <2>5, <2>6, QuietAsks
    <2>8. ~ActsNext
        <3>1. k + 1 # k
            OBVIOUS
        <3> QED
            BY <1>2, <2>1, <3>1 DEF ActsNext, Reads
    <2> QED
        BY <1>4, <2>1, <2>7, <2>8
<1>9. CASE Restart
    <2>1. PICK token \in Identity : Reconnect(token)
        BY <1>9 DEF Restart
    <2>2. Once(Script', 0) /\ Asks(Script', 0, "Action") = ActionIds(outgoing)
        BY <2>1, RestartAsks
    <2>3. /\ taken' = 0 /\ UNCHANGED actionRuns
          /\ \A type \in {"Mutation", "Action"} :
                Asks(late', 0, type) \subseteq Asks(l, 0, type) \cup Asks(t, k, type)
          /\ Asks(late', 0, "Action") \subseteq Asks(l, 0, "Action") \cup ActionIds(sent)
          /\ Once(late', 0)
        BY <1>1, <1>2, <1>4, <1>9, AbandonAsks DEF Restart
    <2>4. \A id \in ActionIds(outgoing) :
              id \notin transmitted /\ id \notin Asks(late', 0, "Action") /\ actionRuns[id] = 0
        BY <1>3, <1>4, <1>5, <2>3
    <2>5. \A id \in Asks(late', 0, "Action") : actionRuns[id] = 0
        BY <1>4, <2>3
    <2>6. RunsInv'
        BY <1>4, <1>5, <2>2, <2>3, <2>4, <2>5 DEF RunsInv
    <2>7. ~ActsNext
        <3>1. 0 # k + 1
            OBVIOUS
        <3> QED
            BY <1>2, <2>3, <3>1 DEF ActsNext, Reads
    <2> QED
        BY <1>4, <2>3, <2>6, <2>7
<1>10. CASE Connect
    <2>1. /\ UNCHANGED <<actionRuns, late, taken>> /\ taken = 0
          /\ Script' \in Seq(ClientMessage) /\ Mirror(t, 0, Script', 0, "Action")
        BY <1>1, <1>10, ConnectAsks DEF sessionVars, connectionVars
    <2>2. Asks(Script', 0, "Action") = Asks(t, 0, "Action")
        BY <2>1, MirrorAsks
    <2>3. Once(Script', 0)
        BY <1>2, <1>4, <2>1, MirrorOnce
    <2>4. RunsInv'
        BY <1>1, <1>2, <1>4, <1>5, <2>1, <2>2, <2>3 DEF RunsInv
    <2>5. ~ActsNext
        <3>1. 0 # 0 + 1
            OBVIOUS
        <3> QED
            BY <2>1, <3>1 DEF ActsNext, Reads
    <2> QED
        BY <1>4, <2>1, <2>4, <2>5
<1>11. CASE ServerStep
    <2>1. /\ transmitted' = transmitted /\ Script' = t
          /\ Skips \/ RunsNext \/ ActsNext \/ RunsLate \/ ActsLate \/ Tells
        BY <1>1, <1>11, ServerRequests
    <2>2. /\ Asks(t, k + 1, "Action") \subseteq Asks(t, k, "Action") /\ Once(t, k + 1)
          /\ k + 1 \in Waiting(t, k, "Action") => t[k + 1].id \notin Asks(t, k + 1, "Action")
        BY <1>4, NextAsks
    <2>3. CASE Skips \/ RunsNext
        <3>1. taken' = k + 1 /\ UNCHANGED <<actionRuns, late>>
            BY <1>2, <2>3 DEF Skips, RunsNext, Reads
        <3>2. RunsInv'
            BY <1>1, <1>4, <1>5, <2>1, <2>2, <3>1 DEF RunsInv
        <3>3. ~ActsNext
            <4>1. ASSUME NEW type, k + 1 \in Waiting(t, k, type) PROVE t[k + 1].type = type
                BY <4>1, WaitingType
            <4> QED
                BY <1>1, <1>2, <2>3, <4>1 DEF Skips, RunsNext, ActsNext, Reads
        <3> QED
            BY <1>4, <3>1, <3>2, <3>3
    <2>4. CASE ActsNext
        <3>1. PICK id : id = t[k + 1].id
            OBVIOUS
        <3>2. /\ taken' = k + 1 /\ k + 1 \in Waiting(t, k, "Action") /\ RunAction(id)
              /\ UNCHANGED late
            BY <1>1, <1>2, <2>4, <3>1 DEF ActsNext, Reads
        <3>3. id \in Asks(t, k, "Action") /\ id \notin Asks(t, k + 1, "Action")
            BY <2>2, <3>1, <3>2, AsksMember
        <3>4. id \in 0..(MaxRequests - 1) /\ actionRuns[id] = 0 /\ id \notin Asks(l, 0, "Action")
            BY <1>3, <1>4, <3>3
        <3>5. /\ actionRuns' \in [0..(MaxRequests - 1) -> {0, 1}] /\ actionRuns'[id] = 1
              /\ \A x \in 0..(MaxRequests - 1) : x = id \/ actionRuns'[x] = actionRuns[x]
            BY <1>4, <3>2, <3>4, RunActionOnce
        <3>6. id \in transmitted
            <4>1. PICK s \in Seq(ClientMessage) : s = sent
                BY DEF ClientInv, TypeOK
            <4>2. sent' = s
                BY <1>11, <4>1, ServerRequests
            <4>3. k + 1 \in 0..Len(s) /\ k + 1 > 0 /\ Len(s) \in Nat
                BY <3>2, <4>2, LenProperties DEF SessionTypes
            <4>4. k + 1 \in 1..Len(s) /\ DOMAIN s = 1..Len(s)
                BY <4>3, LenProperties
            <4>5. s[k + 1] = t[k + 1] /\ t[k + 1].type = "Action"
                BY <1>1, <3>2, <4>1, <4>4, SentFirst, WaitingType DEF ClientInv
            <4>6. id \in ActionIds(s)
                BY <3>1, <4>4, <4>5 DEF ActionIds
            <4> QED
                BY <1>5, <4>1, <4>6
        <3>7. \A x \in Asks(t, k + 1, "Action") : x \notin Asks(l, 0, "Action") /\ actionRuns'[x] = 0
            BY <1>3, <1>4, <2>2, <3>3, <3>5
        <3>8. \A x \in Asks(l, 0, "Action") : actionRuns'[x] = 0
            BY <1>3, <1>4, <1>5, <3>4, <3>5
        <3>9. \A x \in 0..(MaxRequests - 1) : actionRuns'[x] # 0 => x \in transmitted
            BY <1>4, <3>5, <3>6
        <3>10. RunsInv'
            BY <1>1, <1>4, <2>1, <2>2, <3>2, <3>5, <3>7, <3>8, <3>9 DEF RunsInv
        <3>11. StillRun
            BY <3>5
        <3> QED
            BY <1>1, <1>2, <3>1, <3>5, <3>6, <3>10, <3>11
    <2>5. CASE RunsLate \/ ActsLate
        <3>1. l # <<>> /\ late' = Tail(l) /\ taken' = k
            BY <1>1, <1>2, <2>5 DEF RunsLate, ActsLate
        <3>2. /\ \A type : 1 \in Waiting(l, 0, type) <=> Head(l).type = type
              /\ Asks(late', 0, "Action") = Asks(l, 1, "Action")
              /\ Once(l, 1) => Once(late', 0)
              /\ Head(l) = l[1]
            BY <3>1, LateNext
        <3>3. /\ Asks(l, 1, "Action") \subseteq Asks(l, 0, "Action") /\ Once(l, 1)
              /\ 1 \in Waiting(l, 0, "Action") => l[1].id \notin Asks(l, 1, "Action")
            <4>1. /\ Asks(l, 0 + 1, "Action") \subseteq Asks(l, 0, "Action") /\ Once(l, 0 + 1)
                  /\ 0 + 1 \in Waiting(l, 0, "Action") => l[0 + 1].id \notin Asks(l, 0 + 1, "Action")
                BY <1>4, NextAsks
            <4>2. 0 + 1 = 1
                OBVIOUS
            <4> QED
                BY <4>1, <4>2
        <3>4. ~ActsNext
            <4>1. k # k + 1
                OBVIOUS
            <4> QED
                BY <1>2, <3>1, <4>1 DEF ActsNext, Reads
        <3>5. CASE RunsLate
            <4>1. UNCHANGED actionRuns
                BY <3>5 DEF RunsLate
            <4>2. \A id \in Asks(t, k, "Action") : id \notin Asks(late', 0, "Action") /\ actionRuns[id] = 0
                BY <1>4, <3>2, <3>3
            <4>3. \A id \in Asks(late', 0, "Action") : actionRuns[id] = 0
                BY <1>4, <3>2, <3>3
            <4>4. RunsInv'
                BY <1>4, <2>1, <3>1, <3>2, <3>3, <4>1, <4>2, <4>3 DEF RunsInv
            <4> QED
                BY <1>4, <3>4, <4>1, <4>4
        <3>6. CASE ActsLate
            <4>1. PICK id : id = l[1].id
                OBVIOUS
            <4>2. RunAction(id) /\ 1 \in Waiting(l, 0, "Action")
                BY <1>1, <3>2, <3>6, <4>1 DEF ActsLate
            <4>3. id \in Asks(l, 0, "Action") /\ id \notin Asks(l, 1, "Action")
                BY <3>3, <4>1, <4>2, AsksMember
            <4>4. /\ id \in transmitted /\ id \in 0..(MaxRequests - 1) /\ actionRuns[id] = 0
                  /\ id \notin Asks(t, k, "Action")
                BY <1>3, <1>4, <1>5, <4>3
            <4>5. /\ actionRuns' \in [0..(MaxRequests - 1) -> {0, 1}] /\ actionRuns'[id] = 1
                  /\ \A x \in 0..(MaxRequests - 1) : x = id \/ actionRuns'[x] = actionRuns[x]
                BY <1>4, <4>2, <4>4, RunActionOnce
            <4>6. \A x \in Asks(t, k, "Action") : x \notin Asks(late', 0, "Action") /\ actionRuns'[x] = 0
                BY <1>3, <1>4, <3>2, <3>3, <4>4, <4>5
            <4>7. \A x \in Asks(late', 0, "Action") : actionRuns'[x] = 0
                BY <1>3, <1>4, <1>5, <3>2, <3>3, <4>3, <4>5
            <4>8. \A x \in 0..(MaxRequests - 1) : actionRuns'[x] # 0 => x \in transmitted
                BY <1>4, <4>4, <4>5
            <4>9. RunsInv'
                BY <1>4, <2>1, <3>1, <3>2, <3>3, <4>5, <4>6, <4>7, <4>8 DEF RunsInv
            <4>10. StillRun
                BY <4>5
            <4> QED
                BY <3>4, <4>9, <4>10
        <3> QED
            BY <2>5, <3>5, <3>6
    <2>6. CASE Tells
        <3>1. UNCHANGED <<actionRuns, late, taken>>
            BY <2>6 DEF Tells
        <3>2. RunsInv'
            BY <1>1, <1>2, <1>4, <2>1, <3>1 DEF RunsInv
        <3>3. ~ActsNext
            <4>1. k # k + 1
                OBVIOUS
            <4> QED
                BY <1>2, <3>1, <4>1 DEF ActsNext, Reads
        <3> QED
            BY <1>4, <3>1, <3>2, <3>3
    <2> QED
        BY <2>1, <2>3, <2>4, <2>5, <2>6
<1> QED
    BY <1>8, <1>9, <1>10, <1>11

-----------------------------------------------------------------------------
(* What is told happened.                                                  *)

\* The mutation ran, with this outcome.
Ran(id, ok, ts) == \E o \in outcomes : o.id = id /\ o.ok = ok /\ o.ts = ts

\* The action was on a wire and ran.
Acted(id) == id \in transmitted /\ actionRuns[id] = 1

\* A response in flight, a success that is held and an answer all tell what
\* happened at the server.
TruthInv ==
    /\ \A o \in outcomes : o.ok = FALSE => o.ts = NoTs
    /\ \A i \in Of(down, "MutationResponse") : Ran(down[i].id, down[i].ok, down[i].ts)
    /\ \A i \in Of(down, "ActionResponse") : Acted(down[i].id)
    /\ \A r \in ongoing : r.completed => Ran(r.id, TRUE, r.ts)
    /\ \A a \in answers : \/ a.outcome = "lost" \/ Acted(a.id)
                          \/ a.outcome = "ok" /\ Ran(a.id, TRUE, a.ts)
                          \/ a.outcome = "error" /\ Ran(a.id, FALSE, a.ts)

\* The oldest message tells what happened.
LEMMA HeadTrue ==
    ASSUME SessionTypes, TruthInv, down # <<>>, NEW m, m = Head(down)
    PROVE  /\ m.type = "MutationResponse" => Ran(m.id, m.ok, m.ts)
           /\ m.type = "ActionResponse" => Acted(m.id)
<1>1. PICK d \in Seq(ServerMessage) : d = down
    BY DEF SessionTypes
<1>2. /\ \A type : 1 \in Of(d, type) <=> m.type = type
      /\ d[1] = m
    BY <1>1, OfTail
<1> QED
    BY <1>1, <1>2 DEF TruthInv

\* Every step keeps what is told true.
LEMMA TruthStep ==
    ASSUME ClientInv, SessionTypes, ServerInv, KindsInv, TruthInv,
           transmitted \subseteq transmitted', Asked \subseteq 0..(MaxRequests - 1),
           \A id \in 0..(MaxRequests - 1) : actionRuns[id] = 1 => actionRuns'[id] = 1,
           ServerStep /\ ActsNext =>
               Script[taken + 1].id \in transmitted /\ actionRuns'[Script[taken + 1].id] = 1,
           QuietStep \/ Restart \/ Connect \/ ServerStep
    PROVE  TruthInv'
<1>1. outcomes \subseteq outcomes' /\ \A o \in outcomes' : o.ok = FALSE => o.ts = NoTs
    <2>1. CASE UNCHANGED outcomes
        BY <2>1 DEF TruthInv
    <2>2. ASSUME NEW id, RunMutation(id)
          PROVE  outcomes \subseteq outcomes' /\ \A o \in outcomes' : o.ok = FALSE => o.ts = NoTs
        BY <2>2, RunOnce DEF TruthInv
    <2>3. UNCHANGED outcomes \/ \E id : RunMutation(id)
        <3>1. CASE QuietStep
            BY <3>1 DEF QuietStep, sessionVars
        <3>2. CASE Restart
            BY <3>2 DEF Restart, Abandon
        <3>3. CASE Connect
            BY <3>3 DEF Connect, sessionVars
        <3>4. CASE ServerStep
            <4>1. Skips \/ RunsNext \/ ActsNext \/ RunsLate \/ ActsLate \/ Tells
                BY <3>4, ServerRequests
            <4> QED
                BY <4>1 DEF Skips, RunsNext, ActsNext, RunsLate, ActsLate, Tells
        <3> QED
            BY <3>1, <3>2, <3>3, <3>4
    <2> QED
        BY <2>1, <2>2, <2>3
<1>2. \A id, ok, ts : Ran(id, ok, ts) => Ran(id, ok, ts)'
    BY <1>1 DEF Ran
<1>3. \A id : Acted(id) => Acted(id)'
    BY DEF Acted, Asked
<1>4. PICK d \in Seq(ServerMessage) : d = down
    BY DEF SessionTypes
<1>5. /\ \A i \in Of(d, "MutationResponse") : Ran(d[i].id, d[i].ok, d[i].ts)'
      /\ \A i \in Of(d, "ActionResponse") : Acted(d[i].id)'
      /\ \A r \in ongoing : r.completed => Ran(r.id, TRUE, r.ts)'
      /\ \A a \in answers : \/ a.outcome = "lost" \/ Acted(a.id)'
                            \/ a.outcome = "ok" /\ Ran(a.id, TRUE, a.ts)'
                            \/ a.outcome = "error" /\ Ran(a.id, FALSE, a.ts)'
    BY <1>2, <1>3, <1>4 DEF TruthInv
<1>e. PICK e : e = down'
    OBVIOUS
<1> DEFINE Down == /\ \A i \in Of(e, "MutationResponse") : Ran(e[i].id, e[i].ok, e[i].ts)'
                   /\ \A i \in Of(e, "ActionResponse") : Acted(e[i].id)'
           Held == \A r \in ongoing' : r.completed => Ran(r.id, TRUE, r.ts)'
           Told == \A a \in answers' : \/ a.outcome = "lost" \/ Acted(a.id)'
                                       \/ a.outcome = "ok" /\ Ran(a.id, TRUE, a.ts)'
                                       \/ a.outcome = "error" /\ Ran(a.id, FALSE, a.ts)'
<1>6. ASSUME down' = down PROVE Down
    BY <1>e, <1>4, <1>5, <1>6
<1>7. ASSUME down' = <<>> PROVE Down
    BY <1>e, <1>7 DEF Of
<1>8. ASSUME d # <<>>, down' = Tail(d) PROVE Down
    <2>1. \A type : \A i \in Of(Tail(d), type) : i + 1 \in Of(d, type) /\ Tail(d)[i] = d[i + 1]
        BY <1>8, OfTail
    <2>2. PICK u : u = Tail(d)
        OBVIOUS
    <2>3. \A type : \A i \in Of(u, type) : i + 1 \in Of(d, type) /\ u[i] = d[i + 1]
        BY <2>1, <2>2
    <2>4. \A i \in Of(u, "MutationResponse") : Ran(u[i].id, u[i].ok, u[i].ts)'
        BY <1>5, <2>3
    <2>5. \A i \in Of(u, "ActionResponse") : Acted(u[i].id)'
        BY <1>5, <2>3
    <2> QED
        BY <1>e, <1>8, <2>2, <2>4, <2>5
<1>9. ASSUME NEW m \in ServerMessage, down' = Append(d, m),
             m.type = "MutationResponse" => Ran(m.id, m.ok, m.ts)',
             m.type = "ActionResponse" => Acted(m.id)'
      PROVE  Down
    <2>1. PICK u : u = Append(d, m)
        OBVIOUS
    <2>2. \A type : \A i \in Of(u, type) : \/ i \in Of(d, type) /\ u[i] = d[i]
                                           \/ u[i] = m /\ m.type = type
        <3> SUFFICES ASSUME NEW type, NEW i \in Of(u, type)
                     PROVE  \/ i \in Of(d, type) /\ u[i] = d[i]
                            \/ u[i] = m /\ m.type = type
            OBVIOUS
        <3>1. /\ Of(u, type) = Of(d, type) \cup (IF m.type = type THEN {Len(d) + 1} ELSE {})
              /\ \A j \in Of(d, type) : u[j] = d[j]
              /\ u[Len(d) + 1] = m
            BY <2>1, OfArrival
        <3>2. CASE m.type = type
            <4>1. i \in Of(d, type) \/ i = Len(d) + 1
                BY <3>1, <3>2
            <4> QED
                BY <3>1, <3>2, <4>1
        <3>3. CASE m.type # type
            <4>1. Of(u, type) = Of(d, type)
                BY <3>1, <3>3
            <4>2. i \in Of(d, type)
                BY <4>1
            <4>3. u[i] = d[i]
                BY <3>1, <4>2
            <4> QED
                BY <4>2, <4>3
        <3> QED
            BY <3>2, <3>3
    <2>3. \A i \in Of(u, "MutationResponse") : Ran(u[i].id, u[i].ok, u[i].ts)'
        BY <1>5, <1>9, <2>2
    <2>4. \A i \in Of(u, "ActionResponse") : Acted(u[i].id)'
        BY <1>5, <1>9, <2>2
    <2> QED
        BY <1>e, <1>9, <2>1, <2>3, <2>4
<1>10. ASSUME Down, Held, Told PROVE TruthInv'
    BY <1>e, <1>1, <1>10 DEF TruthInv, Ran, Acted
<1> HIDE DEF Down, Held, Told
<1>11. ASSUME UNCHANGED ongoing PROVE Held
    BY <1>5, <1>11 DEF Held
<1>12. ASSUME UNCHANGED answers PROVE Told
    BY <1>5, <1>12 DEF Told
<1>13. CASE QuietStep
    <2>1. CASE \E kind \in {"Mutation", "Action"} : Asking(kind)
        <3>1. PICK kind \in {"Mutation", "Action"} : Asking(kind)
            BY <2>1
        <3>2. PICK r : r = [id |-> nextRequestId, kind |-> kind, completed |-> FALSE, ts |-> NoTs]
            OBVIOUS
        <3>3. r.completed = FALSE /\ ongoing' = ongoing \cup {r} /\ UNCHANGED <<answers, down>>
            BY <3>1, <3>2 DEF Asking
        <3>4. Held
            BY <1>5, <3>3 DEF Held
        <3> QED
            BY <1>6, <1>10, <1>12, <3>3, <3>4
    <2>2. CASE UNCHANGED <<ongoing, answers, down>>
        BY <1>6, <1>10, <1>11, <1>12, <2>2
    <2>3. CASE Arrives
        <3>1. PICK m : m = Head(down)
            OBVIOUS
        <3>2. m \in ServerMessage /\ d # <<>> /\ down' = Tail(d)
            BY <1>4, <2>3, <3>1 DEF Arrives
        <3>3. /\ m.type = "MutationResponse" => Ran(m.id, m.ok, m.ts)'
              /\ m.type = "ActionResponse" => Acted(m.id)'
            BY <1>2, <1>3, <1>4, <3>1, <3>2, HeadTrue
        <3>4. m.type = "MutationResponse" => m.ok \in BOOLEAN
            BY <3>2 DEF ServerMessage
        <3>5. /\ m.type = "MutationResponse" /\ m.ok => Ran(m.id, TRUE, m.ts)'
              /\ m.type = "MutationResponse" /\ ~m.ok => Ran(m.id, FALSE, NoTs)'
            <4>1. ASSUME m.type = "MutationResponse", m.ok PROVE Ran(m.id, TRUE, m.ts)'
                <5>1. m.ok = TRUE
                    BY <3>4, <4>1
                <5> QED
                    BY <3>3, <4>1, <5>1
            <4>2. ASSUME m.type = "MutationResponse", ~m.ok PROVE Ran(m.id, FALSE, NoTs)'
                <5>1. m.ok = FALSE
                    BY <3>4, <4>2
                <5>2. PICK o \in outcomes' : o.id = m.id /\ o.ok = FALSE /\ o.ts = m.ts
                    BY <3>3, <4>2, <5>1 DEF Ran
                <5>3. o.ts = NoTs
                    BY <1>1, <5>2
                <5> QED
                    BY <5>2, <5>3 DEF Ran
            <4> QED
                BY <4>1, <4>2
        <3>6. Held
            <4>1. \A r \in ongoing' : r.completed =>
                      \/ r \in ongoing
                      \/ m.type = "MutationResponse" /\ m.ok /\ r.id = m.id /\ r.ts = m.ts
                BY <2>3, <3>1, ArrivalAnswers
            <4>2. ASSUME NEW r \in ongoing', r.completed PROVE Ran(r.id, TRUE, r.ts)'
                <5>1. CASE r \in ongoing
                    BY <1>5, <4>2, <5>1
                <5>2. CASE m.type = "MutationResponse" /\ m.ok /\ r.id = m.id /\ r.ts = m.ts
                    BY <3>5, <5>2
                <5> QED
                    BY <4>1, <4>2, <5>1, <5>2
            <4> QED
                BY <4>2 DEF Held
        <3>7. Told
            <4>1. \A a \in answers' :
                     \/ a \in answers
                     \/ \E x \in ongoing : x.completed /\ a = OkAnswer(x)
                     \/ /\ m.type = "MutationResponse" /\ a.id = m.id
                        /\ \/ m.ok /\ a.outcome = "ok" /\ a.ts = m.ts
                           \/ ~m.ok /\ a.outcome = "error" /\ a.ts = NoTs
                     \/ m.type = "ActionResponse" /\ a.id = m.id
                BY <2>3, <3>1, ArrivalAnswers
            <4>2. ASSUME NEW a \in answers'
                  PROVE  \/ a.outcome = "lost" \/ Acted(a.id)'
                         \/ a.outcome = "ok" /\ Ran(a.id, TRUE, a.ts)'
                         \/ a.outcome = "error" /\ Ran(a.id, FALSE, a.ts)'
                <5>1. CASE a \in answers
                    BY <1>5, <5>1
                <5>2. ASSUME NEW x \in ongoing, x.completed, a = OkAnswer(x)
                      PROVE  a.outcome = "ok" /\ Ran(a.id, TRUE, a.ts)'
                    <6>1. a.id = x.id /\ a.outcome = "ok" /\ a.ts = x.ts
                        BY <5>2 DEF OkAnswer
                    <6> QED
                        BY <1>5, <5>2, <6>1
                <5>3. CASE m.type = "MutationResponse" /\ a.id = m.id /\ m.ok /\ a.outcome = "ok" /\ a.ts = m.ts
                    BY <3>5, <5>3
                <5>4. CASE m.type = "MutationResponse" /\ a.id = m.id /\ ~m.ok /\ a.outcome = "error" /\ a.ts = NoTs
                    BY <3>5, <5>4
                <5>5. CASE m.type = "ActionResponse" /\ a.id = m.id
                    BY <3>3, <5>5
                <5> QED
                    BY <4>1, <5>1, <5>2, <5>3, <5>4, <5>5
            <4> QED
                BY <4>2 DEF Told
        <3> QED
            BY <1>8, <1>10, <3>2, <3>6, <3>7
    <2> QED
        BY <1>13, <2>1, <2>2, <2>3, QuietAsks DEF KindsInv
<1>14. CASE Restart
    <2>1. PICK token \in Identity : Reconnect(token)
        BY <1>14 DEF Restart
    <2>2. \A r \in ongoing' : r \in ongoing
        BY <2>1 DEF Reconnect
    <2>3. \A a \in answers' : a \in answers \/ a.outcome = "lost"
        BY <2>1 DEF Reconnect, Complete
    <2>4. down' = <<>>
        BY <1>14 DEF Restart, Abandon
    <2>5. Held
        BY <1>5, <2>2 DEF Held
    <2>6. Told
        BY <1>5, <2>3 DEF Told
    <2> QED
        BY <1>7, <1>10, <2>4, <2>5, <2>6
<1>15. CASE Connect
    BY <1>6, <1>10, <1>11, <1>12, <1>15, ConnectAsks DEF connectionVars
<1>16. CASE ServerStep
    <2>1. /\ UNCHANGED <<ongoing, answers>>
          /\ Skips \/ RunsNext \/ ActsNext \/ RunsLate \/ ActsLate \/ Tells
        BY <1>16, ServerRequests
    <2>2. Held /\ Told
        BY <1>11, <1>12, <2>1
    <2>3. CASE down' = down
        BY <1>6, <1>10, <2>2, <2>3
    <2>4. CASE ActsNext
        <3>1. PICK m \in ServerMessage : /\ m.type = "ActionResponse" /\ m.id = Script[taken + 1].id
                                         /\ down' = Append(d, m)
            BY <1>4, <2>4 DEF ActsNext
        <3>2. m.id \in transmitted /\ actionRuns'[m.id] = 1
            BY <1>16, <2>4, <3>1
        <3>3. Acted(m.id)'
            BY <3>2 DEF Acted
        <3>4. m.type # "MutationResponse"
            BY <3>1
        <3> QED
            BY <1>9, <1>10, <2>2, <3>1, <3>3, <3>4
    <2>5. CASE Tells /\ down' # down
        <3>1. PICK m \in ServerMessage :
                  /\ down' = Append(d, m)
                  /\ \/ m.type = "Transition"
                     \/ /\ m.type = "MutationResponse"
                        /\ \E o \in outcomes : o.id = m.id /\ o.ok = m.ok /\ o.ts = m.ts
            BY <1>4, <2>5 DEF Tells
        <3>2. m.type = "MutationResponse" => Ran(m.id, m.ok, m.ts)'
            <4>1. ASSUME m.type = "MutationResponse" PROVE Ran(m.id, m.ok, m.ts)
                BY <3>1, <4>1 DEF Ran
            <4> QED
                BY <1>2, <4>1
        <3>3. m.type # "ActionResponse"
            BY <3>1
        <3> QED
            BY <1>9, <1>10, <2>2, <3>1, <3>2, <3>3
    <2> QED
        BY <2>1, <2>3, <2>4, <2>5 DEF Skips, RunsNext, RunsLate, ActsLate
<1> QED
    BY <1>13, <1>14, <1>15, <1>16

-----------------------------------------------------------------------------
(* Mutations commit in the order they were asked for.                      *)

\* What has not run comes after all that has, waits at the server's end of the
\* connection, and there as among the late requests an earlier one is in front
\* of a later one.
OrderInv ==
    /\ \A o \in outcomes : o.ok => o.ts \in 0..clock
    /\ \A o \in outcomes, a \in NotRun : o.id < a
    /\ NotRun \subseteq Ids(ongoing)
    /\ NotRun \subseteq Asks(Script, taken, "Mutation")
    /\ InTurn(late, 0, NotRun)
    /\ InTurn(Script, taken, NotRun)
    /\ CommitOrder

\* A mutation that is the first of those not run may run.
LEMMA RunsInOrder ==
    ASSUME ClientInv, SessionTypes, KindsInv, OrderInv, NEW id \in Mutations, RunMutation(id),
           Mutations' = Mutations,
           id \in NotRun => \A a \in NotRun : ~(a < id)
    PROVE  /\ NotRun' = NotRun \ {id}
           /\ \A o \in outcomes' : o.ok => o.ts \in 0..clock'
           /\ \A o \in outcomes', a \in NotRun' : o.id < a
           /\ CommitOrder'
<1>1. /\ outcomes \subseteq outcomes' /\ Ids(outcomes') = Ids(outcomes) \cup {id}
      /\ clock' \in Nat /\ clock <= clock' /\ clock \in Nat
      /\ \A o \in outcomes' : \/ o \in outcomes
                              \/ /\ o.id = id /\ id \notin Ids(outcomes)
                                 /\ \/ o.ok = TRUE /\ o.ts = clock + 1 /\ clock' = clock + 1
                                    \/ o.ok = FALSE /\ o.ts = NoTs
    BY RunOnce DEF SessionTypes
<1>2. NotRun' = NotRun \ {id}
    BY <1>1 DEF NotRun
<1>3. Mutations \subseteq Nat /\ NotRun \subseteq Nat
    <2>1. Mutations \subseteq 0..(nextRequestId - 1)
        BY AskedIds
    <2>2. \A i : i \in 0..(nextRequestId - 1) => i \in Nat
        BY AskedIds
    <2> QED
        BY <2>1, <2>2 DEF NotRun
<1>4. /\ \A o \in outcomes : o.id \in Nat /\ o.ok \in BOOLEAN
      /\ \A o \in outcomes : o.ok => o.ts \in 0..clock
      /\ \A o \in outcomes, a \in NotRun : o.id < a
      /\ \A a, b \in outcomes : a.ok /\ b.ok /\ a.id < b.id => a.ts < b.ts
    BY DEF OrderInv, CommitOrder, SessionTypes, Outcome
<1>5. \A o \in outcomes' : o.ok => o.ts \in 0..clock'
    <2> SUFFICES ASSUME NEW o \in outcomes', o.ok PROVE o.ts \in 0..clock'
        OBVIOUS
    <2>1. CASE o \in outcomes
        BY <1>1, <1>4, <2>1
    <2>2. CASE o.ok = TRUE /\ o.ts = clock + 1 /\ clock' = clock + 1
        BY <1>1, <2>2
    <2> QED
        BY <1>1, <2>1, <2>2
<1>6. \A o \in outcomes', a \in NotRun' : o.id < a
    <2> SUFFICES ASSUME NEW o \in outcomes', NEW a \in NotRun \ {id} PROVE o.id < a
        BY <1>2
    <2>1. CASE o \in outcomes
        BY <1>4, <2>1
    <2>2. CASE o.id = id /\ id \notin Ids(outcomes)
        <3>1. id \in NotRun /\ a # id /\ a \in Nat /\ id \in Nat
            BY <1>3, <2>2 DEF NotRun
        <3>2. ~(a < id)
            BY <3>1
        <3> QED
            BY <2>2, <3>1, <3>2
    <2> QED
        BY <1>1, <2>1, <2>2
<1>7. ASSUME NEW a \in outcomes', NEW b \in outcomes', a.ok, b.ok, a.id < b.id
      PROVE  a.ts < b.ts
    <2>1. ASSUME NEW o \in outcomes', o.ok, o \notin outcomes
          PROVE  o.id = id /\ id \in NotRun /\ o.ts = clock + 1
        BY <1>1, <2>1 DEF NotRun
    <2>2. CASE a \in outcomes /\ b \in outcomes
        BY <1>4, <1>7, <2>2
    <2>3. CASE a \in outcomes /\ b \notin outcomes
        <3>1. b.ts = clock + 1 /\ a.ts \in 0..clock
            BY <1>4, <1>7, <2>1, <2>3
        <3> QED
            BY <1>1, <3>1
    <2>4. CASE a \notin outcomes /\ b \in outcomes
        <3>1. a.id = id /\ id \in NotRun
            BY <1>7, <2>1, <2>4
        <3>2. b.id < a.id /\ b.id \in Nat /\ a.id \in Nat
            BY <1>3, <1>4, <2>4, <3>1
        <3> QED
            BY <1>7, <3>2
    <2>5. CASE a \notin outcomes /\ b \notin outcomes
        <3>1. a.id = b.id /\ a.id \in Nat
            BY <1>3, <1>7, <2>1, <2>5
        <3> QED
            BY <1>7, <3>1
    <2> QED
        BY <2>2, <2>3, <2>4, <2>5
<1>8. CommitOrder'
    BY <1>7 DEF CommitOrder
<1> QED
    BY <1>2, <1>5, <1>6, <1>8

\* Every step keeps the order.
LEMMA OrderStep ==
    ASSUME ClientInv, ClientInv', SessionTypes, SessionTypes', ServerInv, KindsInv, TruthInv, OrderInv,
           QuietStep \/ Restart \/ Connect \/ ServerStep
    PROVE  OrderInv'
<1>1. PICK t \in Seq(ClientMessage), l \in Seq(ClientMessage) : t = Script /\ l = late
    BY ScriptType, LateType DEF ClientInv
<1>2. PICK k \in Nat : k = taken
    BY WaitingActions
<1>3. k \in 0..Len(t) /\ Asks(t, k, "Mutation") \subseteq Mutations
    BY <1>1, <1>2, WaitingActions
<1>4. PICK n \in Nat : n = nextRequestId
    BY AskedIds
<1>5. /\ Mutations \subseteq 0..(n - 1) /\ transmitted \subseteq Asked
      /\ \A r \in ongoing : r.kind = "Action" <=> r.id \in Asked
      /\ \A r \in ongoing : r.kind = "Action" \/ r.kind = "Mutation"
      /\ Asks(l, 0, "Mutation") \subseteq Mutations /\ Ids(outcomes) \subseteq Mutations
    BY <1>1, <1>4, AskedIds DEF KindsInv, ClientInv, TypeOK, PendingRequest
<1>6. PICK N : N = NotRun
    OBVIOUS
<1>7. /\ \A o \in outcomes : o.ok => o.ts \in 0..clock
      /\ \A o \in outcomes, a \in N : o.id < a
      /\ N \subseteq Ids(ongoing)
      /\ N \subseteq Asks(t, k, "Mutation")
      /\ InTurn(l, 0, N)
      /\ InTurn(t, k, N)
      /\ CommitOrder
    BY <1>1, <1>2, <1>6 DEF OrderInv
<1>8. \A a \in N : a \in Mutations /\ a \in Int /\ a < n /\ a \notin Asked /\ a \notin Ids(outcomes)
    BY <1>5, <1>6 DEF NotRun, Mutations
<1>9. \A o \in outcomes : o.id \in Ids(outcomes) /\ o.id \in Nat
    BY IdsMember DEF SessionTypes, Outcome
<1>10. clock \in Nat
    BY DEF SessionTypes
<1>11. ASSUME UNCHANGED <<outcomes, clock>> PROVE CommitOrder'
    BY <1>7, <1>11 DEF CommitOrder
<1>12. \A a \in N : \E r \in ongoing : r.kind = "Mutation" /\ r.id = a
    <2> SUFFICES ASSUME NEW a \in N PROVE \E r \in ongoing : r.kind = "Mutation" /\ r.id = a
        OBVIOUS
    <2>1. PICK r \in ongoing : a = r.id
        BY <1>7, IdsMember
    <2> QED
        BY <1>5, <1>8, <2>1
<1>13. CASE QuietStep
    <2>1. UNCHANGED <<clock, outcomes, late, taken>>
        BY <1>13, QuietAsks DEF KindsInv
    <2>2. ASSUME NotRun' = N, N \subseteq Ids(ongoing'), InTurn(Script', k, N),
                 N \subseteq Asks(Script', k, "Mutation")
          PROVE  OrderInv'
        BY <1>1, <1>2, <1>7, <1>11, <2>1, <2>2 DEF OrderInv
    <2>3. ASSUME NEW f \in ClientMessage, f.type # "Mutation", Script' = Append(t, f)
          PROVE  InTurn(Script', k, N) /\ N \subseteq Asks(Script', k, "Mutation")
        <3>1. Mirror(t, k, Append(t, f), k, "Mutation") /\ Append(t, f) \in Seq(ClientMessage)
            BY <2>3, MirrorAppend, AppendProperties
        <3>2. Asks(Append(t, f), k, "Mutation") = Asks(t, k, "Mutation")
            BY <3>1, MirrorAsks
        <3>3. InTurn(Append(t, f), k, N)
            BY <1>7, <3>1, MirrorTurn
        <3> QED
            BY <1>7, <2>3, <3>2, <3>3
    <2>4. ASSUME Asking("Mutation") PROVE OrderInv'
        <3>1. PICK f : f = [type |-> "Mutation", id |-> n]
            OBVIOUS
        <3>2. PICK r : r = [id |-> n, kind |-> "Mutation", completed |-> FALSE, ts |-> NoTs]
            OBVIOUS
        <3>3. /\ f \in ClientMessage /\ Script' = Append(t, f) /\ f.type = "Mutation" /\ f.id = n
              /\ ongoing' = ongoing \cup {r} /\ r.id = n
            BY <1>1, <1>4, <2>4, <3>1, <3>2 DEF Asking
        <3>4. n \notin Mutations
            <4>1. n \notin 0..(n - 1)
                OBVIOUS
            <4> QED
                BY <1>5, <4>1
        <3>5. Mutations' = Mutations \cup {n}
            BY <1>4, <2>4, AskingMutations
        <3>6. NotRun' = N \cup {n}
            BY <1>5, <1>6, <2>1, <3>4, <3>5 DEF NotRun
        <3>7. Ids(ongoing') = Ids(ongoing) \cup {n}
            BY <3>3, IdsUnion
        <3>8. /\ Asks(Append(t, f), k, "Mutation") = Asks(t, k, "Mutation") \cup {n}
              /\ InTurn(Append(t, f), k, N \cup {n})
            <4>1. n \notin Asks(t, k, "Mutation") /\ \A a \in N : a \in Int /\ a < n
                BY <1>3, <1>8, <3>4
            <4>2. N \in SUBSET Asks(t, k, "Mutation")
                BY <1>7
            <4>3. Asks(Append(t, f), k, f.type) = Asks(t, k, f.type) \cup {f.id}
                BY <1>3, <3>3, AppendAsks
            <4>4. /\ InTurn(t, k, N) /\ f.id \notin Asks(t, k, "Mutation")
                  /\ \A a \in N : a \in Int /\ a < f.id
                BY <1>7, <3>3, <4>1
            <4>5. InTurn(Append(t, f), k, N \cup {f.id})
                BY <1>3, <3>3, <4>2, <4>4, AppendAsks
            <4> QED
                BY <3>3, <4>3, <4>5
        <3>9. InTurn(l, 0, N \cup {n})
            <4>1. \A i \in Waiting(l, 0, "Mutation") : /\ l[i].id # n /\ ~(n < l[i].id)
                <5> SUFFICES ASSUME NEW i \in Waiting(l, 0, "Mutation")
                             PROVE  l[i].id # n /\ ~(n < l[i].id)
                    OBVIOUS
                <5>1. l[i].id \in Mutations
                    BY <1>5, AsksMember
                <5>2. l[i].id \in 0..(n - 1)
                    BY <1>5, <5>1
                <5> QED
                    BY <5>2
            <4> QED
                BY <1>7, <4>1 DEF InTurn
        <3>10. \A o \in outcomes, a \in N \cup {n} : o.id < a
            <4>1. \A o \in outcomes : o.id \in 0..(n - 1)
                BY <1>5, <1>9
            <4>2. \A o \in outcomes : o.id < n
                BY <4>1
            <4> QED
                BY <1>7, <4>2
        <3>11. N \cup {n} \subseteq Ids(ongoing') /\ N \cup {n} \subseteq Asks(Script', k, "Mutation")
            BY <1>7, <3>3, <3>7, <3>8
        <3>12. InTurn(Script', k, N \cup {n})
            BY <3>3, <3>8
        <3> QED
            BY <1>1, <1>2, <1>7, <1>11, <2>1, <3>6, <3>9, <3>10, <3>11, <3>12 DEF OrderInv
    <2>5. ASSUME Asking("Action") PROVE OrderInv'
        <3>1. PICK f : f = [type |-> "Action", id |-> n]
            OBVIOUS
        <3>2. f \in ClientMessage /\ Script' = Append(t, f) /\ f.type = "Action"
            BY <1>1, <1>4, <2>5, <3>1 DEF Asking
        <3>3. Mutations' = Mutations
            BY <2>5, AskingMutations
        <3>4. NotRun' = N
            BY <1>6, <2>1, <3>3 DEF NotRun
        <3>5. Ids(ongoing) \subseteq Ids(ongoing')
            BY <2>5 DEF Asking, Ids
        <3>6. InTurn(Script', k, N) /\ N \subseteq Asks(Script', k, "Mutation")
            BY <2>3, <3>2
        <3>7. N \subseteq Ids(ongoing')
            BY <1>7, <3>5
        <3> QED
            BY <2>2, <3>4, <3>6, <3>7
    <2>6. ASSUME Unasked
          PROVE  /\ NotRun' = N
                 /\ InTurn(Script', k, N) /\ N \subseteq Asks(Script', k, "Mutation")
        <3>1. NotRun' = N
            BY <1>6, <2>1, <2>6 DEF Unasked, Mutations, NotRun
        <3>2. CASE Script' = t
            BY <1>7, <3>1, <3>2
        <3>3. CASE Script' # t
            <4>1. PICK f \in ClientMessage : f.type # "Mutation" /\ Script' = Append(t, f)
                BY <1>1, <2>6, <3>3 DEF Unasked
            <4> QED
                BY <2>3, <3>1, <4>1
        <3> QED
            BY <3>2, <3>3
    <2>7. ASSUME Unasked, UNCHANGED ongoing PROVE OrderInv'
        BY <1>7, <2>2, <2>6, <2>7
    <2>8. ASSUME Unasked, Arrives PROVE OrderInv'
        <3>1. PICK m : m = Head(down)
            OBVIOUS
        <3>2. /\ m.type = "MutationResponse" => Ran(m.id, m.ok, m.ts)
              /\ m.type = "ActionResponse" => Acted(m.id)
            BY <2>8, <3>1, HeadTrue DEF Arrives
        <3>3. \A id, ok, ts : Ran(id, ok, ts) => id \in Ids(outcomes)
            BY <1>9 DEF Ran
        <3>4. \A x \in ongoing : \/ \E r \in ongoing' : r.id = x.id
                                 \/ x.completed
                                 \/ m.type \in {"MutationResponse", "ActionResponse"} /\ m.id = x.id
            BY <2>8, <3>1, ArrivalAnswers
        <3>5. ASSUME NEW a \in N PROVE a \in Ids(ongoing')
            <4>1. PICK x \in ongoing : x.id = a
                BY <1>12
            <4>2. ~x.completed
                <5>1. x.completed => Ran(x.id, TRUE, x.ts)
                    BY DEF TruthInv
                <5> QED
                    BY <1>8, <3>3, <4>1, <5>1
            <4>3. ~(m.type \in {"MutationResponse", "ActionResponse"} /\ m.id = x.id)
                <5>1. \A id : Acted(id) => id \in Asked
                    BY <1>5 DEF Acted
                <5> QED
                    BY <1>8, <3>2, <3>3, <4>1, <5>1
            <4>4. \E r \in ongoing' : r.id = x.id
                BY <3>4, <4>2, <4>3
            <4> QED
                BY <4>1, <4>4, IdsMember
        <3>6. N \subseteq Ids(ongoing')
            BY <3>5
        <3> QED
            BY <2>2, <2>6, <2>8, <3>6
    <2>9. \/ \E kind \in {"Mutation", "Action"} : Asking(kind)
          \/ Unasked /\ UNCHANGED ongoing
          \/ Unasked /\ Arrives
        BY <1>13, QuietAsks DEF KindsInv
    <2> QED
        BY <2>4, <2>5, <2>7, <2>8, <2>9
<1>14. CASE Restart
    <2>1. PICK token \in Identity : Reconnect(token)
        BY <1>14 DEF Restart
    <2>2. /\ nextRequestId' = nextRequestId /\ Asked' = Asked
          /\ \A r \in ongoing : r.kind = "Mutation" => r \in ongoing'
          /\ \A id : id \in Asks(Script', 0, "Mutation") <=>
                        \E r \in ongoing : r.kind = "Mutation" /\ r.id = id
          /\ InTurn(Script', 0, N)
        BY <1>12, <2>1, RestartAsks
    <2>3. taken' = 0 /\ UNCHANGED <<clock, outcomes>> /\ InTurn(late', 0, N)
        BY <1>1, <1>2, <1>7, <1>14, AbandonAsks DEF Restart
    <2>4. NotRun' = N
        BY <1>6, <2>2, <2>3 DEF NotRun, Mutations
    <2>5. ASSUME NEW a \in N PROVE a \in Ids(ongoing') /\ a \in Asks(Script', 0, "Mutation")
        BY <1>12, <2>2, IdsMember
    <2>6. N \subseteq Ids(ongoing') /\ N \subseteq Asks(Script', 0, "Mutation")
        BY <2>5
    <2> QED
        BY <1>7, <1>11, <2>2, <2>3, <2>4, <2>6 DEF OrderInv
<1>15. CASE Connect
    <2>1. /\ UNCHANGED <<nextRequestId, ongoing, clock, outcomes, late, taken>> /\ Asked' = Asked
          /\ taken = 0 /\ Script' \in Seq(ClientMessage) /\ Mirror(t, 0, Script', 0, "Mutation")
        BY <1>1, <1>15, ConnectAsks DEF sessionVars, connectionVars
    <2>2. NotRun' = N
        BY <1>6, <2>1 DEF NotRun, Mutations
    <2>3. Asks(Script', 0, "Mutation") = Asks(t, 0, "Mutation")
        BY <2>1, MirrorAsks
    <2>4. InTurn(Script', 0, N)
        BY <1>2, <1>7, <2>1, MirrorTurn
    <2>5. N \subseteq Asks(Script', 0, "Mutation")
        BY <1>2, <1>7, <2>1, <2>3
    <2> QED
        BY <1>1, <1>7, <1>11, <2>1, <2>2, <2>4, <2>5 DEF OrderInv
<1>16. CASE ServerStep
    <2>1. /\ UNCHANGED <<nextRequestId, ongoing>> /\ Asked' = Asked /\ Script' = t
          /\ Skips \/ RunsNext \/ ActsNext \/ RunsLate \/ ActsLate \/ Tells
        BY <1>1, <1>16, ServerRequests
    <2>2. Mutations' = Mutations
        BY <2>1 DEF Mutations
    <2>3. ASSUME UNCHANGED <<outcomes, clock>> PROVE NotRun' = N
        BY <1>6, <2>2, <2>3 DEF NotRun
    <2>4. ASSUME NEW type, type # "Mutation", k + 1 \in Waiting(t, k, type)
          PROVE  InTurn(t, k + 1, N) /\ N \subseteq Asks(t, k + 1, "Mutation")
        <3>1. k + 1 \notin Waiting(t, k, "Mutation")
            BY <2>4, WaitingType
        <3>2. InTurn(t, k + 1, N)
            BY <1>7, <3>1, NextTurn
        <3>3. \A id : id \in Asks(t, k, "Mutation") => id \in Asks(t, k + 1, "Mutation")
            BY <3>1, NextAsks
        <3> QED
            BY <1>7, <3>2, <3>3
    <2>5. CASE Skips \/ ActsNext
        <3>1. PICK type : type # "Mutation" /\ k + 1 \in Waiting(t, k, type)
            BY <1>1, <1>2, <2>5 DEF Skips, ActsNext, Reads
        <3>2. UNCHANGED <<clock, outcomes, late>> /\ taken' = k + 1
            BY <1>2, <2>5 DEF Skips, ActsNext, Reads
        <3>3. InTurn(t, k + 1, N) /\ N \subseteq Asks(t, k + 1, "Mutation")
            BY <2>4, <3>1
        <3> QED
            BY <1>1, <1>7, <1>11, <2>1, <2>3, <3>2, <3>3 DEF OrderInv
    <2>6. CASE RunsNext
        <3>1. PICK id : id = t[k + 1].id
            OBVIOUS
        <3>2. /\ taken' = k + 1 /\ k + 1 \in Waiting(t, k, "Mutation") /\ RunMutation(id)
              /\ UNCHANGED late
            BY <1>1, <1>2, <2>6, <3>1 DEF RunsNext, Reads
        <3>3. id \in Mutations
            BY <1>3, <3>1, <3>2, AsksMember
        <3>4. id \in N => \A a \in N : ~(a < id)
            BY <1>7, <3>1, <3>2, FirstTurn
        <3>5. /\ NotRun' = N \ {id}
              /\ \A o \in outcomes' : o.ok => o.ts \in 0..clock'
              /\ \A o \in outcomes', a \in NotRun' : o.id < a
              /\ CommitOrder'
            BY <1>6, <2>2, <3>2, <3>3, <3>4, RunsInOrder
        <3>6. N \ {id} \in SUBSET N
            OBVIOUS
        <3>7. InTurn(t, k + 1, N \ {id}) /\ InTurn(l, 0, N \ {id})
            BY <1>7, <3>1, <3>6, NextTurn, FewerTurns
        <3>8. N \ {id} \subseteq Asks(t, k + 1, "Mutation")
            BY <1>7, <3>1, NextAsks
        <3>9. N \ {id} \subseteq Ids(ongoing)
            BY <1>7
        <3> QED
            BY <1>1, <2>1, <3>2, <3>5, <3>7, <3>8, <3>9 DEF OrderInv
    <2>7. CASE RunsLate \/ ActsLate
        <3>1. l # <<>> /\ late' = Tail(l) /\ taken' = k
            BY <1>1, <1>2, <2>7 DEF RunsLate, ActsLate
        <3>2. /\ \A type : 1 \in Waiting(l, 0, type) <=> Head(l).type = type
              /\ \A M : InTurn(l, 1, M) => InTurn(late', 0, M)
              /\ Head(l) = l[1]
            BY <3>1, LateNext
        <3>3. 0 + 1 = 1 /\ 0 \in Nat
            OBVIOUS
        <3>4. CASE RunsLate
            <4>1. PICK id : id = l[1].id
                OBVIOUS
            <4>2. RunMutation(id) /\ 1 \in Waiting(l, 0, "Mutation")
                BY <1>1, <3>2, <3>4, <4>1 DEF RunsLate
            <4>3. id \in Mutations
                BY <1>5, <4>1, <4>2, AsksMember
            <4>4. id \in N => \A a \in N : ~(a < id)
                BY <1>7, <3>3, <4>1, <4>2, FirstTurn
            <4>5. /\ NotRun' = N \ {id}
                  /\ \A o \in outcomes' : o.ok => o.ts \in 0..clock'
                  /\ \A o \in outcomes', a \in NotRun' : o.id < a
                  /\ CommitOrder'
                BY <1>6, <2>2, <4>2, <4>3, <4>4, RunsInOrder
            <4>6. N \ {id} \in SUBSET N
                OBVIOUS
            <4>7. InTurn(l, 0 + 1, N \ {id})
                <5>1. 0 + 1 \in Waiting(l, 0, "Mutation") => l[0 + 1].id \notin N \ {id}
                    BY <3>3, <4>1
                <5> QED
                    BY <1>7, <3>3, <4>6, <5>1, NextTurn
            <4>8. InTurn(late', 0, N \ {id})
                BY <3>2, <3>3, <4>7
            <4>9. InTurn(t, k, N \ {id})
                BY <1>7, <4>6, FewerTurns
            <4>10. N \ {id} \subseteq Ids(ongoing) /\ N \ {id} \subseteq Asks(t, k, "Mutation")
                BY <1>7
            <4> QED
                BY <2>1, <3>1, <4>5, <4>8, <4>9, <4>10 DEF OrderInv
        <3>5. CASE ActsLate
            <4>1. UNCHANGED <<clock, outcomes>> /\ 1 \notin Waiting(l, 0, "Mutation")
                BY <1>1, <3>2, <3>5 DEF ActsLate
            <4>2. InTurn(l, 0 + 1, N)
                <5>1. N \in SUBSET N /\ 0 + 1 \notin Waiting(l, 0, "Mutation")
                    BY <3>3, <4>1
                <5> QED
                    BY <1>7, <3>3, <5>1, NextTurn
            <4>3. InTurn(late', 0, N)
                BY <3>2, <3>3, <4>2
            <4> QED
                BY <1>7, <1>11, <2>1, <2>3, <3>1, <4>1, <4>3 DEF OrderInv
        <3> QED
            BY <2>7, <3>4, <3>5
    <2>8. CASE Tells
        <3>1. UNCHANGED <<outcomes, late, taken>> /\ clock' \in Nat /\ clock <= clock'
            BY <2>8 DEF Tells
        <3>2. NotRun' = N
            BY <1>6, <2>2, <3>1 DEF NotRun
        <3>3. \A o \in outcomes' : o.ok => o.ts \in 0..clock'
            BY <1>7, <1>10, <3>1
        <3>4. CommitOrder'
            BY <1>7, <3>1 DEF CommitOrder
        <3> QED
            BY <1>1, <1>2, <1>7, <2>1, <3>1, <3>2, <3>3, <3>4 DEF OrderInv
    <2> QED
        BY <2>1, <2>5, <2>6, <2>7, <2>8
<1> QED
    BY <1>13, <1>14, <1>15, <1>16

-----------------------------------------------------------------------------
(* The invariants together.                                                *)

\* The inductive invariant behind CommitOrder and AnswersTrue.
RequestsInv == VersionsInv /\ KindsInv /\ RunsInv /\ TruthInv /\ OrderInv

\* It holds when the session begins.
LEMMA RequestsInit == SessionInit => RequestsInv
<1> SUFFICES ASSUME SessionInit PROVE RequestsInv
    OBVIOUS
<1>1. VersionsInv
    BY VersionsInit
<1>2. /\ outcomes = {} /\ late = <<>> /\ owed = {} /\ down = <<>> /\ taken = 0
      /\ actionRuns = [id \in 0..(MaxRequests - 1) |-> 0]
    BY DEF SessionInit
<1>3. /\ sent = <<>> /\ outgoing = <<>> /\ nextRequestId = 0 /\ ongoing = {} /\ answers = {}
      /\ transmitted = {}
    BY DEF SessionInit, Init
<1>4. Script = <<>>
    BY <1>3 DEF Script
<1>5. \A type : Waiting(<<>>, 0, type) = {} /\ Of(<<>>, type) = {}
    BY DEF Waiting, Of
<1>6. /\ \A type : Asks(<<>>, 0, type) = {}
      /\ \A N : InTurn(<<>>, 0, N)
      /\ Once(<<>>, 0)
    BY <1>5 DEF Asks, InTurn, Once
<1>7. Ids({}) = {}
    BY IdsMember
<1>8. KindsInv
    BY <1>2, <1>3, <1>4, <1>6, <1>7, NoActionIds, BoundsAssumption DEF KindsInv
<1>9. RunsInv
    BY <1>2, <1>4, <1>6 DEF RunsInv
<1>10. TruthInv
    BY <1>2, <1>3, <1>5 DEF TruthInv
<1>11. NotRun = {}
    <2>1. 0..(0 - 1) = {}
        OBVIOUS
    <2> QED
        BY <1>3, <2>1 DEF NotRun, Mutations
<1>12. OrderInv
    BY <1>2, <1>4, <1>6, <1>11 DEF OrderInv, CommitOrder
<1> QED
    BY <1>1, <1>8, <1>9, <1>10, <1>12 DEF RequestsInv

\* Every step of the session keeps it.
LEMMA RequestsStep ==
    ASSUME RequestsInv, [SessionNext]_allVars
    PROVE  RequestsInv'
<1>1. ClientInv /\ SessionTypes /\ ServerInv /\ KindsInv /\ RunsInv /\ TruthInv /\ OrderInv
    BY DEF RequestsInv, VersionsInv
<1>2. VersionsInv' /\ ClientInv' /\ SessionTypes'
    BY VersionsStep DEF RequestsInv, VersionsInv
<1>3. QuietStep \/ Restart \/ Connect \/ ServerStep
    BY <1>1, StepClasses
<1>4. KindsInv' /\ transmitted \subseteq transmitted'
    BY <1>1, <1>2, <1>3, KindsStep
<1>5. /\ RunsInv'
      /\ \A id \in 0..(MaxRequests - 1) : actionRuns[id] = 1 => actionRuns'[id] = 1
      /\ ServerStep /\ ActsNext =>
            Script[taken + 1].id \in transmitted /\ actionRuns'[Script[taken + 1].id] = 1
    BY <1>1, <1>2, <1>3, <1>4, RunsStep
<1>6. Asked \subseteq 0..(MaxRequests - 1)
    BY <1>1, WaitingActions
<1>7. TruthInv'
    BY <1>1, <1>3, <1>4, <1>5, <1>6, TruthStep
<1>8. OrderInv'
    BY <1>1, <1>2, <1>3, OrderStep
<1> QED
    BY <1>2, <1>4, <1>5, <1>7, <1>8 DEF RequestsInv

\* It is an invariant of the session.
LEMMA RequestsTrue == SessionSpec => []RequestsInv
<1>1. RequestsInv /\ [SessionNext]_allVars => RequestsInv'
    BY RequestsStep
<1> QED
    BY <1>1, RequestsInit, PTL DEF SessionSpec

\* Mutations commit in the order they were requested, however often they are
\* sent again and whatever a lost connection still delivers.
THEOREM CommitsInOrder == SessionSpec => []CommitOrder
<1>1. RequestsInv => CommitOrder
    BY DEF RequestsInv, OrderInv
<1> QED
    BY <1>1, RequestsTrue, PTL

\* A caller hears what happened at the server: a mutation's own outcome, one
\* run of an action, or that an action's connection was lost.
THEOREM AnswersHappened == SessionSpec => []AnswersTrue
<1>1. ASSUME RequestsInv PROVE AnswersTrue
    <2>1. /\ \A a \in answers : \/ a.outcome = "lost" \/ Acted(a.id)
                                \/ a.outcome = "ok" /\ Ran(a.id, TRUE, a.ts)
                                \/ a.outcome = "error" /\ Ran(a.id, FALSE, a.ts)
          /\ Ids(outcomes) \subseteq Mutations
          /\ LostOnlyIfSent
        BY <1>1 DEF RequestsInv, TruthInv, KindsInv, VersionsInv, ClientInv, WireInv
    <2> SUFFICES ASSUME NEW a \in answers
                 PROVE  IF a.outcome = "lost" THEN a.id \notin Ids(outcomes)
                        ELSE \/ actionRuns[a.id] = 1
                             \/ \E o \in outcomes :
                                   /\ o.id = a.id /\ o.ts = a.ts
                                   /\ a.outcome = (IF o.ok THEN "ok" ELSE "error")
        BY DEF AnswersTrue
    <2>2. CASE a.outcome = "lost"
        <3>1. a.id \in transmitted
            BY <2>1, <2>2 DEF LostOnlyIfSent
        <3>2. a.id \notin Mutations
            BY <3>1 DEF Mutations, Asked
        <3> QED
            BY <2>1, <2>2, <3>2
    <2>3. CASE a.outcome # "lost"
        BY <2>1, <2>3 DEF Acted, Ran
    <2> QED
        BY <2>2, <2>3
<1> QED
    BY <1>1, RequestsTrue, PTL
=============================================================================
