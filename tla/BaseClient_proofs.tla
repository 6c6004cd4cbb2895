-------------------------- MODULE BaseClient_proofs --------------------------
(***************************************************************************)
(* What holds of BaseClient for every value of its constants: any number   *)
(* of queries and requests, and any server.                                *)
(***************************************************************************)
EXTENDS BaseClient, TLAPS, SequenceTheorems, FiniteSetTheorems, FunctionTheorems,
        WellFoundedInduction

\* A critical section with any server at all.
AnyNext ==
    \/ User
    \/ Open
    \/ \E token \in Identity : Disconnect(token)
    \/ \E m \in ServerMessage : Receive(m)

\* The server of ServerMessages is one of them.
LEMMA NextIsAny == [Next]_vars => [AnyNext]_vars
BY MessagesAssumption DEF Next, Network, AnyNext

-----------------------------------------------------------------------------
(* Frames and the outgoing queue.                                          *)

\* The ids of the actions among well-formed frames are request ids.
LEMMA ActionIdsType ==
    ASSUME NEW frames \in Seq(ClientMessage)
    PROVE  ActionIds(frames) \subseteq RequestId
<1> SUFFICES ASSUME NEW i \in DOMAIN frames, frames[i].type = "Action"
             PROVE  frames[i].id \in RequestId
    BY DEF ActionIds
<1>1. frames[i] \in ClientMessage
    BY ElementOfSeq, LenProperties
<1> QED
    BY <1>1 DEF ClientMessage

\* drain_outgoing() keeps the queue and the wire well-formed.
LEMMA DrainType ==
    ASSUME NEW queue \in Seq(ClientMessage),
           sent \in Seq(ClientMessage), transmitted \subseteq RequestId, Drain(queue)
    PROVE  /\ outgoing' \in Seq(ClientMessage)
           /\ sent' \in Seq(ClientMessage)
           /\ transmitted' \subseteq RequestId
<1>1. CASE linked
    <2>1. sent \o queue \in Seq(ClientMessage)
        BY ConcatProperties
    <2>2. <<>> \in Seq(ClientMessage)
        BY EmptySeq
    <2> QED
        BY <1>1, <2>1, <2>2, ActionIdsType DEF Drain
<1>2. CASE ~linked
    BY <1>2 DEF Drain
<1> QED
    BY <1>1, <1>2

\* The frames the client builds are well-formed.
LEMMA FramesType ==
    /\ \A base \in Nat, adds \in SUBSET QueryAdd, removes \in SUBSET QueryId :
          ModifyQuerySet(base, adds, removes) \in ClientMessage
    /\ \A base \in Nat, token \in Identity : Authenticate(base, token) \in ClientMessage
    /\ \A r \in PendingRequest : OriginalMessage(r) \in ClientMessage
    /\ \A q \in LocalQuery : AddOf(q) \in QueryAdd
BY DEF ModifyQuerySet, Authenticate, OriginalMessage, AddOf, ClientMessage, PendingRequest,
       LocalQuery, QueryAdd, QueryId, RequestId

\* A nonempty set of positions of a sequence has a largest element.
LEMMA MaxOfPositions ==
    ASSUME NEW n \in Nat, NEW S \in SUBSET (1..n), S # {}
    PROVE  Max(S) \in S
<1> DEFINE T == {n - i : i \in S}
<1>1. T \subseteq Nat /\ T # {}
    <2>1. \A i \in S : i \in 1..n /\ n - i \in Nat
        OBVIOUS
    <2>2. PICK i \in S : TRUE
        OBVIOUS
    <2>3. n - i \in T
        OBVIOUS
    <2> QED
        BY <2>1, <2>3
<1>2. PICK x \in T : \A y \in T : ~ (<<y, x>> \in OpToRel(<, Nat))
    BY <1>1, NatLessThanWellFounded, WFMin
<1>3. \A y \in T : ~ (y < x)
    BY <1>1, <1>2 DEF OpToRel
<1>4. PICK i \in S : x = n - i
    BY <1>2
<1>5. \A j \in S : i >= j
    <2> TAKE j \in S
    <2>1. n - j \in T
        OBVIOUS
    <2> QED
        BY <2>1, <1>3, <1>4
<1> QED
    BY <1>5 DEF Max

-----------------------------------------------------------------------------
(* Type correctness.                                                       *)

USE DEF QueryId, RequestId, Timestamp, Snapshot, Journal

\* Snapshots handed out of well-typed results to well-typed subscriptions.
LEMMA HandedType ==
    ASSUME NEW s \in Subscription, NEW set \in SUBSET [id : QueryId, at : Snapshot]
    PROVE  Handed(s, set) \subseteq [query : QueryId, index : Nat, at : Snapshot]
BY DEF Handed, Subscription

\* Completing well-typed answers.
LEMMA CompleteType ==
    ASSUME NEW done \in SUBSET Answer, pending \subseteq RequestId, answers \subseteq Answer,
           Complete(done)
    PROVE  pending' \subseteq RequestId /\ answers' \subseteq Answer
BY DEF Complete

\* What a Transition brings is well-typed.
LEMMA ModificationsType ==
    ASSUME NEW mods \in Seq(Modification), TypeOK
    PROVE  /\ NewResults(mods) \subseteq [id : QueryId, at : Snapshot]
           /\ ResultsAfter(mods) \subseteq [id : QueryId, at : Snapshot]
           /\ JournalsAfter(mods) \subseteq LocalQuery
           /\ ViewsAfter(mods) \subseteq [query : QueryId, index : Nat, at : Snapshot]
<1>1. \A i \in DOMAIN mods : mods[i] \in Modification
    BY ElementOfSeq, LenProperties
<1>2. NewResults(mods) \subseteq [id : QueryId, at : Snapshot]
    BY <1>1 DEF NewResults, Modification
<1>3. ResultsAfter(mods) \subseteq [id : QueryId, at : Snapshot]
    BY <1>2 DEF ResultsAfter, TypeOK
<1>4. JournalsAfter(mods) \subseteq LocalQuery
    <2> SUFFICES ASSUME NEW q \in querySet
                 PROVE  JournalOf(q, mods) \in Journal \cup {NoJournal}
        BY SMTT(30) DEF JournalsAfter, LocalQuery, TypeOK
    <2> DEFINE about == {i \in DOMAIN mods : mods[i].type = "Result" /\ mods[i].id = q.id}
    <2>1. CASE about = {}
        BY <2>1 DEF JournalOf, LocalQuery, TypeOK
    <2>2. CASE about # {}
        <3>1. DOMAIN mods = 1..Len(mods) /\ Len(mods) \in Nat
            BY LenProperties
        <3>2. Max(about) \in about
            BY <2>2, <3>1, MaxOfPositions
        <3> QED
            BY <2>2, <3>2, <1>1 DEF JournalOf, Modification
    <2> QED
        BY <2>1, <2>2
<1>5. ViewsAfter(mods) \subseteq [query : QueryId, index : Nat, at : Snapshot]
    BY <1>2, HandedType DEF ViewsAfter, TypeOK
<1> QED
    BY <1>2, <1>3, <1>4, <1>5

\* Answers made of ongoing requests are well-typed.
LEMMA DeliverableType ==
    ASSUME NEW requests \in SUBSET PendingRequest, NEW watermark
    PROVE  {OkAnswer(r) : r \in Deliverable(requests, watermark)} \subseteq Answer
BY DEF Deliverable, OkAnswer, Answer, PendingRequest

\* What restart() leaves in the queue is well-formed.
LEMMA RestoredPartsType ==
    ASSUME TypeOK, NEW token \in Identity, NEW ids \in SUBSET Ids(ongoing),
           NEW s \in Ascending(ids)
    PROVE  /\ AuthenticateFirst(token) \in Seq(ClientMessage)
           /\ RestoreQueries \in Seq(ClientMessage)
           /\ Resend(s) \in Seq(ClientMessage)
<1>1. AuthenticateFirst(token) \in Seq(ClientMessage)
    <2>1. Authenticate(0, token) \in ClientMessage
        BY FramesType
    <2> QED
        BY <2>1, EmptySeq DEF AuthenticateFirst
<1>2. RestoreQueries \in Seq(ClientMessage)
    <2>1. ModifyQuerySet(0, {AddOf(q) : q \in querySet}, {}) \in ClientMessage
        BY FramesType DEF TypeOK
    <2> QED
        BY <2>1, EmptySeq DEF RestoreQueries
<1>3. Resend(s) \in Seq(ClientMessage)
    <2>1. PICK n \in 0..nextRequestId : s \in [1..n -> ids]
        BY DEF Ascending
    <2>2. n \in Nat /\ DOMAIN s = 1..n
        BY <2>1 DEF TypeOK
    <2>3. ASSUME NEW i \in 1..n PROVE [type |-> KindOf(s[i]), id |-> s[i]] \in ClientMessage
        <3>1. PICK r \in ongoing : r.id = s[i]
            BY <2>1 DEF Ids
        <3>2. \E x \in ongoing : x.id = s[i] /\ KindOf(s[i]) = x.kind
            BY <3>1 DEF KindOf
        <3> QED
            BY <3>2 DEF ClientMessage, TypeOK, PendingRequest
    <2>4. Resend(s) = [i \in 1..n |-> [type |-> KindOf(s[i]), id |-> s[i]]]
        BY <2>2 DEF Resend
    <2> QED
        BY <2>2, <2>3, <2>4, IsASeq
<1> QED
    BY <1>1, <1>2, <1>3

\* What restart() leaves in the queue, put together, is well-formed.
LEMMA RestoredType ==
    ASSUME TypeOK, NEW token \in Identity, NEW ids \in SUBSET Ids(ongoing),
           NEW s \in Ascending(ids)
    PROVE  AuthenticateFirst(token) \o RestoreQueries \o Resend(s) \in Seq(ClientMessage)
BY RestoredPartsType, ConcatProperties

\* A restart keeps every variable well-typed.
LEMMA ReconnectType ==
    ASSUME TypeOK, NEW token \in Identity, Reconnect(token)
    PROVE  TypeOK'
<1> DEFINE lost == LostActions(outgoing)
<1>1. pending' \subseteq RequestId /\ answers' \subseteq Answer
    <2>1. {[id |-> r.id, outcome |-> "lost", ts |-> NoTs] : r \in lost} \in SUBSET Answer
        BY DEF LostActions, Answer, TypeOK, PendingRequest
    <2> QED
        BY <2>1, CompleteType DEF Reconnect, TypeOK
<1>2. outgoing' \in Seq(ClientMessage)
    <2>1. Ids(ongoing \ lost) \subseteq Ids(ongoing)
        BY DEF Ids
    <2> QED
        BY <2>1, RestoredType DEF Reconnect
<1>3. sent' \in Seq(ClientMessage) /\ transmitted' \subseteq RequestId
    BY EmptySeq DEF Reconnect, TypeOK
<1>4. ongoing' \subseteq PendingRequest
    BY DEF Reconnect, TypeOK
<1>5. outstanding' \subseteq QueryId
    BY DEF Reconnect, TypeOK, Ids, LocalQuery
<1>6. remoteVersion' \in StateVersion
    BY DEF Reconnect, RemoteAfterRestart, InitialVersion, StateVersion
<1> QED
    BY <1>1, <1>2, <1>3, <1>4, <1>5, <1>6 DEF Reconnect, TypeOK

\* Every critical section keeps every variable well-typed.
LEMMA TypeStep ==
    ASSUME TypeOK, [AnyNext]_vars
    PROVE  TypeOK'
<1> USE DEF TypeOK
<1>1. ASSUME NEW q \in querySet, SubscribeShared(q) PROVE TypeOK'
    <2> DEFINE s == [query |-> q.id, index |-> nextIndex]
    <2>1. s \in Subscription /\ Joined(q) \in LocalQuery
        BY SMTT(30) DEF Subscription, LocalQuery, Joined
    <2>2. CachedView(s) \subseteq [query : QueryId, index : Nat, at : Snapshot]
        BY <2>1, HandedType DEF CachedView
    <2> QED
        BY <1>1, <2>1, <2>2, DrainType
        DEF SubscribeShared, requestVars, identityVars, linkVars
<1>2. ASSUME NEW token \in Tokens, SubscribeNew(token) PROVE TypeOK'
    <2> DEFINE q == [id |-> nextQueryId, token |-> token, num |-> 1, journal |-> NoJournal]
               s == [query |-> q.id, index |-> nextIndex]
               m == ModifyQuerySet(querySetVersion, {AddOf(q)}, {})
    <2>1. s \in Subscription /\ q \in LocalQuery
        BY DEF Subscription, LocalQuery
    <2>2. CachedView(s) \subseteq [query : QueryId, index : Nat, at : Snapshot]
        BY <2>1, HandedType DEF CachedView
    <2>3. Append(outgoing, m) \in Seq(ClientMessage)
        BY <2>1, FramesType, AppendProperties
    <2>4. Drain(Append(outgoing, m))
        BY <1>2 DEF SubscribeNew
    <2>5. outgoing' \in Seq(ClientMessage) /\ sent' \in Seq(ClientMessage)
              /\ transmitted' \subseteq RequestId
        BY <2>3, <2>4, DrainType
    <2> QED
        BY <1>2, <2>1, <2>2, <2>5, SMTT(30) DEF SubscribeNew, requestVars, identityVars, linkVars
<1>3. ASSUME NEW s \in subs, Unsubscribe(s) PROVE TypeOK'
    <2>1. PICK q \in querySet : q.id = s.query /\ (ReleaseShared(q) \/ ReleaseLast(q))
        BY <1>3 DEF Unsubscribe
    <2>2. CASE ReleaseShared(q)
        <3>0. q \in LocalQuery
            OBVIOUS
        <3>2. q.num \in Nat /\ q.num - 1 \in Nat
            BY <2>2, <3>0 DEF ReleaseShared, LocalQuery
        <3>1. [q EXCEPT !.num = q.num - 1] \in LocalQuery
            BY ONLY <3>0, <3>2 DEF LocalQuery
        <3> QED
            BY <1>3, <2>2, <3>1, DrainType
            DEF Unsubscribe, ReleaseShared, requestVars, identityVars, linkVars
    <2>3. CASE ReleaseLast(q)
        <3> DEFINE m == ModifyQuerySet(querySetVersion, {}, {q.id})
        <3>1. Append(outgoing, m) \in Seq(ClientMessage)
            BY FramesType, AppendProperties DEF LocalQuery
        <3>2. Drain(Append(outgoing, m))
            BY <2>3 DEF ReleaseLast
        <3>3. outgoing' \in Seq(ClientMessage) /\ sent' \in Seq(ClientMessage)
                  /\ transmitted' \subseteq RequestId
            BY <3>1, <3>2, DrainType
        <3>4. querySetVersion' \in Nat
            BY <2>3 DEF ReleaseLast
        <3>6. querySet' \subseteq LocalQuery /\ outstanding' \subseteq QueryId
            BY <2>3 DEF ReleaseLast
        <3>7. results' \subseteq [id : QueryId, at : Snapshot]
            BY <2>3 DEF ReleaseLast
        <3>5. /\ subs' \subseteq Subscription
              /\ views' \subseteq [query : QueryId, index : Nat, at : Snapshot]
            BY <1>3 DEF Unsubscribe
        <3> QED
            BY <1>3, <3>3, <3>4, <3>5, <3>6, <3>7 DEF Unsubscribe, requestVars, identityVars, linkVars
    <2> QED
        BY <2>1, <2>2, <2>3
<1>4. ASSUME NEW kind \in {"Mutation", "Action"}, Request(kind) PROVE TypeOK'
    <2> DEFINE r == [id |-> nextRequestId, kind |-> kind, completed |-> FALSE, ts |-> NoTs]
    <2>1. r \in PendingRequest
        BY DEF PendingRequest
    <2>2. Append(outgoing, OriginalMessage(r)) \in Seq(ClientMessage)
        BY <2>1, FramesType, AppendProperties
    <2>3. Drain(Append(outgoing, OriginalMessage(r)))
        BY <1>4 DEF Request
    <2>4. outgoing' \in Seq(ClientMessage) /\ sent' \in Seq(ClientMessage)
              /\ transmitted' \subseteq RequestId
        BY <2>2, <2>3, DrainType
    <2>5. ongoing' \subseteq PendingRequest
        BY <1>4, <2>1 DEF Request
    <2>6. pending' \subseteq RequestId /\ nextRequestId' \in Nat
        BY <1>4 DEF Request
    <2> QED
        BY <1>4, <2>4, <2>5, <2>6
        DEF Request, queryVars, remoteVars, identityVars, linkVars
<1>5. ASSUME NEW token \in Identity, SetAuth(token) PROVE TypeOK'
    <2>1. Append(outgoing, Authenticate(identityVersion, token)) \in Seq(ClientMessage)
        BY FramesType, AppendProperties
    <2>2. Drain(Append(outgoing, Authenticate(identityVersion, token)))
        BY <1>5 DEF SetAuth
    <2>3. outgoing' \in Seq(ClientMessage) /\ sent' \in Seq(ClientMessage)
              /\ transmitted' \subseteq RequestId
        BY <2>1, <2>2, DrainType
    <2> QED
        BY <1>5, <2>3 DEF SetAuth, queryVars, requestVars, remoteVars, linkVars
<1>6. ASSUME NEW t \in ServerMessage, ApplyTransition(t) PROVE TypeOK'
    <2>1. t.mods \in Seq(Modification) /\ t.end \in StateVersion
        BY <1>6 DEF ApplyTransition, ServerMessage
    <2>2. t.end.ts \in Nat
        BY <2>1 DEF StateVersion
    <2>3. pending' \subseteq RequestId /\ answers' \subseteq Answer
        BY <1>6, DeliverableType, CompleteType DEF ApplyTransition
    <2>4. Observed(t.end.ts) \in Timestamp \cup {NoTs}
        BY <2>2 DEF Observed
    <2> QED
        BY <1>6, <2>1, <2>3, <2>4, ModificationsType, DrainType
        DEF ApplyTransition, identityVars, linkVars
<1>7. ASSUME NEW m \in ServerMessage, m.type \in {"MutationResponse", "ActionResponse"},
             NEW outcome \in {"ok", "error"}, AnswerNow(m, outcome)
      PROVE  /\ ongoing' \subseteq PendingRequest /\ pending' \subseteq RequestId
             /\ answers' \subseteq Answer /\ maxObserved' \in Timestamp \cup {NoTs}
    <2>1. [id |-> m.id, outcome |-> outcome, ts |-> NoTs] \in Answer
        BY <1>7 DEF ServerMessage, Answer
    <2> QED
        BY <1>7, <2>1, CompleteType DEF AnswerNow
<1>8. ASSUME NEW m \in ServerMessage, ReceiveMutationResponse(m) PROVE TypeOK'
    <2>1. m.ts \in Timestamp \cup {NoTs}
        BY <1>8 DEF ReceiveMutationResponse, ServerMessage
    <2>2. /\ ongoing' \subseteq PendingRequest /\ pending' \subseteq RequestId
          /\ answers' \subseteq Answer /\ maxObserved' \in Timestamp \cup {NoTs}
        <3>1. CASE HoldSuccess(m)
            <4>1. PICK r \in ongoing :
                      LET held == (ongoing \ {r}) \cup {[r EXCEPT !.completed = TRUE, !.ts = m.ts]}
                          done == Deliverable(held, remoteVersion.ts)
                      IN  /\ ongoing' = held \ done
                          /\ maxObserved' = Observed(m.ts)
                          /\ Complete({OkAnswer(x) : x \in done})
                BY <3>1 DEF HoldSuccess
            <4> DEFINE held == (ongoing \ {r}) \cup {[r EXCEPT !.completed = TRUE, !.ts = m.ts]}
            <4>2. held \in SUBSET PendingRequest
                BY <2>1 DEF PendingRequest
            <4>3. Observed(m.ts) \in Timestamp \cup {NoTs}
                BY <2>1 DEF Observed
            <4>4. pending' \subseteq RequestId /\ answers' \subseteq Answer
                BY <4>1, <4>2, DeliverableType, CompleteType
            <4> QED
                BY <4>1, <4>2, <4>3, <4>4
        <3>2. CASE AnswerNow(m, "ok") \/ AnswerNow(m, "error")
            BY <3>2, <1>7, <1>8 DEF ReceiveMutationResponse
        <3>3. CASE IgnoreResponse(m)
            BY <3>3 DEF IgnoreResponse
        <3> QED
            BY <1>8, <3>1, <3>2, <3>3 DEF ReceiveMutationResponse
    <2> QED
        BY <1>8, <2>2, DrainType DEF ReceiveMutationResponse, queryVars, identityVars, linkVars
<1>9. ASSUME NEW m \in ServerMessage, ReceiveActionResponse(m) PROVE TypeOK'
    <2>1. /\ ongoing' \subseteq PendingRequest /\ pending' \subseteq RequestId
          /\ answers' \subseteq Answer /\ maxObserved' \in Timestamp \cup {NoTs}
        BY <1>7, <1>9 DEF ReceiveActionResponse, IgnoreResponse
    <2> QED
        BY <1>9, <2>1, DrainType DEF ReceiveActionResponse, queryVars, identityVars, linkVars
<1>10. CASE Open
    <2>1. <<[type |-> "Connect", count |-> connectionCount, maxObserved |-> maxObserved]>>
              \in Seq(ClientMessage)
        BY DEF ClientMessage
    <2>2. sent' \in Seq(ClientMessage) /\ outgoing' \in Seq(ClientMessage)
              /\ transmitted' \subseteq RequestId
        BY <1>10, <2>1, ConcatProperties, EmptySeq, ActionIdsType DEF Open
    <2> QED
        BY <1>10, <2>2 DEF Open, queryVars, requestVars, remoteVars, identityVars
<1>11. ASSUME NEW token \in Identity, Reconnect(token) PROVE TypeOK'
    BY <1>11, ReconnectType
<1>12. CASE UNCHANGED vars
    BY <1>12 DEF vars, queryVars, requestVars, remoteVars, identityVars, wireVars, linkVars
<1> QED
    BY <1>1, <1>2, <1>3, <1>4, <1>5, <1>6, <1>8, <1>9, <1>10, <1>11, <1>12
    DEF AnyNext, User, Receive, RejectTransition, Disconnect

\* TypeOK holds when the client is made.
LEMMA TypeInit == Init => TypeOK
<1>1. <<>> \in Seq(ClientMessage)
    BY EmptySeq
<1>2. InitialVersion \in StateVersion
    BY DEF InitialVersion, StateVersion
<1>3. Init => /\ outgoing \in Seq(ClientMessage) /\ sent \in Seq(ClientMessage)
              /\ remoteVersion \in StateVersion
    BY <1>1, <1>2 DEF Init
<1>4. Init => /\ nextQueryId \in Nat /\ nextIndex \in Nat /\ nextRequestId \in Nat
              /\ querySetVersion \in Nat /\ identityVersion \in Nat
              /\ connectionCount \in Nat
    BY DEF Init
<1> QED
    BY <1>3, <1>4 DEF Init, TypeOK, Identity

\* The type invariant holds in every reachable state.
THEOREM TypeCorrect == Spec => []TypeOK
<1>1. Init => TypeOK
    BY TypeInit
<1>2. TypeOK /\ [Next]_vars => TypeOK'
    BY TypeStep, NextIsAny
<1> QED
    BY <1>1, <1>2, PTL DEF Spec

-----------------------------------------------------------------------------
(* Requests: the ledger and the watermark.                                 *)

UniqueRequests == \A r, x \in ongoing : r.id = x.id => r = x

\* The inductive invariant behind Ledger and HeldBeyondWatermark.
RequestInv == Ledger /\ UniqueRequests /\ HeldBeyondWatermark

\* The ids of a union, and of the answers to a set of requests.
LEMMA IdsUnion ==
    ASSUME NEW A, NEW x
    PROVE  Ids(A \cup {x}) = Ids(A) \cup {x.id}
<1>1. \A y : y \in Ids(A \cup {x}) <=> \E a \in A \cup {x} : y = a.id
    BY DEF Ids
<1>2. \A y : y \in Ids(A) <=> \E a \in A : y = a.id
    BY DEF Ids
<1> QED
    BY <1>1, <1>2

LostAnswer(r) == [id |-> r.id, outcome |-> "lost", ts |-> NoTs]

\* The answers to a set of requests carry the ids of those requests.
LEMMA IdsOfAnswers ==
    ASSUME NEW A
    PROVE  /\ Ids({OkAnswer(r) : r \in A}) = Ids(A)
           /\ Ids({LostAnswer(r) : r \in A}) = Ids(A)
<1>1. \A y : y \in Ids(A) <=> \E r \in A : y = r.id
    BY DEF Ids
<1>2. \A r : OkAnswer(r).id = r.id /\ LostAnswer(r).id = r.id
    BY DEF OkAnswer, LostAnswer
<1>3. \A y : y \in Ids({OkAnswer(r) : r \in A}) <=> \E r \in A : y = OkAnswer(r).id
    BY DEF Ids
<1>4. \A y : y \in Ids({LostAnswer(r) : r \in A}) <=> \E r \in A : y = LostAnswer(r).id
    BY DEF Ids
<1>5. \A y : y \in Ids({OkAnswer(r) : r \in A}) <=> y \in Ids(A)
    BY <1>1, <1>2, <1>3
<1>6. \A y : y \in Ids({LostAnswer(r) : r \in A}) <=> y \in Ids(A)
    BY <1>1, <1>2, <1>4
<1>7. Ids({OkAnswer(r) : r \in A}) = Ids(A)
    BY <1>5
<1>8. Ids({LostAnswer(r) : r \in A}) = Ids(A)
    BY <1>6
<1> QED
    BY <1>7, <1>8

\* Running the callbacks of requests that leave ongoing_requests_, one answer
\* each, keeps the ledger.
LEMMA SettleLedger ==
    ASSUME TypeOK, Ledger, NEW done, Complete(done),
           Ids(done) \subseteq Ids(ongoing),
           \A a, b \in done : a.id = b.id => a = b,
           Ids(ongoing') = Ids(ongoing) \ Ids(done),
           nextRequestId' = nextRequestId
    PROVE  Ledger'
<1>1. answers' = answers \cup done
    BY DEF Complete, Ledger, Ids
<1>2. Ids(answers') = Ids(answers) \cup Ids(done)
    BY <1>1 DEF Ids
<1>3. pending' = Ids(ongoing')
    BY DEF Complete, Ledger
<1>4. pending' \cap Ids(answers') = {}
    BY <1>2 DEF Complete, Ledger
<1>5. pending' \cup Ids(answers') = 0..(nextRequestId' - 1)
    BY <1>2, <1>3, <1>4 DEF Complete, Ledger
<1>6. \A a, b \in answers' : a.id = b.id => a = b
    BY <1>1 DEF Ledger, Ids
<1> QED
    BY <1>3, <1>4, <1>5, <1>6 DEF Ledger

\* Delivering the held successes under a watermark.
LEMMA DeliverLedger ==
    ASSUME TypeOK, Ledger,
           NEW requests \in SUBSET PendingRequest, NEW watermark \in Nat,
           \A r, x \in requests : r.id = x.id => r = x,
           Ids(requests) = Ids(ongoing),
           ongoing' = requests \ Deliverable(requests, watermark),
           Complete({OkAnswer(r) : r \in Deliverable(requests, watermark)}),
           nextRequestId' = nextRequestId
    PROVE  Ledger' /\ UniqueRequests'
<1> DEFINE gone == Deliverable(requests, watermark)
           done == {OkAnswer(r) : r \in gone}
<1>1. gone \subseteq requests
    BY DEF Deliverable
<1>2. Ids(done) = Ids(gone)
    BY IdsOfAnswers
<1>3. Ids(requests \ gone) = Ids(requests) \ Ids(gone)
    BY <1>1 DEF Ids
<1>4. \A a, b \in done : a.id = b.id => a = b
    BY <1>1 DEF OkAnswer
<1>5. Ids(gone) \subseteq Ids(requests)
    BY <1>1 DEF Ids
<1>6. UniqueRequests'
    BY DEF UniqueRequests
<1> QED
    BY <1>2, <1>3, <1>4, <1>5, <1>6, SettleLedger

\* A success at or below the watermark does not stay behind.
LEMMA DeliverHeld ==
    ASSUME NEW requests \in SUBSET PendingRequest, NEW watermark \in Nat,
           ongoing' = requests \ Deliverable(requests, watermark),
           \A r \in requests : r.completed => r.ts # NoTs,
           remoteVersion'.ts = watermark
    PROVE  HeldBeyondWatermark'
<1> SUFFICES ASSUME NEW r \in ongoing', r.completed
             PROVE  r.ts # NoTs /\ r.ts > remoteVersion'.ts
    BY DEF HeldBeyondWatermark
<1>1. r \in requests /\ ~(r.ts <= watermark)
    BY DEF Deliverable
<1>2. r.ts # NoTs /\ r.ts \in Nat
    BY <1>1 DEF PendingRequest
<1> QED
    BY <1>1, <1>2

\* Every critical section keeps the requests' invariant.
LEMMA RequestStep ==
    ASSUME TypeOK, RequestInv, [AnyNext]_vars
    PROVE  RequestInv'
<1> USE DEF RequestInv
<1>1. ASSUME UNCHANGED <<requestVars, remoteVersion>> PROVE RequestInv'
    BY <1>1 DEF requestVars, Ledger, UniqueRequests, HeldBeyondWatermark, Ids
<1>2. ASSUME NEW q \in querySet, SubscribeShared(q) PROVE RequestInv'
    BY <1>1, <1>2 DEF SubscribeShared
<1>3. ASSUME NEW token \in Tokens, SubscribeNew(token) PROVE RequestInv'
    BY <1>1, <1>3 DEF SubscribeNew
<1>4. ASSUME NEW s \in subs, Unsubscribe(s) PROVE RequestInv'
    BY <1>1, <1>4 DEF Unsubscribe
<1>5. ASSUME NEW kind \in {"Mutation", "Action"}, Request(kind) PROVE RequestInv'
    <2> DEFINE r == [id |-> nextRequestId, kind |-> kind, completed |-> FALSE, ts |-> NoTs]
    <2>1. /\ ongoing' = ongoing \cup {r} /\ pending' = pending \cup {nextRequestId}
          /\ nextRequestId' = nextRequestId + 1 /\ answers' = answers
          /\ remoteVersion' = remoteVersion
        BY <1>5 DEF Request, remoteVars
    <2>2. nextRequestId \notin pending \cup Ids(answers)
        BY DEF Ledger, TypeOK
    <2>3. Ids(ongoing') = Ids(ongoing) \cup {nextRequestId}
        BY <2>1, IdsUnion
    <2>4. Ledger'
        <3>1. 0..(nextRequestId' - 1) = 0..(nextRequestId - 1) \cup {nextRequestId}
            BY <2>1 DEF TypeOK
        <3> QED
            BY <2>1, <2>2, <2>3, <3>1, Zenon DEF Ledger
    <2>5. UniqueRequests'
        <3>1. \A x \in ongoing : x.id # nextRequestId
            BY <2>2 DEF Ledger, Ids
        <3>2. r.id = nextRequestId
            OBVIOUS
        <3> QED
            BY <2>1, <3>1, <3>2 DEF UniqueRequests
    <2>6. HeldBeyondWatermark'
        BY <2>1 DEF HeldBeyondWatermark
    <2> QED
        BY <2>4, <2>5, <2>6
<1>6. ASSUME NEW token \in Identity, SetAuth(token) PROVE RequestInv'
    BY <1>1, <1>6 DEF SetAuth, remoteVars
<1>7. ASSUME NEW t \in ServerMessage, ApplyTransition(t) PROVE RequestInv'
    <2>1. t.end.ts \in Nat
        BY <1>7 DEF ApplyTransition, ServerMessage, StateVersion
    <2>2. /\ ongoing' = ongoing \ Deliverable(ongoing, t.end.ts)
          /\ Complete({OkAnswer(r) : r \in Deliverable(ongoing, t.end.ts)})
          /\ nextRequestId' = nextRequestId /\ remoteVersion' = t.end
        BY <1>7 DEF ApplyTransition
    <2>3. ongoing \in SUBSET PendingRequest
        BY DEF TypeOK
    <2>4. Ledger' /\ UniqueRequests'
        BY <2>1, <2>2, <2>3, DeliverLedger DEF UniqueRequests
    <2>5. HeldBeyondWatermark'
        BY <2>1, <2>2, <2>3, DeliverHeld DEF HeldBeyondWatermark
    <2> QED
        BY <2>4, <2>5
<1>8. ASSUME NEW m, NEW outcome, AnswerNow(m, outcome), UNCHANGED <<nextRequestId, remoteVersion>>
      PROVE  RequestInv'
    <2>1. PICK r \in ongoing :
              /\ r.id = m.id
              /\ ongoing' = ongoing \ {r}
              /\ Complete({[id |-> m.id, outcome |-> outcome, ts |-> NoTs]})
        BY <1>8 DEF AnswerNow
    <2> DEFINE done == {[id |-> m.id, outcome |-> outcome, ts |-> NoTs]}
    <2>2. Ids(done) = {r.id}
        BY <2>1 DEF Ids
    <2>3. Ids(ongoing') = Ids(ongoing) \ Ids(done)
        BY <2>1, <2>2 DEF Ids, UniqueRequests
    <2>4. Ids(done) \subseteq Ids(ongoing)
        BY <2>2 DEF Ids
    <2>5. Ledger'
        BY <1>8, <2>1, <2>3, <2>4, SettleLedger
    <2> QED
        BY <1>8, <2>1, <2>5 DEF UniqueRequests, HeldBeyondWatermark
<1>9. ASSUME NEW m \in ServerMessage, ReceiveMutationResponse(m) PROVE RequestInv'
    <2>1. UNCHANGED <<nextRequestId, remoteVersion>>
        BY <1>9 DEF ReceiveMutationResponse
    <2>2. m.ts \in Timestamp \cup {NoTs}
        BY <1>9 DEF ReceiveMutationResponse, ServerMessage
    <2>3. CASE HoldSuccess(m)
        <3>1. PICK r \in ongoing :
                  LET held == (ongoing \ {r}) \cup {[r EXCEPT !.completed = TRUE, !.ts = m.ts]}
                      done == Deliverable(held, remoteVersion.ts)
                  IN  /\ m.ts # NoTs
                      /\ ongoing' = held \ done
                      /\ Complete({OkAnswer(x) : x \in done})
            BY <2>3 DEF HoldSuccess
        <3> DEFINE new == [r EXCEPT !.completed = TRUE, !.ts = m.ts]
                   held == (ongoing \ {r}) \cup {new}
        <3>2. new \in PendingRequest /\ new.id = r.id /\ new.ts = m.ts
            BY <2>2 DEF TypeOK, PendingRequest
        <3>3. held \in SUBSET PendingRequest
            BY <3>2 DEF TypeOK
        <3>4. Ids(held) = Ids(ongoing)
            BY <3>2 DEF Ids
        <3>5. \A x, y \in held : x.id = y.id => x = y
            BY <3>2 DEF UniqueRequests
        <3>6. remoteVersion.ts \in Nat
            BY DEF TypeOK, StateVersion
        <3>7. Ledger' /\ UniqueRequests'
            BY <2>1, <3>1, <3>3, <3>4, <3>5, <3>6, DeliverLedger
        <3>8. \A x \in held : x.completed => x.ts # NoTs
            BY <3>1, <3>2 DEF HeldBeyondWatermark
        <3>9. HeldBeyondWatermark'
            BY <2>1, <3>1, <3>3, <3>6, <3>8, DeliverHeld
        <3> QED
            BY <3>7, <3>9
    <2>4. CASE AnswerNow(m, "ok") \/ AnswerNow(m, "error")
        BY <2>1, <2>4, <1>8
    <2>5. CASE IgnoreResponse(m)
        BY <2>1, <2>5, <1>1 DEF IgnoreResponse, requestVars
    <2> QED
        BY <1>9, <2>3, <2>4, <2>5 DEF ReceiveMutationResponse
<1>10. ASSUME NEW m \in ServerMessage, ReceiveActionResponse(m) PROVE RequestInv'
    <2>1. UNCHANGED <<nextRequestId, remoteVersion>>
        BY <1>10 DEF ReceiveActionResponse
    <2>2. CASE AnswerNow(m, "ok") \/ AnswerNow(m, "error")
        BY <2>1, <2>2, <1>8
    <2>3. CASE IgnoreResponse(m)
        BY <2>1, <2>3, <1>1 DEF IgnoreResponse, requestVars
    <2> QED
        BY <1>10, <2>2, <2>3 DEF ReceiveActionResponse
<1>11. CASE Open
    BY <1>1, <1>11 DEF Open, remoteVars
<1>12. ASSUME NEW token \in Identity, Reconnect(token) PROVE RequestInv'
    <2> DEFINE lost == LostActions(outgoing)
               done == {LostAnswer(r) : r \in lost}
    <2>1. /\ ongoing' = ongoing \ lost /\ Complete(done)
          /\ nextRequestId' = nextRequestId /\ remoteVersion' = InitialVersion
        BY <1>12 DEF Reconnect, RemoteAfterRestart, LostAnswer
    <2>2. lost \subseteq ongoing
        BY DEF LostActions
    <2>3. Ids(done) = Ids(lost)
        BY IdsOfAnswers
    <2>9. \A a, b \in done : a.id = b.id => a = b
        BY DEF LostAnswer
    <2>4. Ids(ongoing \ lost) = Ids(ongoing) \ Ids(lost)
        BY <2>2 DEF Ids, UniqueRequests
    <2>5. Ids(lost) \subseteq Ids(ongoing)
        BY <2>2 DEF Ids
    <2>6. Ledger'
        BY <2>1, <2>3, <2>4, <2>5, <2>9, SettleLedger
    <2>7. remoteVersion.ts \in Nat /\ remoteVersion'.ts = 0
        BY <2>1 DEF InitialVersion, TypeOK, StateVersion
    <2>8. HeldBeyondWatermark'
        <3> SUFFICES ASSUME NEW r \in ongoing', r.completed
                     PROVE  r.ts # NoTs /\ r.ts > 0
            BY <2>7 DEF HeldBeyondWatermark
        <3>1. r \in ongoing /\ r.ts # NoTs /\ r.ts > remoteVersion.ts
            BY <2>1 DEF HeldBeyondWatermark
        <3>2. r.ts \in Nat
            BY <3>1 DEF TypeOK, PendingRequest
        <3> QED
            BY <3>1, <3>2, <2>7
    <2> QED
        BY <2>1, <2>6, <2>8 DEF UniqueRequests
<1>13. CASE UNCHANGED vars
    BY <1>1, <1>13 DEF vars, remoteVars
<1> QED
    BY <1>2, <1>3, <1>4, <1>5, <1>6, <1>7, <1>9, <1>10, <1>11, <1>12, <1>13
    DEF AnyNext, User, Receive, RejectTransition, Disconnect

\* RequestInv holds when the client is made.
LEMMA RequestInit == Init => RequestInv
BY DEF Init, RequestInv, Ledger, UniqueRequests, HeldBeyondWatermark, Ids

\* RequestInv is an invariant.
LEMMA RequestsCorrect == Spec => []RequestInv
<1>1. Init => RequestInv
    BY RequestInit
<1>2. TypeOK /\ RequestInv /\ [Next]_vars => RequestInv'
    BY RequestStep, NextIsAny
<1> QED
    BY <1>1, <1>2, TypeCorrect, PTL DEF Spec

\* Every request is answered at most once, and none is forgotten.
THEOREM LedgerKept == Spec => []Ledger
<1>1. RequestInv => Ledger
    BY DEF RequestInv
<1> QED
    BY <1>1, RequestsCorrect, PTL

\* A success that the watermark has reached is never held back.
THEOREM NothingOverdue == Spec => []HeldBeyondWatermark
<1>1. RequestInv => HeldBeyondWatermark
    BY DEF RequestInv
<1> QED
    BY <1>1, RequestsCorrect, PTL

-----------------------------------------------------------------------------
(* Actions: on a wire at most once.                                        *)

\* Where an action is: queued or already transmitted, never both; what is
\* ongoing is one or the other.
WireInv ==
    /\ ActionIds(outgoing) \cap transmitted = {}
    /\ ActionIds(outgoing) \cup transmitted \subseteq 0..(nextRequestId - 1)
    /\ \A r \in ongoing : r.kind = "Action" => r.id \in ActionIds(outgoing) \cup transmitted
    /\ LostOnlyIfSent

\* The actions of a sequence with a frame appended, and of a concatenation.
LEMMA ActionIdsAppend ==
    ASSUME NEW s \in Seq(ClientMessage), NEW f \in ClientMessage
    PROVE  ActionIds(Append(s, f)) =
               ActionIds(s) \cup (IF f.type = "Action" THEN {f.id} ELSE {})
<1> DEFINE u == Append(s, f)
<1>1. /\ DOMAIN s = 1..Len(s) /\ DOMAIN u = 1..(Len(s) + 1) /\ Len(s) \in Nat
      /\ \A i \in 1..Len(s) : u[i] = s[i]
      /\ u[Len(s) + 1] = f
    BY AppendProperties, LenProperties
<1>2. \A x : x \in ActionIds(u) <=> \E i \in DOMAIN u : u[i].type = "Action" /\ x = u[i].id
    BY DEF ActionIds
<1>3. \A x : x \in ActionIds(s) <=> \E i \in DOMAIN s : s[i].type = "Action" /\ x = s[i].id
    BY DEF ActionIds
<1>4. \A x : x \in ActionIds(u) <=> x \in ActionIds(s) \/ (f.type = "Action" /\ x = f.id)
    BY <1>1, <1>2, <1>3
<1> QED
    BY <1>4

\* Draining moves the queue's actions to the wire or leaves them queued.
LEMMA DrainWire ==
    ASSUME NEW queue \in Seq(ClientMessage), Drain(queue), ActionIds(queue) \cap transmitted = {}
    PROVE  /\ ActionIds(outgoing') \cup transmitted' = ActionIds(queue) \cup transmitted
           /\ ActionIds(outgoing') \cap transmitted' = {}
<1>1. ActionIds(<<>>) = {}
    BY DEF ActionIds
<1> QED
    BY <1>1 DEF Drain

\* A step that drains a queue without new actions and only settles requests
\* keeps the invariant.
LEMMA DrainKeepsWire ==
    ASSUME TypeOK, WireInv, NEW queue \in Seq(ClientMessage), Drain(queue),
           ActionIds(queue) = ActionIds(outgoing),
           nextRequestId' = nextRequestId,
           \A r \in ongoing' : \E x \in ongoing : x.id = r.id /\ x.kind = r.kind,
           \A a \in answers' : a.outcome = "lost" => a \in answers
    PROVE  WireInv'
<1>1. /\ ActionIds(outgoing') \cup transmitted' = ActionIds(outgoing) \cup transmitted
      /\ ActionIds(outgoing') \cap transmitted' = {}
    BY DrainWire DEF WireInv
<1>2. transmitted \subseteq transmitted'
    BY DEF Drain
<1> QED
    BY <1>1, <1>2 DEF WireInv, LostOnlyIfSent

\* The actions of two parts are those of the whole.
LEMMA ActionIdsConcat ==
    ASSUME NEW s \in Seq(ClientMessage), NEW t \in Seq(ClientMessage)
    PROVE  ActionIds(s \o t) = ActionIds(s) \cup ActionIds(t)
<1> DEFINE u == s \o t
<1>1. /\ DOMAIN s = 1..Len(s) /\ DOMAIN t = 1..Len(t) /\ DOMAIN u = 1..(Len(s) + Len(t))
      /\ Len(s) \in Nat /\ Len(t) \in Nat
      /\ \A i \in 1..(Len(s) + Len(t)) : u[i] = IF i <= Len(s) THEN s[i] ELSE t[i - Len(s)]
    BY ConcatProperties, LenProperties
<1>2. \A x : x \in ActionIds(u) <=> \E i \in DOMAIN u : u[i].type = "Action" /\ x = u[i].id
    BY DEF ActionIds
<1>3. \A x : x \in ActionIds(s) <=> \E i \in DOMAIN s : s[i].type = "Action" /\ x = s[i].id
    BY DEF ActionIds
<1>4. \A x : x \in ActionIds(t) <=> \E i \in DOMAIN t : t[i].type = "Action" /\ x = t[i].id
    BY DEF ActionIds
<1>5. ASSUME NEW x \in ActionIds(u) PROVE x \in ActionIds(s) \cup ActionIds(t)
    <2>1. PICK i \in 1..(Len(s) + Len(t)) : u[i].type = "Action" /\ x = u[i].id
        BY <1>1, <1>2
    <2>2. CASE i <= Len(s)
        BY <1>1, <1>3, <2>1, <2>2
    <2>3. CASE ~(i <= Len(s))
        <3>1. i - Len(s) \in 1..Len(t) /\ u[i] = t[i - Len(s)]
            BY <1>1, <2>3
        <3> QED
            BY <1>1, <1>4, <2>1, <3>1
    <2> QED
        BY <2>2, <2>3
<1>6. ASSUME NEW x \in ActionIds(s) PROVE x \in ActionIds(u)
    <2>1. PICK i \in 1..Len(s) : s[i].type = "Action" /\ x = s[i].id
        BY <1>1, <1>3
    <2>2. i \in 1..(Len(s) + Len(t)) /\ u[i] = s[i]
        BY <1>1
    <2> QED
        BY <1>1, <1>2, <2>1, <2>2
<1>7. ASSUME NEW x \in ActionIds(t) PROVE x \in ActionIds(u)
    <2>1. PICK i \in 1..Len(t) : t[i].type = "Action" /\ x = t[i].id
        BY <1>1, <1>4
    <2>2. i + Len(s) \in 1..(Len(s) + Len(t)) /\ u[i + Len(s)] = t[i]
        BY <1>1
    <2> QED
        BY <1>1, <1>2, <2>1, <2>2
<1> QED
    BY <1>5, <1>6, <1>7

\* The queue restart() rebuilds holds exactly the actions that are still
\* ongoing.
LEMMA RestoredActions ==
    ASSUME TypeOK, UniqueRequests, NEW token \in Identity, NEW kept \in SUBSET ongoing,
           NEW s \in Ascending(Ids(kept))
    PROVE  ActionIds(AuthenticateFirst(token) \o RestoreQueries \o Resend(s))
               = Ids({r \in kept : r.kind = "Action"})
<1>1. Ids(kept) \subseteq Ids(ongoing)
    BY DEF Ids
<1>2. /\ AuthenticateFirst(token) \in Seq(ClientMessage)
      /\ RestoreQueries \in Seq(ClientMessage)
      /\ Resend(s) \in Seq(ClientMessage)
    BY <1>1, RestoredPartsType
<1>3. ActionIds(AuthenticateFirst(token)) = {}
    BY DEF ActionIds, AuthenticateFirst, Authenticate
<1>4. ActionIds(RestoreQueries) = {}
    <2> DEFINE m == ModifyQuerySet(0, {AddOf(q) : q \in querySet}, {})
    <2>1. m.type # "Action"
        BY DEF ModifyQuerySet
    <2>2. RestoreQueries = <<>> \/ RestoreQueries = <<m>>
        BY DEF RestoreQueries
    <2> HIDE DEF m
    <2> QED
        BY <2>1, <2>2 DEF ActionIds
<1>5. ActionIds(Resend(s)) = Ids({r \in kept : r.kind = "Action"})
    <2>1. PICK n \in 0..nextRequestId : s \in [1..n -> Ids(kept)]
        BY DEF Ascending
    <2>2. DOMAIN Resend(s) = 1..n
        BY <2>1 DEF Resend
    <2>3. ASSUME NEW i \in 1..n, NEW r \in kept, r.id = s[i]
          PROVE  Resend(s)[i] = [type |-> r.kind, id |-> r.id]
        <3>1. KindOf(s[i]) = r.kind
            BY <2>3 DEF KindOf, UniqueRequests
        <3> QED
            BY <2>1, <2>3, <3>1 DEF Resend
    <2>4. ASSUME NEW x \in ActionIds(Resend(s))
          PROVE  x \in Ids({r \in kept : r.kind = "Action"})
        <3>1. PICK i \in 1..n : Resend(s)[i].type = "Action" /\ x = Resend(s)[i].id
            BY <2>2 DEF ActionIds
        <3>2. PICK r \in kept : r.id = s[i]
            BY <2>1 DEF Ids
        <3>5. Resend(s)[i] = [type |-> r.kind, id |-> r.id]
            BY <2>3, <3>2
        <3>3. r.kind = "Action" /\ x = r.id
            BY <3>1, <3>5
        <3>4. r \in {y \in kept : y.kind = "Action"}
            BY <3>3
        <3> QED
            BY <3>3, <3>4 DEF Ids
    <2>5. ASSUME NEW r \in kept, r.kind = "Action" PROVE r.id \in ActionIds(Resend(s))
        <3>1. PICK i \in 1..n : s[i] = r.id
            BY <2>1 DEF Ascending, Ids
        <3>2. Resend(s)[i] = [type |-> "Action", id |-> r.id]
            BY <2>3, <2>5, <3>1
        <3> QED
            BY <2>2, <3>2 DEF ActionIds
    <2> QED
        BY <2>4, <2>5 DEF Ids
<1> DEFINE front == AuthenticateFirst(token) \o RestoreQueries
<1>6. front \in Seq(ClientMessage) /\ ActionIds(front) = {}
    BY <1>2, <1>3, <1>4, ActionIdsConcat, ConcatProperties
<1>7. ActionIds(front \o Resend(s)) = ActionIds(front) \cup ActionIds(Resend(s))
    <2> HIDE DEF front
    <2> QED
        BY <1>2, <1>6, ActionIdsConcat
<1> QED
    BY <1>5, <1>6, <1>7

\* Every critical section keeps the invariant on actions.
LEMMA WireStep ==
    ASSUME TypeOK, RequestInv, WireInv, [AnyNext]_vars
    PROVE  WireInv'
<1> USE DEF RequestInv
<1>0. outgoing \in Seq(ClientMessage)
    BY DEF TypeOK
<1>1. ASSUME Drain(outgoing), UNCHANGED <<nextRequestId, ongoing, answers>> PROVE WireInv'
    BY <1>0, <1>1, DrainKeepsWire
<1>2. ASSUME NEW f \in ClientMessage, f.type # "Action", Drain(Append(outgoing, f)),
             UNCHANGED <<nextRequestId, ongoing, answers>>
      PROVE  WireInv'
    <2>1. Append(outgoing, f) \in Seq(ClientMessage)
        BY <1>0, AppendProperties
    <2>2. ActionIds(Append(outgoing, f)) = ActionIds(outgoing)
        BY <1>0, <1>2, ActionIdsAppend
    <2> QED
        BY <1>2, <2>1, <2>2, DrainKeepsWire
<1>3. ASSUME NEW q \in querySet, SubscribeShared(q) PROVE WireInv'
    BY <1>1, <1>3 DEF SubscribeShared, requestVars
<1>4. ASSUME NEW token \in Tokens, SubscribeNew(token) PROVE WireInv'
    <2> DEFINE q == [id |-> nextQueryId, token |-> token, num |-> 1, journal |-> NoJournal]
               m == ModifyQuerySet(querySetVersion, {AddOf(q)}, {})
    <2>1. q \in LocalQuery
        BY DEF LocalQuery, TypeOK
    <2>2. m \in ClientMessage /\ m.type # "Action"
        BY <2>1, FramesType DEF TypeOK, ModifyQuerySet
    <2>3. Drain(Append(outgoing, m)) /\ UNCHANGED <<nextRequestId, ongoing, answers>>
        BY <1>4 DEF SubscribeNew, requestVars
    <2> QED
        BY <1>2, <2>2, <2>3
<1>5. ASSUME NEW s \in subs, Unsubscribe(s) PROVE WireInv'
    <2>1. UNCHANGED <<nextRequestId, ongoing, answers>>
        BY <1>5 DEF Unsubscribe, requestVars
    <2>2. PICK q \in querySet : ReleaseShared(q) \/ ReleaseLast(q)
        BY <1>5 DEF Unsubscribe
    <2> DEFINE m == ModifyQuerySet(querySetVersion, {}, {q.id})
    <2>3. m \in ClientMessage /\ m.type # "Action"
        BY FramesType DEF TypeOK, LocalQuery, ModifyQuerySet
    <2>4. CASE ReleaseShared(q)
        BY <1>1, <2>1, <2>4 DEF ReleaseShared
    <2>5. CASE ReleaseLast(q)
        BY <1>2, <2>1, <2>3, <2>5 DEF ReleaseLast
    <2> QED
        BY <2>2, <2>4, <2>5
<1>6. ASSUME NEW kind \in {"Mutation", "Action"}, Request(kind) PROVE WireInv'
    <2> DEFINE r == [id |-> nextRequestId, kind |-> kind, completed |-> FALSE, ts |-> NoTs]
               queue == Append(outgoing, OriginalMessage(r))
               new == IF kind = "Action" THEN {nextRequestId} ELSE {}
    <2>1. /\ ongoing' = ongoing \cup {r} /\ nextRequestId' = nextRequestId + 1
          /\ answers' = answers /\ Drain(queue)
        BY <1>6 DEF Request
    <2>2. r \in PendingRequest /\ nextRequestId \in Nat
        BY DEF PendingRequest, TypeOK
    <2>3. OriginalMessage(r) \in ClientMessage
        BY <2>2, FramesType
    <2>4. ActionIds(queue) = ActionIds(outgoing) \cup new
        BY <1>0, <2>3, ActionIdsAppend DEF OriginalMessage
    <2>5. nextRequestId \notin ActionIds(outgoing) \cup transmitted
        BY <2>2 DEF WireInv
    <2>6. queue \in Seq(ClientMessage) /\ ActionIds(queue) \cap transmitted = {}
        <3>1. ActionIds(outgoing) \cap transmitted = {}
            BY DEF WireInv
        <3>2. Append(outgoing, OriginalMessage(r)) \in Seq(ClientMessage)
            BY <1>0, <2>3, AppendProperties
        <3> QED
            BY <2>4, <2>5, <3>1, <3>2
    <2>7. /\ ActionIds(outgoing') \cup transmitted' = ActionIds(queue) \cup transmitted
          /\ ActionIds(outgoing') \cap transmitted' = {}
        BY <2>1, <2>6, DrainWire
    <2>8. ActionIds(outgoing') \cup transmitted' \subseteq 0..(nextRequestId' - 1)
        <3>1. ActionIds(outgoing') \cup transmitted'
                  \subseteq 0..(nextRequestId - 1) \cup {nextRequestId}
            BY <2>4, <2>7 DEF WireInv
        <3>2. 0..(nextRequestId' - 1) = 0..(nextRequestId - 1) \cup {nextRequestId}
            BY <2>1, <2>2
        <3> QED
            BY <3>1, <3>2
    <2>9. ASSUME NEW x \in ongoing', x.kind = "Action"
          PROVE  x.id \in ActionIds(outgoing') \cup transmitted'
        <3>1. CASE x \in ongoing
            BY <2>4, <2>7, <2>9, <3>1 DEF WireInv
        <3>2. CASE x = r
            BY <2>4, <2>7, <2>9, <3>2
        <3> QED
            BY <2>1, <3>1, <3>2
    <2>10. LostOnlyIfSent'
        <3>1. transmitted \subseteq transmitted'
            BY <2>1 DEF Drain
        <3> QED
            BY <2>1, <3>1 DEF WireInv, LostOnlyIfSent
    <2> QED
        BY <2>7, <2>8, <2>9, <2>10 DEF WireInv
<1>7. ASSUME NEW token \in Identity, SetAuth(token) PROVE WireInv'
    <2>1. Authenticate(identityVersion, token) \in ClientMessage
              /\ Authenticate(identityVersion, token).type # "Action"
        BY FramesType DEF TypeOK, Authenticate
    <2> QED
        BY <1>2, <1>7, <2>1 DEF SetAuth, requestVars
<1>8. ASSUME NEW t \in ServerMessage, ApplyTransition(t) PROVE WireInv'
    <2>1. /\ Drain(outgoing) /\ nextRequestId' = nextRequestId /\ ongoing' \subseteq ongoing
          /\ Complete({OkAnswer(r) : r \in Deliverable(ongoing, t.end.ts)})
        BY <1>8 DEF ApplyTransition
    <2>2. \A a \in answers' : a.outcome = "lost" => a \in answers
        BY <2>1 DEF Complete, OkAnswer
    <2> QED
        BY <1>0, <2>1, <2>2, DrainKeepsWire
<1>9. ASSUME NEW m, NEW outcome \in {"ok", "error"}, AnswerNow(m, outcome)
      PROVE  /\ ongoing' \subseteq ongoing
             /\ \A a \in answers' : a.outcome = "lost" => a \in answers
    BY <1>9 DEF AnswerNow, Complete
<1>10. ASSUME NEW m \in ServerMessage, ReceiveMutationResponse(m) PROVE WireInv'
    <2>1. Drain(outgoing) /\ nextRequestId' = nextRequestId
        BY <1>10 DEF ReceiveMutationResponse
    <2>2. CASE HoldSuccess(m)
        <3>1. PICK r \in ongoing :
                  LET held == (ongoing \ {r}) \cup {[r EXCEPT !.completed = TRUE, !.ts = m.ts]}
                      done == Deliverable(held, remoteVersion.ts)
                  IN  /\ ongoing' = held \ done
                      /\ Complete({OkAnswer(x) : x \in done})
            BY <2>2 DEF HoldSuccess
        <3> DEFINE new == [r EXCEPT !.completed = TRUE, !.ts = m.ts]
        <3>2. new.id = r.id /\ new.kind = r.kind
            BY DEF TypeOK, PendingRequest
        <3>3. \A x \in ongoing' : \E y \in ongoing : y.id = x.id /\ y.kind = x.kind
            BY <3>1, <3>2
        <3>4. \A a \in answers' : a.outcome = "lost" => a \in answers
            BY <3>1 DEF Complete, OkAnswer
        <3> QED
            BY <1>0, <2>1, <3>3, <3>4, DrainKeepsWire
    <2>3. CASE AnswerNow(m, "ok") \/ AnswerNow(m, "error")
        BY <1>0, <1>9, <2>1, <2>3, DrainKeepsWire
    <2>4. CASE IgnoreResponse(m)
        BY <1>1, <2>1, <2>4 DEF IgnoreResponse
    <2> QED
        BY <1>10, <2>2, <2>3, <2>4 DEF ReceiveMutationResponse
<1>11. ASSUME NEW m \in ServerMessage, ReceiveActionResponse(m) PROVE WireInv'
    <2>1. Drain(outgoing) /\ nextRequestId' = nextRequestId
        BY <1>11 DEF ReceiveActionResponse
    <2>2. CASE AnswerNow(m, "ok") \/ AnswerNow(m, "error")
        BY <1>0, <1>9, <2>1, <2>2, DrainKeepsWire
    <2>3. CASE IgnoreResponse(m)
        BY <1>1, <2>1, <2>3 DEF IgnoreResponse
    <2> QED
        BY <1>11, <2>2, <2>3 DEF ReceiveActionResponse
<1>12. CASE Open
    <2>1. ActionIds(<<>>) = {}
        BY DEF ActionIds
    <2>2. /\ transmitted' = transmitted \cup ActionIds(outgoing) /\ outgoing' = <<>>
          /\ UNCHANGED <<nextRequestId, ongoing, answers>>
        BY <1>12 DEF Open, requestVars
    <2> QED
        BY <2>1, <2>2 DEF WireInv, LostOnlyIfSent
<1>13. ASSUME NEW token \in Identity, Reconnect(token) PROVE WireInv'
    <2> DEFINE lost == LostActions(outgoing)
               kept == ongoing \ lost
    <2>1. /\ ongoing' = kept /\ transmitted' = transmitted /\ nextRequestId' = nextRequestId
          /\ answers' \subseteq answers \cup {LostAnswer(r) : r \in lost}
        BY <1>13 DEF Reconnect, Complete, LostAnswer
    <2>2. PICK s \in Ascending(Ids(kept)) :
              outgoing' = AuthenticateFirst(token) \o RestoreQueries \o Resend(s)
        BY <1>13 DEF Reconnect
    <2>3. ActionIds(outgoing') = Ids({r \in kept : r.kind = "Action"})
        BY <2>2, RestoredActions
    <2>4. \A r \in kept : r.kind = "Action" => r.id \in ActionIds(outgoing)
        BY DEF LostActions
    <2>5. ActionIds(outgoing') \subseteq ActionIds(outgoing)
        BY <2>3, <2>4 DEF Ids
    <2>6. \A r \in lost : r.id \in transmitted
        BY DEF LostActions, WireInv
    <2>7. LostOnlyIfSent'
        BY <2>1, <2>6 DEF WireInv, LostOnlyIfSent, LostAnswer
    <2>8. \A r \in ongoing' : r.kind = "Action" => r.id \in ActionIds(outgoing')
        BY <2>1, <2>3 DEF Ids
    <2> QED
        BY <2>1, <2>5, <2>7, <2>8 DEF WireInv
<1>14. CASE UNCHANGED vars
    BY <1>14 DEF vars, requestVars, wireVars, WireInv, LostOnlyIfSent, ActionIds
<1> QED
    BY <1>3, <1>4, <1>5, <1>6, <1>7, <1>8, <1>10, <1>11, <1>12, <1>13, <1>14
    DEF AnyNext, User, Receive, RejectTransition, Disconnect

\* WireInv holds when the client is made.
LEMMA WireInit == Init => WireInv
BY DEF Init, WireInv, LostOnlyIfSent, ActionIds

\* WireInv is an invariant.
LEMMA WireCorrect == Spec => []WireInv
<1>1. Init => WireInv
    BY WireInit
<1>2. TypeOK /\ RequestInv /\ WireInv /\ [Next]_vars => WireInv'
    BY WireStep, NextIsAny
<1> QED
    BY <1>1, <1>2, TypeCorrect, RequestsCorrect, PTL DEF Spec

\* Only an action that was put on a wire is failed for a lost connection.
THEOREM LostWasSent == Spec => []LostOnlyIfSent
<1>1. WireInv => LostOnlyIfSent
    BY DEF WireInv
<1> QED
    BY <1>1, WireCorrect, PTL

\* What ActionsSentOnce asks of one step.
FirstTransmissions ==
    \A i \in DOMAIN sent' \ DOMAIN sent :
        sent'[i].type = "Action" => sent'[i].id \notin transmitted

\* drain_outgoing() of actions that were on no wire puts none on one twice.
LEMMA DrainTransmits ==
    ASSUME TypeOK, NEW queue \in Seq(ClientMessage), Drain(queue),
           ActionIds(queue) \cap transmitted = {}
    PROVE  FirstTransmissions
<1>1. CASE linked
    <2> SUFFICES ASSUME NEW i \in DOMAIN sent', i \notin DOMAIN sent, sent'[i].type = "Action"
                 PROVE  sent'[i].id \in ActionIds(queue)
        BY DEF FirstTransmissions
    <2>1. sent' = sent \o queue /\ sent \in Seq(ClientMessage)
        BY <1>1 DEF Drain, TypeOK
    <2>2. /\ DOMAIN sent = 1..Len(sent) /\ Len(sent) \in Nat
          /\ DOMAIN queue = 1..Len(queue) /\ Len(queue) \in Nat
          /\ DOMAIN sent' = 1..(Len(sent) + Len(queue))
          /\ sent'[i] = IF i <= Len(sent) THEN sent[i] ELSE queue[i - Len(sent)]
        BY <2>1, ConcatProperties, LenProperties
    <2>3. i - Len(sent) \in DOMAIN queue /\ sent'[i] = queue[i - Len(sent)]
        BY <2>2
    <2> QED
        BY <2>3 DEF ActionIds
<1>2. CASE ~linked
    BY <1>2 DEF Drain, FirstTransmissions
<1> QED
    BY <1>1, <1>2

\* Nor does a frame that is queued behind them, if it was on no wire before.
LEMMA FrameTransmits ==
    ASSUME TypeOK, WireInv, NEW f \in ClientMessage, Drain(Append(outgoing, f)),
           f.type = "Action" => f.id \notin transmitted
    PROVE  FirstTransmissions
<1>1. outgoing \in Seq(ClientMessage)
    BY DEF TypeOK
<1>2. Append(outgoing, f) \in Seq(ClientMessage)
    BY <1>1, AppendProperties
<1>3. ActionIds(Append(outgoing, f)) \cap transmitted = {}
    BY <1>1, ActionIdsAppend DEF WireInv
<1> QED
    BY <1>2, <1>3, DrainTransmits

\* No critical section puts an action on a wire that was on one before.
LEMMA TransmitStep ==
    ASSUME TypeOK, WireInv, [AnyNext]_vars
    PROVE  FirstTransmissions
<1>1. ASSUME Drain(outgoing) PROVE FirstTransmissions
    BY <1>1, DrainTransmits DEF TypeOK, WireInv
<1>2. ASSUME NEW token \in Tokens, SubscribeNew(token) PROVE FirstTransmissions
    <2> DEFINE q == [id |-> nextQueryId, token |-> token, num |-> 1, journal |-> NoJournal]
               m == ModifyQuerySet(querySetVersion, {AddOf(q)}, {})
    <2>1. q \in LocalQuery
        BY DEF LocalQuery, TypeOK
    <2>2. m \in ClientMessage /\ m.type # "Action"
        BY <2>1, FramesType DEF TypeOK, ModifyQuerySet
    <2>3. Drain(Append(outgoing, m))
        BY <1>2 DEF SubscribeNew
    <2> QED
        BY <2>2, <2>3, FrameTransmits
<1>3. ASSUME NEW s \in subs, Unsubscribe(s) PROVE FirstTransmissions
    <2>1. PICK q \in querySet : ReleaseShared(q) \/ ReleaseLast(q)
        BY <1>3 DEF Unsubscribe
    <2> DEFINE m == ModifyQuerySet(querySetVersion, {}, {q.id})
    <2>2. m \in ClientMessage /\ m.type # "Action"
        BY FramesType DEF TypeOK, LocalQuery, ModifyQuerySet
    <2>3. CASE ReleaseShared(q)
        BY <1>1, <2>3 DEF ReleaseShared
    <2>4. CASE ReleaseLast(q)
        BY <2>2, <2>4, FrameTransmits DEF ReleaseLast
    <2> QED
        BY <2>1, <2>3, <2>4
<1>4. ASSUME NEW kind \in {"Mutation", "Action"}, Request(kind) PROVE FirstTransmissions
    <2> DEFINE r == [id |-> nextRequestId, kind |-> kind, completed |-> FALSE, ts |-> NoTs]
    <2>1. OriginalMessage(r) \in ClientMessage /\ OriginalMessage(r).id = nextRequestId
        BY FramesType DEF PendingRequest, TypeOK, OriginalMessage
    <2>2. nextRequestId \notin transmitted
        BY DEF WireInv, TypeOK
    <2>3. Drain(Append(outgoing, OriginalMessage(r)))
        BY <1>4 DEF Request
    <2> QED
        BY <2>1, <2>2, <2>3, FrameTransmits
<1>5. ASSUME NEW token \in Identity, SetAuth(token) PROVE FirstTransmissions
    <2>1. Authenticate(identityVersion, token) \in ClientMessage
              /\ Authenticate(identityVersion, token).type # "Action"
        BY FramesType DEF TypeOK, Authenticate
    <2> QED
        BY <1>5, <2>1, FrameTransmits DEF SetAuth
<1>6. CASE Open
    <2> SUFFICES ASSUME NEW i \in DOMAIN sent', sent'[i].type = "Action"
                 PROVE  sent'[i].id \in ActionIds(outgoing)
        BY DEF FirstTransmissions, WireInv
    <2> DEFINE c == [type |-> "Connect", count |-> connectionCount, maxObserved |-> maxObserved]
    <2>1. <<c>> \in Seq(ClientMessage) /\ outgoing \in Seq(ClientMessage)
        BY DEF ClientMessage, TypeOK
    <2>2. sent' = <<c>> \o outgoing
        BY <1>6 DEF Open
    <2>3. Len(<<c>>) = 1 /\ <<c>>[1] = c /\ c.type # "Action"
        OBVIOUS
    <2> HIDE DEF c
    <2>4. /\ DOMAIN outgoing = 1..Len(outgoing) /\ Len(outgoing) \in Nat
          /\ DOMAIN sent' = 1..(1 + Len(outgoing))
          /\ sent'[i] = IF i <= 1 THEN <<c>>[i] ELSE outgoing[i - 1]
        BY <2>1, <2>2, <2>3, ConcatProperties, LenProperties
    <2>5. i # 1 /\ i \in 1..(1 + Len(outgoing))
        BY <2>3, <2>4
    <2>6. i - 1 \in DOMAIN outgoing /\ sent'[i] = outgoing[i - 1]
        BY <2>4, <2>5
    <2> QED
        BY <2>6 DEF ActionIds
<1>7. ASSUME NEW token \in Identity, Reconnect(token) PROVE FirstTransmissions
    BY <1>7 DEF Reconnect, FirstTransmissions
<1>8. CASE UNCHANGED vars
    BY <1>8 DEF vars, wireVars, FirstTransmissions
<1> QED
    BY <1>1, <1>2, <1>3, <1>4, <1>5, <1>6, <1>7, <1>8
    DEF AnyNext, User, Receive, RejectTransition, Disconnect, SubscribeShared,
        ApplyTransition, ReceiveMutationResponse, ReceiveActionResponse

\* An action is put on a wire at most once in the life of the client.
THEOREM TransmittedOnce == Spec => ActionsSentOnce
<1>1. TypeOK /\ WireInv /\ [Next]_vars => [FirstTransmissions]_vars
    BY TransmitStep, NextIsAny
<1> QED
    BY <1>1, TypeCorrect, WireCorrect, PTL DEF Spec, ActionsSentOnce, FirstTransmissions

-----------------------------------------------------------------------------
(* The queue.                                                              *)

\* What the queue may hold: nothing while a socket is open, and otherwise only
\* actions that nobody has answered.
QueueInv ==
    /\ linked => outgoing = <<>>
    /\ ActionIds(outgoing) \subseteq Ids({r \in ongoing : r.kind = "Action"})

\* No frames, no actions among them.
LEMMA NoActionIds == ActionIds(<<>>) = {}
BY DEF ActionIds

\* The ids of a set, one by one.
LEMMA IdsMember ==
    ASSUME NEW A, NEW i
    PROVE  i \in Ids(A) <=> \E r \in A : i = r.id
BY DEF Ids

\* Draining a queue of unanswered actions leaves such a queue, or none.
LEMMA DrainQueue ==
    ASSUME NEW queue, Drain(queue), linked' = linked,
           ActionIds(queue) \subseteq Ids({r \in ongoing' : r.kind = "Action"})
    PROVE  QueueInv'
BY NoActionIds DEF Drain, QueueInv

\* Every critical section keeps the queue's invariant.
LEMMA QueueStep ==
    ASSUME TypeOK, RequestInv, QueueInv, [AnyNext]_vars
    PROVE  QueueInv'
<1>0. outgoing \in Seq(ClientMessage)
    BY DEF TypeOK
<1>1. ASSUME Drain(outgoing), UNCHANGED <<ongoing, linked>> PROVE QueueInv'
    BY <1>1, DrainQueue DEF QueueInv
<1>2. ASSUME NEW f \in ClientMessage, f.type # "Action", Drain(Append(outgoing, f)),
             UNCHANGED <<ongoing, linked>>
      PROVE  QueueInv'
    BY <1>0, <1>2, ActionIdsAppend, DrainQueue DEF QueueInv
<1>3. ASSUME linked, Drain(outgoing), linked' = linked PROVE QueueInv'
    BY <1>3, NoActionIds DEF QueueInv, Drain
<1>4. ASSUME NEW q \in querySet, SubscribeShared(q) PROVE QueueInv'
    BY <1>1, <1>4 DEF SubscribeShared, requestVars, linkVars
<1>5. ASSUME NEW token \in Tokens, SubscribeNew(token) PROVE QueueInv'
    <2> DEFINE q == [id |-> nextQueryId, token |-> token, num |-> 1, journal |-> NoJournal]
               m == ModifyQuerySet(querySetVersion, {AddOf(q)}, {})
    <2>1. q \in LocalQuery
        BY DEF LocalQuery, TypeOK
    <2>2. m \in ClientMessage /\ m.type # "Action"
        BY <2>1, FramesType DEF TypeOK, ModifyQuerySet
    <2>3. Drain(Append(outgoing, m)) /\ UNCHANGED <<ongoing, linked>>
        BY <1>5 DEF SubscribeNew, requestVars, linkVars
    <2> QED
        BY <1>2, <2>2, <2>3
<1>6. ASSUME NEW s \in subs, Unsubscribe(s) PROVE QueueInv'
    <2>1. UNCHANGED <<ongoing, linked>>
        BY <1>6 DEF Unsubscribe, requestVars, linkVars
    <2>2. PICK q \in querySet : ReleaseShared(q) \/ ReleaseLast(q)
        BY <1>6 DEF Unsubscribe
    <2> DEFINE m == ModifyQuerySet(querySetVersion, {}, {q.id})
    <2>3. m \in ClientMessage /\ m.type # "Action"
        BY FramesType DEF TypeOK, LocalQuery, ModifyQuerySet
    <2>4. CASE ReleaseShared(q)
        BY <1>1, <2>1, <2>4 DEF ReleaseShared
    <2>5. CASE ReleaseLast(q)
        BY <1>2, <2>1, <2>3, <2>5 DEF ReleaseLast
    <2> QED
        BY <2>2, <2>4, <2>5
<1>7. ASSUME NEW kind \in {"Mutation", "Action"}, Request(kind) PROVE QueueInv'
    <2> DEFINE r == [id |-> nextRequestId, kind |-> kind, completed |-> FALSE, ts |-> NoTs]
               queue == Append(outgoing, OriginalMessage(r))
               new == IF kind = "Action" THEN {nextRequestId} ELSE {}
               Actions(set) == {x \in set : x.kind = "Action"}
    <2>1. ongoing' = ongoing \cup {r} /\ Drain(queue) /\ linked' = linked
        BY <1>7 DEF Request, linkVars
    <2>2. OriginalMessage(r) \in ClientMessage
        BY FramesType DEF PendingRequest, TypeOK
    <2>3. ActionIds(queue) = ActionIds(outgoing) \cup new
        BY <1>0, <2>2, ActionIdsAppend DEF OriginalMessage
    <2>4. ActionIds(outgoing) \subseteq Ids(Actions(ongoing'))
        BY <2>1 DEF QueueInv, Ids
    <2>5. new \subseteq Ids(Actions(ongoing'))
        <3> SUFFICES ASSUME kind = "Action" PROVE nextRequestId \in Ids(Actions(ongoing'))
            OBVIOUS
        <3>1. r \in Actions(ongoing') /\ r.id = nextRequestId
            BY <2>1
        <3> QED
            BY <3>1, IdsMember
    <2> QED
        BY <2>1, <2>3, <2>4, <2>5, DrainQueue
<1>8. ASSUME NEW token \in Identity, SetAuth(token) PROVE QueueInv'
    <2>1. Authenticate(identityVersion, token) \in ClientMessage
              /\ Authenticate(identityVersion, token).type # "Action"
        BY FramesType DEF TypeOK, Authenticate
    <2> QED
        BY <1>2, <1>8, <2>1 DEF SetAuth, requestVars, linkVars
<1>9. CASE Open
    BY <1>9, NoActionIds DEF Open, QueueInv
<1>10. ASSUME NEW token \in Identity, Reconnect(token) PROVE QueueInv'
    <2> DEFINE kept == ongoing \ LostActions(outgoing)
    <2>1. ongoing' = kept /\ linked' = FALSE
        BY <1>10 DEF Reconnect
    <2>2. PICK s \in Ascending(Ids(kept)) :
              outgoing' = AuthenticateFirst(token) \o RestoreQueries \o Resend(s)
        BY <1>10 DEF Reconnect
    <2>3. ActionIds(outgoing') = Ids({r \in kept : r.kind = "Action"})
        BY <2>2, RestoredActions DEF RequestInv
    <2> QED
        BY <2>1, <2>3 DEF QueueInv
<1>11. CASE UNCHANGED vars
    BY <1>11 DEF vars, requestVars, wireVars, linkVars, QueueInv
<1> QED
    BY <1>3, <1>4, <1>5, <1>6, <1>7, <1>8, <1>9, <1>10, <1>11
    DEF AnyNext, User, Receive, RejectTransition, Disconnect, ApplyTransition,
        ReceiveMutationResponse, ReceiveActionResponse, linkVars

\* QueueInv holds when the client is made.
LEMMA QueueInit == Init => QueueInv
BY NoActionIds DEF Init, QueueInv

\* QueueInv is an invariant.
LEMMA QueueCorrect == Spec => []QueueInv
<1>1. Init => QueueInv
    BY QueueInit
<1>2. TypeOK /\ RequestInv /\ QueueInv /\ [Next]_vars => QueueInv'
    BY QueueStep, NextIsAny
<1> QED
    BY <1>1, <1>2, TypeCorrect, RequestsCorrect, PTL DEF Spec

-----------------------------------------------------------------------------
(* The query set: what num_subscribers counts, and what the messages of a  *)
(* connection tell the server.                                             *)

USE DEF QueryId, RequestId, Timestamp, Snapshot, Journal

-----------------------------------------------------------------------------
(* Subscribers of a query.                                                 *)

UniqueQueries == \A q, x \in querySet : q.id = x.id => q = x

\* The inductive invariant behind RefCountExact: ids are handed out in order
\* and never again, so no two queries and no two subscriptions get the same.
QueryInv ==
    /\ RefCountExact
    /\ UniqueQueries
    /\ IsFiniteSet(subs)
    /\ \A q \in querySet : q.id < nextQueryId
    /\ \A s \in subs : s.index < nextIndex

\* A query has finitely many subscribers.
LEMMA SubscribersFinite ==
    ASSUME IsFiniteSet(subs), NEW q
    PROVE  IsFiniteSet(SubscribersOf(q))
<1>1. SubscribersOf(q) \in SUBSET subs
    BY DEF SubscribersOf
<1> QED
    BY <1>1, FS_Subset

\* A subscription more: its query has one subscriber more, the others as many.
LEMMA SubscribersAdded ==
    ASSUME IsFiniteSet(subs), NEW s, s \notin subs, subs' = subs \cup {s}
    PROVE  /\ IsFiniteSet(subs')
           /\ \A q, x : q.id = s.query /\ x.id = q.id =>
                 Cardinality(SubscribersOf(x)') = Cardinality(SubscribersOf(q)) + 1
           /\ \A q, x : q.id # s.query /\ x.id = q.id =>
                 SubscribersOf(x)' = SubscribersOf(q)
<1>1. IsFiniteSet(subs')
    BY FS_AddElement
<1>2. ASSUME NEW q, NEW x, q.id = s.query, x.id = q.id
      PROVE  Cardinality(SubscribersOf(x)') = Cardinality(SubscribersOf(q)) + 1
    <2>1. SubscribersOf(x)' = SubscribersOf(q) \cup {s} /\ s \notin SubscribersOf(q)
        BY <1>2 DEF SubscribersOf
    <2> QED
        BY <2>1, SubscribersFinite, FS_AddElement
<1>3. ASSUME NEW q, NEW x, q.id # s.query, x.id = q.id
      PROVE  SubscribersOf(x)' = SubscribersOf(q)
    BY <1>3 DEF SubscribersOf
<1> QED
    BY <1>1, <1>2, <1>3

\* A subscription less.
LEMMA SubscribersRemoved ==
    ASSUME IsFiniteSet(subs), NEW s \in subs, subs' = subs \ {s}
    PROVE  /\ IsFiniteSet(subs')
           /\ \A q, x : q.id = s.query /\ x.id = q.id =>
                 Cardinality(SubscribersOf(x)') = Cardinality(SubscribersOf(q)) - 1
           /\ \A q, x : q.id # s.query /\ x.id = q.id =>
                 SubscribersOf(x)' = SubscribersOf(q)
<1>1. IsFiniteSet(subs')
    BY FS_RemoveElement
<1>2. ASSUME NEW q, NEW x, q.id = s.query, x.id = q.id
      PROVE  Cardinality(SubscribersOf(x)') = Cardinality(SubscribersOf(q)) - 1
    <2>1. SubscribersOf(x)' = SubscribersOf(q) \ {s} /\ s \in SubscribersOf(q)
        BY <1>2 DEF SubscribersOf
    <2> QED
        BY <2>1, SubscribersFinite, FS_RemoveElement
<1>3. ASSUME NEW q, NEW x, q.id # s.query, x.id = q.id
      PROVE  SubscribersOf(x)' = SubscribersOf(q)
    BY <1>3 DEF SubscribersOf
<1> QED
    BY <1>1, <1>2, <1>3

\* Changing journals keeps the invariant.
LEMMA JournalsKeepQueries ==
    ASSUME TypeOK, QueryInv, NEW mods, querySet' = JournalsAfter(mods),
           UNCHANGED <<nextQueryId, nextIndex, subs>>
    PROVE  QueryInv'
<1>1. \A q \in querySet : [q EXCEPT !.journal = JournalOf(q, mods)].id = q.id
                              /\ [q EXCEPT !.journal = JournalOf(q, mods)].num = q.num
    BY DEF TypeOK, LocalQuery
<1>2. \A x \in querySet' : \E q \in querySet :
          x = [q EXCEPT !.journal = JournalOf(q, mods)] /\ x.id = q.id /\ x.num = q.num
    BY <1>1 DEF JournalsAfter
<1>3. \A q \in querySet : \E x \in querySet' : x.id = q.id
    BY <1>1 DEF JournalsAfter
<1>4. \A q, x : x.id = q.id => SubscribersOf(x)' = SubscribersOf(q)
    BY DEF SubscribersOf
<1>5. ASSUME NEW x \in querySet' PROVE x.num = Cardinality(SubscribersOf(x)') /\ x.num > 0
    <2>1. PICK q \in querySet : x.id = q.id /\ x.num = q.num
        BY <1>2
    <2>2. SubscribersOf(x)' = SubscribersOf(q)
        BY <1>4, <2>1
    <2> QED
        BY <2>1, <2>2 DEF QueryInv, RefCountExact
<1>6. \A s \in subs' : \E x \in querySet' : x.id = s.query
    BY <1>3 DEF QueryInv, RefCountExact
<1>7. UniqueQueries'
    BY <1>2 DEF QueryInv, UniqueQueries
<1>8. \A x \in querySet' : x.id < nextQueryId'
    BY <1>2 DEF QueryInv
<1> QED
    BY <1>5, <1>6, <1>7, <1>8 DEF QueryInv, RefCountExact

\* Every critical section keeps the count of subscribers.
LEMMA QueryStep ==
    ASSUME TypeOK, QueryInv, [AnyNext]_vars
    PROVE  QueryInv'
<1>1. ASSUME UNCHANGED queryVars PROVE QueryInv'
    BY <1>1 DEF queryVars, QueryInv, RefCountExact, UniqueQueries, SubscribersOf
<1>2. ASSUME NEW q \in querySet, SubscribeShared(q) PROVE QueryInv'
    <2> DEFINE s == [query |-> q.id, index |-> nextIndex]
    <2>1. /\ nextIndex' = nextIndex + 1 /\ nextQueryId' = nextQueryId /\ subs' = subs \cup {s}
          /\ querySet' = (querySet \ {q}) \cup {Joined(q)}
        BY <1>2 DEF SubscribeShared
    <2>2. s \notin subs /\ s.query = q.id /\ s.index = nextIndex
        BY DEF QueryInv, TypeOK
    <2>3. q.num \in Nat /\ Joined(q).id = q.id /\ Joined(q).num = q.num + 1
        BY DEF Joined, TypeOK, LocalQuery
    <2> HIDE DEF s
    <2>4. /\ IsFiniteSet(subs')
          /\ Cardinality(SubscribersOf(Joined(q))') = Cardinality(SubscribersOf(q)) + 1
          /\ \A x \in querySet \ {q} : SubscribersOf(x)' = SubscribersOf(x)
        BY <2>1, <2>2, <2>3, SubscribersAdded DEF QueryInv, UniqueQueries
    <2>5. \A x \in querySet' : x.num = Cardinality(SubscribersOf(x)') /\ x.num > 0
        BY <2>1, <2>3, <2>4 DEF QueryInv, RefCountExact
    <2>6. \A u \in subs' : \E x \in querySet' : x.id = u.query
        BY <2>1, <2>2, <2>3 DEF QueryInv, RefCountExact
    <2>7. UniqueQueries' /\ \A x \in querySet' : x.id < nextQueryId'
        BY <2>1, <2>3 DEF QueryInv, UniqueQueries
    <2>8. \A u \in subs' : u.index < nextIndex'
        BY <2>1, <2>2 DEF QueryInv, TypeOK, Subscription
    <2> QED
        BY <2>4, <2>5, <2>6, <2>7, <2>8 DEF QueryInv, RefCountExact
<1>3. ASSUME NEW token \in Tokens, SubscribeNew(token) PROVE QueryInv'
    <2>0. PICK q, s :
              /\ q = [id |-> nextQueryId, token |-> token, num |-> 1, journal |-> NoJournal]
              /\ s = [query |-> nextQueryId, index |-> nextIndex]
        OBVIOUS
    <2>1. /\ nextIndex' = nextIndex + 1 /\ nextQueryId' = nextQueryId + 1
          /\ subs' = subs \cup {s} /\ querySet' = querySet \cup {q}
        BY <1>3, <2>0 DEF SubscribeNew
    <2>2. s \notin subs /\ s.query = q.id /\ s.index = nextIndex
        BY <2>0 DEF QueryInv, TypeOK
    <2>3. q.id = nextQueryId /\ q.num = 1 /\ nextQueryId \in Nat /\ nextIndex \in Nat
        BY <2>0 DEF TypeOK
    <2>4. \A u \in subs : u.query # q.id
        BY <2>3 DEF QueryInv, RefCountExact
    <2>5. SubscribersOf(q) = {}
        BY <2>4 DEF SubscribersOf
    <2>6. /\ IsFiniteSet(subs')
          /\ Cardinality(SubscribersOf(q)') = 1
          /\ \A x \in querySet : SubscribersOf(x)' = SubscribersOf(x)
        <3>1. \A x \in querySet : x.id # s.query
            BY <2>2, <2>3 DEF QueryInv
        <3>2. /\ IsFiniteSet(subs')
              /\ Cardinality(SubscribersOf(q)') = Cardinality(SubscribersOf(q)) + 1
              /\ \A x \in querySet : SubscribersOf(x)' = SubscribersOf(x)
            BY <2>1, <2>2, <3>1, SubscribersAdded DEF QueryInv
        <3> QED
            BY <2>5, <3>2, FS_EmptySet
    <2>7. \A x \in querySet' : x.num = Cardinality(SubscribersOf(x)') /\ x.num > 0
        BY <2>1, <2>3, <2>6 DEF QueryInv, RefCountExact
    <2>8. \A u \in subs' : \E x \in querySet' : x.id = u.query
        BY <2>1, <2>2 DEF QueryInv, RefCountExact
    <2>9. UniqueQueries' /\ \A x \in querySet' : x.id < nextQueryId'
        BY <2>1, <2>3 DEF QueryInv, UniqueQueries, TypeOK, LocalQuery
    <2>10. \A u \in subs' : u.index < nextIndex'
        BY <2>1, <2>2, <2>3 DEF QueryInv, TypeOK, Subscription
    <2> QED
        BY <2>6, <2>7, <2>8, <2>9, <2>10 DEF QueryInv, RefCountExact
<1>4. ASSUME NEW s \in subs, Unsubscribe(s) PROVE QueryInv'
    <2>1. PICK q \in querySet : q.id = s.query /\ (ReleaseShared(q) \/ ReleaseLast(q))
        BY <1>4 DEF Unsubscribe
    <2>2. subs' = subs \ {s} /\ nextIndex' = nextIndex /\ nextQueryId' = nextQueryId
        BY <1>4 DEF Unsubscribe
    <2>3. /\ IsFiniteSet(subs')
          /\ \A x : x.id = q.id =>
                Cardinality(SubscribersOf(x)') = Cardinality(SubscribersOf(q)) - 1
          /\ \A x \in querySet \ {q} : SubscribersOf(x)' = SubscribersOf(x)
        BY <2>1, <2>2, SubscribersRemoved DEF QueryInv, UniqueQueries
    <2>4. \A u \in subs' : u.index < nextIndex'
        BY <2>2 DEF QueryInv
    <2>5. q.num = Cardinality(SubscribersOf(q)) /\ q.num \in Nat
        BY DEF QueryInv, RefCountExact, TypeOK, LocalQuery
    <2>6. CASE ReleaseShared(q)
        <3> DEFINE rest == [q EXCEPT !.num = @ - 1]
        <3>1. rest.id = q.id /\ rest.num = q.num - 1 /\ q.num > 1
            BY <2>6 DEF ReleaseShared, TypeOK, LocalQuery
        <3>2. querySet' = (querySet \ {q}) \cup {rest}
            BY <2>6 DEF ReleaseShared
        <3> HIDE DEF rest
        <3>3. \A x \in querySet' : x.num = Cardinality(SubscribersOf(x)') /\ x.num > 0
            BY <2>3, <2>5, <3>1, <3>2 DEF QueryInv, RefCountExact
        <3>4. \A u \in subs' : \E x \in querySet' : x.id = u.query
            BY <2>2, <3>1, <3>2 DEF QueryInv, RefCountExact
        <3>5. UniqueQueries' /\ \A x \in querySet' : x.id < nextQueryId'
            BY <2>2, <3>1, <3>2 DEF QueryInv, UniqueQueries
        <3> QED
            BY <2>3, <2>4, <3>3, <3>4, <3>5 DEF QueryInv, RefCountExact
    <2>7. CASE ReleaseLast(q)
        <3>1. querySet' = querySet \ {q} /\ q.num = 1
            BY <2>7 DEF ReleaseLast
        <3>2. SubscribersOf(q)' = {}
            <4>1. IsFiniteSet(SubscribersOf(q)')
                <5>1. SubscribersOf(q)' \in SUBSET subs'
                    BY DEF SubscribersOf
                <5> QED
                    BY <2>3, <5>1, FS_Subset
            <4>2. Cardinality(SubscribersOf(q)') = 0
                BY <2>3, <2>5, <3>1
            <4> QED
                BY <4>1, <4>2, FS_EmptySet
        <3>3. \A u \in subs' : u.query # q.id
            BY <3>2 DEF SubscribersOf
        <3>4. \A x \in querySet' : x.num = Cardinality(SubscribersOf(x)') /\ x.num > 0
            BY <2>3, <3>1 DEF QueryInv, RefCountExact
        <3>5. \A u \in subs' : \E x \in querySet' : x.id = u.query
            BY <2>2, <3>1, <3>3 DEF QueryInv, RefCountExact
        <3>6. UniqueQueries' /\ \A x \in querySet' : x.id < nextQueryId'
            BY <2>2, <3>1 DEF QueryInv, UniqueQueries
        <3> QED
            BY <2>3, <2>4, <3>4, <3>5, <3>6 DEF QueryInv, RefCountExact
    <2> QED
        BY <2>1, <2>6, <2>7
<1>5. ASSUME NEW t, ApplyTransition(t) PROVE QueryInv'
    BY <1>5, JournalsKeepQueries DEF ApplyTransition
<1>6. ASSUME NEW token, Reconnect(token) PROVE QueryInv'
    <2>1. UNCHANGED <<nextQueryId, nextIndex, querySet, subs>>
        BY <1>6 DEF Reconnect
    <2> QED
        BY <2>1 DEF QueryInv, RefCountExact, UniqueQueries, SubscribersOf
<1>7. CASE UNCHANGED vars
    BY <1>1, <1>7 DEF vars
<1> QED
    BY <1>1, <1>2, <1>3, <1>4, <1>5, <1>6, <1>7
    DEF AnyNext, User, Receive, Request, SetAuth, RejectTransition, Disconnect,
        ReceiveMutationResponse, ReceiveActionResponse, Open

\* QueryInv holds when the client is made.
LEMMA QueryInit == Init => QueryInv
BY FS_EmptySet DEF Init, QueryInv, RefCountExact, UniqueQueries

\* QueryInv is an invariant.
LEMMA QueriesCorrect == Spec => []QueryInv
<1>1. Init => QueryInv
    BY QueryInit
<1>2. TypeOK /\ QueryInv /\ [Next]_vars => QueryInv'
    BY QueryStep, NextIsAny
<1> QED
    BY <1>1, <1>2, TypeCorrect, PTL DEF Spec

\* num_subscribers counts the callbacks of a query exactly: no query is dropped
\* under a subscriber and none outlives its last one.
THEOREM CountsExact == Spec => []RefCountExact
<1>1. QueryInv => RefCountExact
    BY DEF QueryInv
<1> QED
    BY <1>1, QueriesCorrect, PTL

-----------------------------------------------------------------------------
(* Scripts: the frames of a connection, sent and queued, as one sequence.  *)

\* The positions of the frames of one type.
Of(t, type) == {i \in DOMAIN t : t[i].type = type}

\* The frames of a type count their base from 0 and `version` is the next one.
Chain(t, type, version) ==
    /\ \A i \in Of(t, type) : t[i].base = Cardinality({j \in Of(t, type) : j < i})
    /\ version = Cardinality(Of(t, type))

\* The queries the messages of a script add and remove.
Added(t) == UNION {Ids(t[i].adds) : i \in Of(t, "ModifyQuerySet")}
Removed(t) == UNION {t[i].removes : i \in Of(t, "ModifyQuerySet")}

\* The ids a script adds and removes, one by one.
LEMMA AddedMember ==
    ASSUME NEW t, NEW id
    PROVE  /\ id \in Added(t) <=> \E i \in Of(t, "ModifyQuerySet") : id \in Ids(t[i].adds)
           /\ id \in Removed(t) <=> \E i \in Of(t, "ModifyQuerySet") : id \in t[i].removes
BY DEF Added, Removed

\* Positions are finite in number.
LEMMA OfFinite ==
    ASSUME NEW t \in Seq(ClientMessage), NEW type
    PROVE  /\ IsFiniteSet(Of(t, type))
           /\ \A i : IsFiniteSet({j \in Of(t, type) : j < i})
           /\ Of(t, type) \subseteq 1..Len(t)
<1>1. DOMAIN t = 1..Len(t) /\ Len(t) \in Nat
    BY LenProperties
<1>2. IsFiniteSet(1..Len(t))
    BY <1>1, FS_Interval
<1>3. Of(t, type) \in SUBSET (1..Len(t))
    BY <1>1 DEF Of
<1>4. \A i : {j \in Of(t, type) : j < i} \in SUBSET (1..Len(t))
    BY <1>3
<1> QED
    BY <1>2, <1>3, <1>4, FS_Subset

\* Appending a frame adds its position to those of its type.
LEMMA OfAppend ==
    ASSUME NEW t \in Seq(ClientMessage), NEW f \in ClientMessage, NEW type
    PROVE  /\ Of(Append(t, f), type) =
                  Of(t, type) \cup (IF f.type = type THEN {Len(t) + 1} ELSE {})
           /\ \A i \in Of(t, type) : Append(t, f)[i] = t[i] /\ i \in 1..Len(t)
           /\ Append(t, f)[Len(t) + 1] = f
           /\ Len(t) \in Nat
<1>1. /\ DOMAIN t = 1..Len(t) /\ DOMAIN Append(t, f) = 1..(Len(t) + 1) /\ Len(t) \in Nat
      /\ \A i \in 1..Len(t) : Append(t, f)[i] = t[i]
      /\ Append(t, f)[Len(t) + 1] = f
    BY AppendProperties, LenProperties
<1> QED
    BY <1>1 DEF Of

\* The versions of a type stay as they are when a frame of another is appended,
\* and go on by one when the frame has the next one.
LEMMA ChainAppend ==
    ASSUME NEW t \in Seq(ClientMessage), NEW f \in ClientMessage, NEW type, NEW version \in Nat,
           Chain(t, type, version)
    PROVE  /\ f.type # type => Chain(Append(t, f), type, version)
           /\ f.type = type /\ f.base = version => Chain(Append(t, f), type, version + 1)
<1> DEFINE u == Append(t, f)
           n == Len(t)
           S == Of(t, type)
           T == Of(u, type)
<1>1. /\ T = S \cup (IF f.type = type THEN {n + 1} ELSE {})
      /\ \A i \in S : u[i] = t[i] /\ i \in 1..n
      /\ u[n + 1] = f /\ n \in Nat
    BY OfAppend
<1>2. /\ \A i \in S : t[i].base = Cardinality({j \in S : j < i})
      /\ version = Cardinality(S) /\ IsFiniteSet(S)
    BY OfFinite DEF Chain
<1> HIDE DEF u, n, S, T
<1>3. ASSUME f.type # type PROVE Chain(u, type, version)
    <2>1. T = S
        BY <1>1, <1>3
    <2>2. \A i \in T : u[i].base = Cardinality({j \in T : j < i})
        BY <1>1, <1>2, <2>1
    <2> QED
        BY <1>2, <2>1, <2>2 DEF Chain, T
<1>4. ASSUME f.type = type, f.base = version PROVE Chain(u, type, version + 1)
    <2>1. T = S \cup {n + 1} /\ n + 1 \notin S
        BY <1>1, <1>4
    <2>2. \A i \in S : {j \in T : j < i} = {j \in S : j < i}
        BY <1>1, <2>1
    <2>3. {j \in T : j < n + 1} = S
        BY <1>1, <2>1
    <2>4. Cardinality(T) = version + 1
        BY <1>2, <2>1, FS_AddElement
    <2>5. ASSUME NEW i \in T PROVE u[i].base = Cardinality({j \in T : j < i})
        <3>1. CASE i = n + 1
            BY <1>1, <1>2, <1>4, <2>3, <3>1
        <3>2. CASE i \in S
            BY <1>1, <1>2, <2>2, <3>2
        <3> QED
            BY <2>1, <3>1, <3>2
    <2> QED
        BY <2>4, <2>5 DEF Chain, T
<1> QED
    BY <1>3, <1>4 DEF u

\* What an appended frame adds and removes.
LEMMA AppendChanges ==
    ASSUME NEW t \in Seq(ClientMessage), NEW f \in ClientMessage
    PROVE  /\ f.type # "ModifyQuerySet" =>
                  Added(Append(t, f)) = Added(t) /\ Removed(Append(t, f)) = Removed(t)
           /\ f.type = "ModifyQuerySet" =>
                  /\ Added(Append(t, f)) = Added(t) \cup Ids(f.adds)
                  /\ Removed(Append(t, f)) = Removed(t) \cup f.removes
<1> DEFINE u == Append(t, f)
           T == Of(t, "ModifyQuerySet")
           U == Of(u, "ModifyQuerySet")
<1>1. /\ U = T \cup (IF f.type = "ModifyQuerySet" THEN {Len(t) + 1} ELSE {})
      /\ \A i \in T : u[i] = t[i]
      /\ u[Len(t) + 1] = f
    BY OfAppend
<1>2. \A id : /\ id \in Added(u) <=> \E i \in U : id \in Ids(u[i].adds)
              /\ id \in Removed(u) <=> \E i \in U : id \in u[i].removes
              /\ id \in Added(t) <=> \E i \in T : id \in Ids(t[i].adds)
              /\ id \in Removed(t) <=> \E i \in T : id \in t[i].removes
    BY AddedMember
<1> HIDE DEF u, T, U
<1>3. CASE f.type # "ModifyQuerySet"
    <2>1. \A id : (id \in Added(u) <=> id \in Added(t)) /\ (id \in Removed(u) <=> id \in Removed(t))
        BY <1>1, <1>2, <1>3
    <2> QED
        BY <1>3, <2>1 DEF u
<1>4. CASE f.type = "ModifyQuerySet"
    <2>1. \A id : /\ id \in Added(u) <=> id \in Added(t) \/ id \in Ids(f.adds)
                  /\ id \in Removed(u) <=> id \in Removed(t) \/ id \in f.removes
        BY <1>1, <1>2, <1>4
    <2> QED
        BY <1>4, <2>1 DEF u
<1> QED
    BY <1>3, <1>4

\* The frames of u of the type are those of t, each one place further back.
OneBack(t, u, type) ==
    /\ \A i \in Of(t, type) : i + 1 \in Of(u, type) /\ u[i + 1] = t[i]
    /\ \A i \in Of(u, type) : i - 1 \in Of(t, type) /\ u[i] = t[i - 1]
    /\ Of(t, type) \subseteq Nat /\ Of(u, type) \subseteq Nat

\* Putting a Connect in front shifts every position by one.
LEMMA OfPrepend ==
    ASSUME NEW c \in ClientMessage, NEW t \in Seq(ClientMessage), NEW type, c.type # type
    PROVE  OneBack(t, <<c>> \o t, type)
<1> DEFINE u == <<c>> \o t
<1>1. <<c>> \in Seq(ClientMessage) /\ Len(<<c>>) = 1 /\ <<c>>[1] = c
    OBVIOUS
<1>2. /\ DOMAIN t = 1..Len(t) /\ Len(t) \in Nat /\ DOMAIN u = 1..(1 + Len(t))
      /\ \A i \in 1..(1 + Len(t)) : u[i] = IF i <= 1 THEN <<c>>[i] ELSE t[i - 1]
    BY <1>1, ConcatProperties, LenProperties
<1> HIDE DEF u
<1>3. ASSUME NEW i \in Of(t, type) PROVE i + 1 \in Of(u, type) /\ u[i + 1] = t[i]
    <2>1. i \in 1..Len(t) /\ t[i].type = type
        BY <1>2 DEF Of
    <2>2. i + 1 \in 1..(1 + Len(t)) /\ u[i + 1] = t[i]
        BY <1>2, <2>1
    <2> QED
        BY <1>2, <2>1, <2>2 DEF Of
<1>4. ASSUME NEW i \in Of(u, type) PROVE i - 1 \in Of(t, type) /\ u[i] = t[i - 1]
    <2>1. i \in 1..(1 + Len(t)) /\ u[i].type = type
        BY <1>2 DEF Of
    <2>2. i # 1
        BY <1>1, <1>2, <2>1
    <2>3. i - 1 \in 1..Len(t) /\ u[i] = t[i - 1]
        BY <1>2, <2>1, <2>2
    <2> QED
        BY <1>2, <2>1, <2>3 DEF Of
<1>5. Of(t, type) \subseteq Nat /\ Of(u, type) \subseteq Nat
    BY <1>2 DEF Of
<1>6. OneBack(t, u, type)
    BY <1>3, <1>4, <1>5 DEF OneBack
<1> QED
    BY <1>6 DEF u

\* Shifting a finite set of positions does not change how many there are.
LEMMA ShiftedCount ==
    ASSUME NEW S \in SUBSET Nat, NEW T \in SUBSET Nat, IsFiniteSet(S),
           \A i \in S : i + 1 \in T, \A i \in T : i - 1 \in S
    PROVE  Cardinality(T) = Cardinality(S)
<1> DEFINE f == [i \in S |-> i + 1]
<1>1. f \in [S -> T]
    OBVIOUS
<1>2. \A a, b \in S : f[a] = f[b] => a = b
    OBVIOUS
<1>3. \A y \in T : \E x \in S : f[x] = y
    <2> TAKE y \in T
    <2>1. y - 1 \in S /\ f[y - 1] = y
        OBVIOUS
    <2> QED
        BY <2>1
<1>4. f \in Bijection(S, T)
    BY <1>1, <1>2, <1>3, Fun_IsBij
<1>5. ExistsBijection(S, T)
    BY <1>4 DEF ExistsBijection
<1> QED
    BY <1>5, FS_Bijection

\* A frame of another type in front leaves the versions as they are.
LEMMA ChainPrepend ==
    ASSUME NEW c \in ClientMessage, NEW t \in Seq(ClientMessage), NEW type, c.type # type,
           NEW version, Chain(t, type, version)
    PROVE  Chain(<<c>> \o t, type, version)
<1> DEFINE u == <<c>> \o t
           S == Of(t, type)
           T == Of(u, type)
<1>0. OneBack(t, u, type)
    BY OfPrepend
<1>1. /\ S \in SUBSET Nat /\ T \in SUBSET Nat
      /\ \A i \in S : i + 1 \in T /\ u[i + 1] = t[i]
      /\ \A i \in T : i - 1 \in S /\ u[i] = t[i - 1]
    BY <1>0 DEF OneBack
<1>2. IsFiniteSet(S) /\ \A i : IsFiniteSet({j \in S : j < i})
    BY OfFinite
<1> HIDE DEF u, S, T
<1>3. Cardinality(T) = Cardinality(S)
    BY <1>1, <1>2, ShiftedCount
<1>4. ASSUME NEW i \in T PROVE u[i].base = Cardinality({j \in T : j < i})
    <2> DEFINE SI == {j \in S : j < i - 1}
               TI == {j \in T : j < i}
    <2>1. SI \in SUBSET Nat /\ TI \in SUBSET Nat /\ IsFiniteSet(SI)
        BY <1>1, <1>2
    <2>2. (\A j \in SI : j + 1 \in TI) /\ (\A j \in TI : j - 1 \in SI)
        BY <1>1
    <2>3. Cardinality(TI) = Cardinality(SI)
        <3> HIDE DEF SI, TI
        <3> QED
            BY <2>1, <2>2, ShiftedCount
    <2>4. t[i - 1].base = Cardinality(SI)
        BY <1>1 DEF Chain, S
    <2> QED
        BY <1>1, <2>3, <2>4
<1> QED
    BY <1>3, <1>4 DEF Chain, u, S, T

\* A frame in front that is no ModifyQuerySet changes no query set.
LEMMA PrependChanges ==
    ASSUME NEW c \in ClientMessage, NEW t \in Seq(ClientMessage), c.type # "ModifyQuerySet"
    PROVE  Added(<<c>> \o t) = Added(t) /\ Removed(<<c>> \o t) = Removed(t)
<1> DEFINE u == <<c>> \o t
           S == Of(t, "ModifyQuerySet")
           T == Of(u, "ModifyQuerySet")
<1>0. OneBack(t, u, "ModifyQuerySet")
    BY OfPrepend
<1>1. /\ \A i \in S : i + 1 \in T /\ u[i + 1] = t[i]
      /\ \A i \in T : i - 1 \in S /\ u[i] = t[i - 1]
    BY <1>0 DEF OneBack
<1>2. \A id : /\ id \in Added(u) <=> \E i \in T : id \in Ids(u[i].adds)
              /\ id \in Removed(u) <=> \E i \in T : id \in u[i].removes
              /\ id \in Added(t) <=> \E i \in S : id \in Ids(t[i].adds)
              /\ id \in Removed(t) <=> \E i \in S : id \in t[i].removes
    BY AddedMember
<1> HIDE DEF u, S, T
<1>3. \A id : (id \in Added(u) <=> id \in Added(t)) /\ (id \in Removed(u) <=> id \in Removed(t))
    BY <1>1, <1>2
<1> QED
    BY <1>3 DEF u

\* Frames of other types at the end change nothing.
LEMMA ConcatQuiet ==
    ASSUME NEW t \in Seq(ClientMessage), NEW s \in Seq(ClientMessage), NEW type,
           \A i \in DOMAIN s : s[i].type # type
    PROVE  /\ Of(t \o s, type) = Of(t, type)
           /\ \A i \in Of(t, type) : (t \o s)[i] = t[i]
<1> DEFINE u == t \o s
<1>1. /\ DOMAIN t = 1..Len(t) /\ Len(t) \in Nat /\ DOMAIN s = 1..Len(s) /\ Len(s) \in Nat
      /\ DOMAIN u = 1..(Len(t) + Len(s))
      /\ \A i \in 1..(Len(t) + Len(s)) : u[i] = IF i <= Len(t) THEN t[i] ELSE s[i - Len(t)]
    BY ConcatProperties, LenProperties
<1> HIDE DEF u
<1>2. ASSUME NEW i \in Of(t, type) PROVE i \in Of(u, type) /\ u[i] = t[i]
    BY <1>1 DEF Of
<1>3. ASSUME NEW i \in Of(u, type) PROVE i \in Of(t, type)
    <2>1. i \in 1..(Len(t) + Len(s)) /\ u[i].type = type
        BY <1>1 DEF Of
    <2>2. CASE i <= Len(t)
        BY <1>1, <2>1, <2>2 DEF Of
    <2>3. CASE ~(i <= Len(t))
        <3>1. i - Len(t) \in 1..Len(s) /\ u[i] = s[i - Len(t)]
            BY <1>1, <2>1, <2>3
        <3> QED
            BY <1>1, <2>1, <3>1
    <2> QED
        BY <2>2, <2>3
<1> QED
    BY <1>2, <1>3 DEF u

\* Frames of other types at the end leave the versions as they are.
LEMMA ConcatQuietChain ==
    ASSUME NEW t \in Seq(ClientMessage), NEW s \in Seq(ClientMessage), NEW type, NEW version,
           \A i \in DOMAIN s : s[i].type # type, Chain(t, type, version)
    PROVE  Chain(t \o s, type, version)
<1> DEFINE u == t \o s
           S == Of(t, type)
           T == Of(u, type)
<1>1. T = S /\ \A i \in S : u[i] = t[i]
    BY ConcatQuiet
<1>2. (\A i \in S : t[i].base = Cardinality({j \in S : j < i})) /\ version = Cardinality(S)
    BY DEF Chain
<1> HIDE DEF u, S, T
<1>3. \A i \in T : u[i].base = Cardinality({j \in T : j < i})
    BY <1>1, <1>2
<1>4. version = Cardinality(T)
    BY <1>1, <1>2
<1> QED
    BY <1>3, <1>4 DEF Chain, u, T

\* Frames at the end that are no ModifyQuerySet change no query set.
LEMMA ConcatQuietChanges ==
    ASSUME NEW t \in Seq(ClientMessage), NEW s \in Seq(ClientMessage),
           \A i \in DOMAIN s : s[i].type # "ModifyQuerySet"
    PROVE  Added(t \o s) = Added(t) /\ Removed(t \o s) = Removed(t)
<1> DEFINE u == t \o s
           T == Of(t, "ModifyQuerySet")
           U == Of(u, "ModifyQuerySet")
<1>1. U = T /\ \A i \in T : u[i] = t[i]
    BY ConcatQuiet
<1>2. \A id : /\ id \in Added(u) <=> \E i \in U : id \in Ids(u[i].adds)
              /\ id \in Removed(u) <=> \E i \in U : id \in u[i].removes
              /\ id \in Added(t) <=> \E i \in T : id \in Ids(t[i].adds)
              /\ id \in Removed(t) <=> \E i \in T : id \in t[i].removes
    BY AddedMember
<1> HIDE DEF u, U, T
<1>3. \A id : (id \in Added(u) <=> id \in Added(t)) /\ (id \in Removed(u) <=> id \in Removed(t))
    BY <1>1, <1>2
<1> QED
    BY <1>3 DEF u

\* Nothing said yet.
LEMMA EmptyScript ==
    /\ \A type : Chain(<<>>, type, 0)
    /\ Added(<<>>) = {} /\ Removed(<<>>) = {}
<1>1. \A type : Of(<<>>, type) = {}
    BY DEF Of
<1> QED
    BY <1>1, FS_EmptySet DEF Chain, Added, Removed

\* The requests restart() sends again are mutations and actions.
LEMMA ResentTypes ==
    ASSUME TypeOK, NEW ids \in SUBSET Ids(ongoing), NEW s \in Ascending(ids)
    PROVE  \A i \in DOMAIN Resend(s) : Resend(s)[i].type \in {"Mutation", "Action"}
<1>1. PICK n \in 0..nextRequestId : s \in [1..n -> ids]
    BY DEF Ascending
<1>2. ASSUME NEW i \in 1..n PROVE KindOf(s[i]) \in {"Mutation", "Action"}
    <2>1. PICK r \in ongoing : r.id = s[i]
        BY <1>1 DEF Ids
    <2>2. \E x \in ongoing : KindOf(s[i]) = x.kind
        BY <2>1 DEF KindOf
    <2> QED
        BY <2>2 DEF TypeOK, PendingRequest
<1> QED
    BY <1>1, <1>2 DEF Resend

\* The message that restores the query set adds just its ids.
LEMMA AddsOfQuerySet == Ids({AddOf(q) : q \in querySet}) = Ids(querySet)
<1> DEFINE A == {AddOf(q) : q \in querySet}
<1>1. \A id : id \in Ids(A) <=> \E a \in A : id = a.id
    BY DEF Ids
<1>2. \A id : id \in Ids(querySet) <=> \E q \in querySet : id = q.id
    BY DEF Ids
<1>3. \A q : AddOf(q).id = q.id
    BY DEF AddOf
<1>4. \A id : id \in Ids(A) <=> id \in Ids(querySet)
    BY <1>1, <1>2, <1>3
<1> HIDE DEF A
<1>5. Ids(A) = Ids(querySet)
    BY <1>4
<1> QED
    BY <1>5 DEF A

\* What restart() leaves in the queue restores the query set and the identity
\* from version 0 on.
LEMMA RestoredScript ==
    ASSUME TypeOK, NEW token \in Identity, NEW ids \in SUBSET Ids(ongoing),
           NEW s \in Ascending(ids),
           NEW t, t = AuthenticateFirst(token) \o RestoreQueries \o Resend(s)
    PROVE  /\ Chain(t, "ModifyQuerySet", IF querySet = {} THEN 0 ELSE 1)
           /\ Chain(t, "Authenticate", IF token = NoAuth THEN 0 ELSE 1)
           /\ Added(t) = Ids(querySet) /\ Removed(t) = {}
<1> DEFINE auths == AuthenticateFirst(token)
           a == Authenticate(0, token)
           m == ModifyQuerySet(0, {AddOf(q) : q \in querySet}, {})
           front == auths \o RestoreQueries
<1>1. /\ a \in ClientMessage /\ a.type = "Authenticate" /\ a.base = 0
      /\ m \in ClientMessage /\ m.type = "ModifyQuerySet" /\ m.base = 0
      /\ m.removes = {} /\ Ids(m.adds) = Ids(querySet)
    BY FramesType, AddsOfQuerySet DEF TypeOK, Authenticate, ModifyQuerySet
<1>2. /\ auths \in Seq(ClientMessage) /\ RestoreQueries \in Seq(ClientMessage)
      /\ Resend(s) \in Seq(ClientMessage)
    BY RestoredPartsType
<1>3. auths = IF token = NoAuth THEN <<>> ELSE Append(<<>>, a)
    BY DEF AuthenticateFirst
<1>4. front = IF querySet = {} THEN auths ELSE Append(auths, m)
    <2>1. auths \o <<>> = auths
        BY <1>2, ConcatEmptySeq
    <2>2. Append(auths, m) = auths \o <<m>>
        BY <1>1, <1>2, AppendIsConcat
    <2>3. RestoreQueries = IF querySet = {} THEN <<>> ELSE <<m>>
        BY DEF RestoreQueries
    <2> HIDE DEF auths, m
    <2> QED
        BY <2>1, <2>2, <2>3
<1> HIDE DEF auths, a, m
<1>5. /\ Chain(auths, "Authenticate", IF token = NoAuth THEN 0 ELSE 1)
      /\ Chain(auths, "ModifyQuerySet", 0)
      /\ Added(auths) = {} /\ Removed(auths) = {}
    <2>1. CASE token = NoAuth
        BY <1>3, <2>1, EmptyScript
    <2>2. CASE token # NoAuth
        <3>1. <<>> \in Seq(ClientMessage)
            BY EmptySeq
        <3>2. auths = Append(<<>>, a)
            BY <1>3, <2>2
        <3>3. Chain(Append(<<>>, a), "Authenticate", 0 + 1)
            BY <1>1, <3>1, ChainAppend, EmptyScript
        <3>4. Chain(Append(<<>>, a), "ModifyQuerySet", 0)
            BY <1>1, <3>1, ChainAppend, EmptyScript
        <3>5. Added(Append(<<>>, a)) = {} /\ Removed(Append(<<>>, a)) = {}
            BY <1>1, <3>1, AppendChanges, EmptyScript
        <3>6. Chain(auths, "Authenticate", 1)
            BY <3>2, <3>3
        <3>7. Chain(auths, "ModifyQuerySet", 0) /\ Added(auths) = {} /\ Removed(auths) = {}
            BY <3>2, <3>4, <3>5
        <3> QED
            BY <2>2, <3>6, <3>7
    <2> QED
        BY <2>1, <2>2
<1>6. /\ Chain(front, "Authenticate", IF token = NoAuth THEN 0 ELSE 1)
      /\ Chain(front, "ModifyQuerySet", IF querySet = {} THEN 0 ELSE 1)
      /\ Added(front) = Ids(querySet) /\ Removed(front) = {}
    <2> HIDE DEF front
    <2>1. CASE querySet = {}
        BY <1>4, <1>5, <2>1 DEF Ids
    <2>2. CASE querySet # {}
        <3>1. front = Append(auths, m)
            BY <1>4, <2>2
        <3>2. Chain(front, "Authenticate", IF token = NoAuth THEN 0 ELSE 1)
            BY <1>1, <1>2, <1>5, <3>1, ChainAppend
        <3>3. Chain(front, "ModifyQuerySet", 0 + 1)
            BY <1>1, <1>2, <1>5, <3>1, ChainAppend
        <3>4. Added(front) = Ids(querySet) /\ Removed(front) = {}
            <4>1. /\ Added(Append(auths, m)) = Added(auths) \cup Ids(m.adds)
                  /\ Removed(Append(auths, m)) = Removed(auths) \cup m.removes
                BY <1>1, <1>2, AppendChanges
            <4>2. Added(auths) \cup Ids(m.adds) = Ids(querySet)
                BY ONLY <1>1, <1>5
            <4>3. Removed(auths) \cup m.removes = {}
                BY ONLY <1>1, <1>5
            <4> QED
                BY <3>1, <4>1, <4>2, <4>3
        <3> QED
            BY <2>2, <3>2, <3>3, <3>4
    <2> QED
        BY <2>1, <2>2
<1>7. front \in Seq(ClientMessage)
    BY <1>2, ConcatProperties
<1>8. \A i \in DOMAIN Resend(s) : /\ Resend(s)[i].type # "ModifyQuerySet"
                                  /\ Resend(s)[i].type # "Authenticate"
    BY ResentTypes
<1>9. t = front \o Resend(s)
    BY DEF auths
<1> HIDE DEF front
<1> QED
    BY <1>2, <1>6, <1>7, <1>8, <1>9, ConcatQuietChain, ConcatQuietChanges, SMTT(30)

-----------------------------------------------------------------------------
(* The script of the connection follows the state machine.                 *)

\* The inductive invariant behind VersionChain and ScriptYieldsQuerySet: no
\* query id comes back, so a query that was removed is never added again, and
\* a closed connection has sent nothing yet.
ScriptInv ==
    /\ ~linked => sent = <<>>
    /\ Chain(Script, "ModifyQuerySet", querySetVersion)
    /\ Chain(Script, "Authenticate", identityVersion)
    /\ \A id : id \in Ids(querySet) <=> id \in Added(Script) /\ id \notin Removed(Script)
    /\ \A id : id \in Added(Script) \/ id \in Removed(Script) => id \in Nat /\ id < nextQueryId

\* drain_outgoing() moves frames along the script and keeps the script.
LEMMA DrainScript ==
    ASSUME TypeOK, ~linked => sent = <<>>, UNCHANGED linked,
           NEW queue \in Seq(ClientMessage), Drain(queue)
    PROVE  /\ Script' = sent \o queue
           /\ ~linked' => sent' = <<>>
<1>1. CASE linked
    <2>1. sent' = sent \o queue /\ outgoing' = <<>>
        BY <1>1 DEF Drain
    <2>2. sent \o queue \in Seq(ClientMessage)
        BY ConcatProperties DEF TypeOK
    <2> QED
        BY <1>1, <2>1, <2>2, ConcatEmptySeq DEF Script
<1>2. CASE ~linked
    BY <1>2 DEF Drain, Script
<1> QED
    BY <1>1, <1>2

\* Nothing new is queued, or one frame.
LEMMA ScriptGrows ==
    ASSUME TypeOK, ~linked => sent = <<>>, UNCHANGED linked
    PROVE  /\ Script \in Seq(ClientMessage)
           /\ Drain(outgoing) => Script' = Script
           /\ \A f \in ClientMessage : Drain(Append(outgoing, f)) => Script' = Append(Script, f)
           /\ \A queue \in Seq(ClientMessage) : Drain(queue) => (~linked' => sent' = <<>>)
<1>1. sent \in Seq(ClientMessage) /\ outgoing \in Seq(ClientMessage)
    BY DEF TypeOK
<1>2. Script \in Seq(ClientMessage)
    BY <1>1, ConcatProperties DEF Script
<1>3. ASSUME Drain(outgoing) PROVE Script' = Script
    BY <1>1, <1>3, DrainScript DEF Script
<1>4. ASSUME NEW f \in ClientMessage, Drain(Append(outgoing, f)) PROVE Script' = Append(Script, f)
    <2>1. Append(outgoing, f) \in Seq(ClientMessage)
        BY <1>1, AppendProperties
    <2>2. Script' = sent \o Append(outgoing, f)
        BY <1>4, <2>1, DrainScript
    <2>3. Append(outgoing, f) = outgoing \o <<f>> /\ Append(Script, f) = Script \o <<f>>
        BY <1>1, <1>2, AppendIsConcat
    <2>4. <<f>> \in Seq(ClientMessage)
        OBVIOUS
    <2>5. sent \o (outgoing \o <<f>>) = (sent \o outgoing) \o <<f>>
        BY <1>1, <2>4, ConcatAssociative
    <2> QED
        BY <2>2, <2>3, <2>5 DEF Script
<1> QED
    BY <1>2, <1>3, <1>4, DrainScript

\* Nothing the script is about changed.
LEMMA ScriptKept ==
    ASSUME ScriptInv, Script' = Script, ~linked' => sent' = <<>>,
           querySetVersion' = querySetVersion, identityVersion' = identityVersion,
           Ids(querySet)' = Ids(querySet), nextQueryId' = nextQueryId
    PROVE  ScriptInv'
<1>1. PICK t : t = Script
    OBVIOUS
<1>2. Script' = t
    BY <1>1
<1> QED
    BY <1>1, <1>2 DEF ScriptInv

\* The ids of a set, one by one.
LEMMA IdsMemberOf == \A set, id : id \in Ids(set) <=> \E x \in set : x.id = id
BY DEF Ids

\* A query more: ModifyQuerySet adds an id that was never used.
LEMMA ScriptSubscribes ==
    ASSUME TypeOK, ScriptInv, NEW token \in Tokens, SubscribeNew(token)
    PROVE  ScriptInv'
<1>1. PICK q : q = [id |-> nextQueryId, token |-> token, num |-> 1, journal |-> NoJournal]
    OBVIOUS
<1>2. PICK m : m = ModifyQuerySet(querySetVersion, {AddOf(q)}, {})
    OBVIOUS
<1>3. /\ querySet' = querySet \cup {q} /\ nextQueryId' = nextQueryId + 1
      /\ querySetVersion' = querySetVersion + 1 /\ Drain(Append(outgoing, m))
      /\ linked' = linked /\ identityVersion' = identityVersion
    BY <1>1, <1>2 DEF SubscribeNew, linkVars, identityVars
<1>4. q \in LocalQuery /\ AddOf(q).id = nextQueryId /\ q.id = nextQueryId /\ nextQueryId \in Nat
    BY <1>1 DEF LocalQuery, AddOf, TypeOK
<1>5. /\ m \in ClientMessage /\ m.type = "ModifyQuerySet" /\ m.base = querySetVersion
      /\ m.removes = {} /\ m.adds = {AddOf(q)} /\ querySetVersion \in Nat /\ identityVersion \in Nat
    BY <1>2, <1>4, FramesType DEF ModifyQuerySet, TypeOK
<1>6. PICK t \in Seq(ClientMessage) : t = Script
    BY <1>3, ScriptGrows DEF ScriptInv
<1>7. Script' = Append(t, m) /\ (~linked' => sent' = <<>>)
    <2>1. Append(outgoing, m) \in Seq(ClientMessage)
        BY <1>5, AppendProperties DEF TypeOK
    <2> QED
        BY <1>3, <1>5, <1>6, <2>1, ScriptGrows DEF ScriptInv
<1>8. /\ Chain(Append(t, m), "ModifyQuerySet", querySetVersion + 1)
      /\ Chain(Append(t, m), "Authenticate", identityVersion)
    BY <1>5, <1>6, ChainAppend DEF ScriptInv
<1>9. Added(Append(t, m)) = Added(t) \cup Ids(m.adds) /\ Removed(Append(t, m)) = Removed(t)
    <2>1. /\ Added(Append(t, m)) = Added(t) \cup Ids(m.adds)
          /\ Removed(Append(t, m)) = Removed(t) \cup m.removes
        BY <1>5, AppendChanges
    <2>2. Removed(t) \cup m.removes = Removed(t)
        BY ONLY <1>5
    <2> QED
        BY <2>1, <2>2
<1>10. \A id : id \in Ids(m.adds) <=> id = nextQueryId
    BY <1>4, <1>5, IdsMemberOf
<1>11. \A id : id \in Ids(querySet') <=> id \in Ids(querySet) \/ id = nextQueryId
    BY <1>3, <1>4, IdsMemberOf
<1>12. /\ \A id : id \in Ids(querySet) <=> id \in Added(t) /\ id \notin Removed(t)
       /\ \A id : id \in Added(t) \/ id \in Removed(t) => id \in Nat /\ id < nextQueryId
    BY <1>6 DEF ScriptInv
<1>13. nextQueryId \notin Removed(t)
    BY <1>4, <1>12
<1>14. \A id : id \in Ids(querySet') <=>
                  id \in Added(Append(t, m)) /\ id \notin Removed(Append(t, m))
    BY <1>9, <1>10, <1>11, <1>12, <1>13
<1>15. \A id : id \in Added(Append(t, m)) \/ id \in Removed(Append(t, m)) =>
                  id \in Nat /\ id < nextQueryId'
    BY <1>3, <1>4, <1>9, <1>10, <1>12
<1> QED
    BY <1>3, <1>7, <1>8, <1>14, <1>15 DEF ScriptInv

\* A query less: its id joins the removed ones for good.
LEMMA ScriptReleases ==
    ASSUME TypeOK, QueryInv, ScriptInv, NEW q \in querySet, ReleaseLast(q),
           UNCHANGED <<nextQueryId, linked, identityVersion>>
    PROVE  ScriptInv'
<1>1. PICK m : m = ModifyQuerySet(querySetVersion, {}, {q.id})
    OBVIOUS
<1>2. /\ querySet' = querySet \ {q} /\ querySetVersion' = querySetVersion + 1
      /\ Drain(Append(outgoing, m))
    BY <1>1 DEF ReleaseLast
<1>3. q.id \in Nat /\ q.id < nextQueryId
    BY DEF TypeOK, LocalQuery, QueryInv
<1>4. /\ m \in ClientMessage /\ m.type = "ModifyQuerySet" /\ m.base = querySetVersion
      /\ m.removes = {q.id} /\ m.adds = {} /\ querySetVersion \in Nat /\ identityVersion \in Nat
    BY <1>1, <1>3, FramesType DEF ModifyQuerySet, TypeOK
<1>5. PICK t \in Seq(ClientMessage) : t = Script
    BY ScriptGrows DEF ScriptInv
<1>6. Script' = Append(t, m) /\ (~linked' => sent' = <<>>)
    <2>1. Append(outgoing, m) \in Seq(ClientMessage)
        BY <1>4, AppendProperties DEF TypeOK
    <2> QED
        BY <1>2, <1>4, <1>5, <2>1, ScriptGrows DEF ScriptInv
<1>7. /\ Chain(Append(t, m), "ModifyQuerySet", querySetVersion + 1)
      /\ Chain(Append(t, m), "Authenticate", identityVersion)
    BY <1>4, <1>5, ChainAppend DEF ScriptInv
<1>8. /\ Added(Append(t, m)) = Added(t) \cup Ids(m.adds)
      /\ Removed(Append(t, m)) = Removed(t) \cup m.removes
    BY <1>4, <1>5, AppendChanges
<1>9. \A id : id \notin Ids(m.adds)
    BY <1>4, IdsMemberOf
<1>10. \A id : id \in Ids(querySet') <=> id \in Ids(querySet) /\ id # q.id
    BY <1>2, IdsMemberOf DEF QueryInv, UniqueQueries
<1>11. /\ \A id : id \in Ids(querySet) <=> id \in Added(t) /\ id \notin Removed(t)
       /\ \A id : id \in Added(t) \/ id \in Removed(t) => id \in Nat /\ id < nextQueryId
    BY <1>5 DEF ScriptInv
<1>12. \A id : id \in Ids(querySet') <=>
                  id \in Added(Append(t, m)) /\ id \notin Removed(Append(t, m))
    BY <1>4, <1>8, <1>9, <1>10, <1>11
<1>13. \A id : id \in Added(Append(t, m)) \/ id \in Removed(Append(t, m)) =>
                  id \in Nat /\ id < nextQueryId'
    BY <1>3, <1>4, <1>8, <1>9, <1>11
<1> QED
    BY <1>2, <1>6, <1>7, <1>12, <1>13 DEF ScriptInv

\* A frame that is no ModifyQuerySet: the query set stays as it is, and
\* Authenticate takes the next identity version.
LEMMA ScriptSends ==
    ASSUME TypeOK, ScriptInv, NEW f \in ClientMessage, f.type # "ModifyQuerySet",
           Drain(Append(outgoing, f)),
           \/ f.type = "Authenticate" /\ f.base = identityVersion
                  /\ identityVersion' = identityVersion + 1
           \/ f.type # "Authenticate" /\ identityVersion' = identityVersion,
           UNCHANGED <<nextQueryId, querySet, querySetVersion, linked>>
    PROVE  ScriptInv'
<1>1. PICK t \in Seq(ClientMessage) : t = Script
    BY ScriptGrows DEF ScriptInv
<1>2. Script' = Append(t, f) /\ (~linked' => sent' = <<>>)
    <2>1. Append(outgoing, f) \in Seq(ClientMessage)
        BY AppendProperties DEF TypeOK
    <2> QED
        BY <1>1, <2>1, ScriptGrows DEF ScriptInv
<1>3. querySetVersion \in Nat /\ identityVersion \in Nat
    BY DEF TypeOK
<1>4. /\ Chain(Append(t, f), "ModifyQuerySet", querySetVersion')
      /\ Chain(Append(t, f), "Authenticate", identityVersion')
    BY <1>1, <1>3, ChainAppend DEF ScriptInv
<1>5. Added(Append(t, f)) = Added(t) /\ Removed(Append(t, f)) = Removed(t)
    BY AppendChanges
<1>6. /\ \A id : id \in Ids(querySet) <=> id \in Added(t) /\ id \notin Removed(t)
      /\ \A id : id \in Added(t) \/ id \in Removed(t) => id \in Nat /\ id < nextQueryId
    BY <1>1 DEF ScriptInv
<1> QED
    BY <1>2, <1>4, <1>5, <1>6 DEF ScriptInv

\* restart() starts the script over.
LEMMA ScriptRestarts ==
    ASSUME TypeOK, QueryInv, NEW token \in Identity, Reconnect(token)
    PROVE  ScriptInv'
<1>1. PICK ids : ids = Ids(ongoing \ LostActions(outgoing))
    OBVIOUS
<1>2. ids \in SUBSET Ids(ongoing)
    BY <1>1 DEF Ids
<1>3. PICK s \in Ascending(ids) :
          outgoing' = AuthenticateFirst(token) \o RestoreQueries \o Resend(s)
    BY <1>1 DEF Reconnect
<1>4. PICK t \in Seq(ClientMessage) : t = AuthenticateFirst(token) \o RestoreQueries \o Resend(s)
    BY <1>2, RestoredType
<1>5. /\ Chain(t, "ModifyQuerySet", IF querySet = {} THEN 0 ELSE 1)
      /\ Chain(t, "Authenticate", IF token = NoAuth THEN 0 ELSE 1)
      /\ Added(t) = Ids(querySet) /\ Removed(t) = {}
    BY <1>2, <1>4, RestoredScript
<1>6. /\ linked' = FALSE /\ sent' = <<>> /\ querySet' = querySet /\ nextQueryId' = nextQueryId
      /\ querySetVersion' = (IF querySet = {} THEN 0 ELSE 1)
      /\ identityVersion' = (IF token = NoAuth THEN 0 ELSE 1)
    BY DEF Reconnect
<1>7. Script' = t
    BY <1>3, <1>4, <1>6, ConcatEmptySeq DEF Script
<1>8. \A id : id \in Ids(querySet) => id \in Nat /\ id < nextQueryId
    BY IdsMemberOf DEF TypeOK, LocalQuery, QueryInv
<1> QED
    BY <1>5, <1>6, <1>7, <1>8 DEF ScriptInv

\* handle_open() puts Connect in front of the script.
LEMMA ScriptOpens ==
    ASSUME TypeOK, ScriptInv, Open
    PROVE  ScriptInv'
<1>1. PICK c : c = [type |-> "Connect", count |-> connectionCount, maxObserved |-> maxObserved]
    OBVIOUS
<1>2. c \in ClientMessage /\ c.type = "Connect"
    BY <1>1 DEF ClientMessage, TypeOK
<1>3. PICK t \in Seq(ClientMessage) : t = outgoing
    BY DEF TypeOK
<1>4. Script = t
    BY <1>3, ConcatEmptySeq DEF Script, ScriptInv, Open
<1>5. sent' = <<c>> \o t /\ outgoing' = <<>> /\ linked' = TRUE
    BY <1>1, <1>3 DEF Open
<1>6. Script' = <<c>> \o t
    <2>1. <<c>> \in Seq(ClientMessage)
        BY <1>2
    <2>2. <<c>> \o t \in Seq(ClientMessage)
        BY <2>1, ConcatProperties
    <2> QED
        BY <1>5, <2>2, ConcatEmptySeq DEF Script
<1>7. /\ Chain(<<c>> \o t, "ModifyQuerySet", querySetVersion)
      /\ Chain(<<c>> \o t, "Authenticate", identityVersion)
    BY <1>2, <1>4, ChainPrepend DEF ScriptInv
<1>8. Added(<<c>> \o t) = Added(t) /\ Removed(<<c>> \o t) = Removed(t)
    BY <1>2, PrependChanges
<1>9. UNCHANGED <<querySet, nextQueryId, querySetVersion, identityVersion>>
    BY DEF Open, queryVars, identityVars
<1>10. /\ \A id : id \in Ids(querySet) <=> id \in Added(t) /\ id \notin Removed(t)
       /\ \A id : id \in Added(t) \/ id \in Removed(t) => id \in Nat /\ id < nextQueryId
    BY <1>4 DEF ScriptInv
<1> QED
    BY <1>5, <1>6, <1>7, <1>8, <1>9, <1>10 DEF ScriptInv

\* Every critical section keeps script and state machine in step.
LEMMA ScriptStep ==
    ASSUME TypeOK, QueryInv, ScriptInv, [AnyNext]_vars
    PROVE  ScriptInv'
<1>1. ASSUME Drain(outgoing), UNCHANGED <<nextQueryId, querySetVersion, identityVersion, linked>>,
             Ids(querySet)' = Ids(querySet)
      PROVE  ScriptInv'
    <2>1. Script' = Script /\ (~linked' => sent' = <<>>)
        BY <1>1, ScriptGrows DEF ScriptInv, TypeOK
    <2> QED
        BY <1>1, <2>1, ScriptKept
<1>2. ASSUME NEW q \in querySet, NEW x, x.id = q.id, querySet' = (querySet \ {q}) \cup {x}
      PROVE  Ids(querySet)' = Ids(querySet)
    <2>1. \A id : id \in Ids(querySet') <=> id \in Ids(querySet)
        BY <1>2, IdsMemberOf
    <2> QED
        BY <2>1
<1>3. ASSUME NEW q \in querySet, SubscribeShared(q) PROVE ScriptInv'
    <2>1. Joined(q).id = q.id
        BY DEF Joined, TypeOK, LocalQuery
    <2> QED
        BY <1>1, <1>2, <1>3, <2>1 DEF SubscribeShared, identityVars, linkVars
<1>4. ASSUME NEW s \in subs, Unsubscribe(s) PROVE ScriptInv'
    <2>1. PICK q \in querySet : ReleaseShared(q) \/ ReleaseLast(q)
        BY <1>4 DEF Unsubscribe
    <2>2. UNCHANGED <<nextQueryId, linked, identityVersion>>
        BY <1>4 DEF Unsubscribe, identityVars, linkVars
    <2>3. CASE ReleaseShared(q)
        <3>1. [q EXCEPT !.num = @ - 1].id = q.id
            BY DEF TypeOK, LocalQuery
        <3> QED
            BY <1>1, <1>2, <2>2, <2>3, <3>1 DEF ReleaseShared
    <2>4. CASE ReleaseLast(q)
        BY <2>2, <2>4, ScriptReleases
    <2> QED
        BY <2>1, <2>3, <2>4
<1>5. ASSUME NEW kind \in {"Mutation", "Action"}, Request(kind) PROVE ScriptInv'
    <2>1. PICK f : f = OriginalMessage([id |-> nextRequestId, kind |-> kind,
                                        completed |-> FALSE, ts |-> NoTs])
        OBVIOUS
    <2>2. f \in ClientMessage /\ f.type = kind
        BY <2>1 DEF OriginalMessage, ClientMessage, TypeOK
    <2>3. Drain(Append(outgoing, f))
        BY <1>5, <2>1 DEF Request
    <2>4. UNCHANGED <<nextQueryId, querySet, querySetVersion, linked, identityVersion>>
        BY <1>5 DEF Request, queryVars, identityVars, linkVars
    <2> QED
        BY <2>2, <2>3, <2>4, ScriptSends
<1>6. ASSUME NEW token \in Identity, SetAuth(token) PROVE ScriptInv'
    <2>1. PICK f : f = Authenticate(identityVersion, token)
        OBVIOUS
    <2>2. f \in ClientMessage /\ f.type = "Authenticate" /\ f.base = identityVersion
        BY <2>1, FramesType DEF Authenticate, TypeOK
    <2>3. Drain(Append(outgoing, f)) /\ identityVersion' = identityVersion + 1
        BY <1>6, <2>1 DEF SetAuth
    <2>4. UNCHANGED <<nextQueryId, querySet, querySetVersion, linked>>
        BY <1>6 DEF SetAuth, queryVars, linkVars
    <2> QED
        BY <2>2, <2>3, <2>4, ScriptSends
<1>7. ASSUME NEW t, ApplyTransition(t) PROVE ScriptInv'
    <2>1. querySet' = JournalsAfter(t.mods) /\ Drain(outgoing)
              /\ UNCHANGED <<nextQueryId, querySetVersion, identityVersion, linked>>
        BY <1>7 DEF ApplyTransition, identityVars, linkVars
    <2>2. \A q \in querySet : [q EXCEPT !.journal = JournalOf(q, t.mods)].id = q.id
        BY DEF TypeOK, LocalQuery
    <2>3. \A id : id \in Ids(querySet') <=> id \in Ids(querySet)
        <3>1. \A x : x \in querySet' <=>
                         \E q \in querySet : x = [q EXCEPT !.journal = JournalOf(q, t.mods)]
            BY <2>1 DEF JournalsAfter
        <3>2. ASSUME NEW x \in querySet' PROVE \E q \in querySet : q.id = x.id
            <4>1. PICK q \in querySet : x = [q EXCEPT !.journal = JournalOf(q, t.mods)]
                BY <3>1
            <4> QED
                BY <2>2, <4>1
        <3>3. ASSUME NEW q \in querySet PROVE \E x \in querySet' : q.id = x.id
            <4>1. [q EXCEPT !.journal = JournalOf(q, t.mods)] \in querySet'
                BY <3>1
            <4> QED
                BY <2>2, <4>1
        <3> QED
            BY <3>2, <3>3, IdsMemberOf
    <2>4. Ids(querySet)' = Ids(querySet)
        BY <2>3
    <2> QED
        BY <1>1, <2>1, <2>4
<1>8. ASSUME NEW m, ReceiveMutationResponse(m) \/ ReceiveActionResponse(m) PROVE ScriptInv'
    BY <1>1, <1>8 DEF ReceiveMutationResponse, ReceiveActionResponse, queryVars, identityVars,
                      linkVars
<1>9. CASE UNCHANGED vars
    <2>1. Script' = Script /\ UNCHANGED <<linked, sent, querySet, nextQueryId, querySetVersion,
                                          identityVersion>>
        BY <1>9 DEF vars, queryVars, identityVars, wireVars, linkVars, Script
    <2> QED
        BY <2>1, ScriptKept DEF ScriptInv
<1> QED
    BY <1>3, <1>4, <1>5, <1>6, <1>7, <1>8, <1>9, ScriptSubscribes, ScriptRestarts, ScriptOpens
    DEF AnyNext, User, Receive, RejectTransition, Disconnect

\* ScriptInv holds when the client is made.
LEMMA ScriptInit == Init => ScriptInv
<1> SUFFICES ASSUME Init PROVE ScriptInv
    OBVIOUS
<1>1. Script = <<>>
    BY DEF Init, Script
<1>2. \A id : id \notin Ids(querySet)
    BY IdsMemberOf DEF Init
<1> QED
    BY <1>1, <1>2, EmptyScript DEF Init, ScriptInv

\* ScriptInv is an invariant.
LEMMA ScriptCorrect == Spec => []ScriptInv
<1>1. Init => ScriptInv
    BY ScriptInit
<1>2. TypeOK /\ QueryInv /\ ScriptInv /\ [Next]_vars => ScriptInv'
    BY ScriptStep, NextIsAny
<1> QED
    BY <1>1, <1>2, TypeCorrect, QueriesCorrect, PTL DEF Spec

\* The versions of a connection follow on from 0 without a gap or a repeat and
\* end where the client is: the server has no version to refuse.
THEOREM VersionsFollowOn == Spec => []VersionChain
<1>1. ScriptInv => VersionChain
    BY DEF ScriptInv, VersionChain, Chain, Of, Modifies
<1> QED
    BY <1>1, ScriptCorrect, PTL

\* The messages of a connection leave the server with the client's query set.
THEOREM ServerLearnsQuerySet == Spec => []ScriptYieldsQuerySet
<1>1. Modifies = Of(Script, "ModifyQuerySet")
    BY DEF Modifies, Of
<1>2. ScriptInv => ScriptYieldsQuerySet
    BY <1>1, AddedMember DEF ScriptInv, ScriptYieldsQuerySet
<1> QED
    BY <1>2, ScriptCorrect, PTL

-----------------------------------------------------------------------------
(* What a server may rely on: it refuses a query set it cannot apply.      *)

\* The ModifyQuerySets of a script raise the version by one, add no query twice
\* and remove only what was added before, each once.
Orderly(t) ==
    \A i \in Of(t, "ModifyQuerySet") :
        /\ t[i].new = t[i].base + 1
        /\ \A j \in Of(t, "ModifyQuerySet") : j # i =>
              \A id : /\ id \in Ids(t[i].adds) => id \notin Ids(t[j].adds)
                      /\ id \in t[i].removes => id \notin t[j].removes
        /\ \A id \in t[i].removes :
              \E j \in Of(t, "ModifyQuerySet") : j < i /\ id \in Ids(t[j].adds)

\* A frame the client queues while it stays connected, or stays unconnected.
NewFrame(f) ==
    /\ f \in ClientMessage /\ f.type # "Connect"
    /\ f.type # "ModifyQuerySet" => querySetVersion' = querySetVersion
    /\ f.type = "ModifyQuerySet" =>
          /\ f.base = querySetVersion /\ f.new = querySetVersion + 1
          /\ querySetVersion' = querySetVersion + 1
          /\ \A id \in Ids(f.adds) : id \notin Added(Script)
          /\ f.removes \subseteq Ids(querySet)

\* What a critical section other than a restart or an open does to the script.
ScriptMove ==
    /\ linked' = linked
    /\ \/ Script' = Script /\ querySetVersion' = querySetVersion
       \/ \E f : NewFrame(f) /\ Script' = Append(Script, f)

\* A query set change is the next frame.
LEMMA FrameMoves ==
    ASSUME TypeOK, ScriptInv, linked' = linked, NEW f, NewFrame(f), Drain(Append(outgoing, f))
    PROVE  ScriptMove
<1>1. Script' = Append(Script, f)
    BY ScriptGrows DEF ScriptInv, NewFrame
<1> QED
    BY <1>1 DEF ScriptMove

\* Nothing but a restart or an open does anything else to the script.
LEMMA ScriptMoves ==
    ASSUME TypeOK, QueryInv, ScriptInv,
           \/ User
           \/ \E m \in ServerMessage : \/ ApplyTransition(m)
                                       \/ ReceiveMutationResponse(m)
                                       \/ ReceiveActionResponse(m)
           \/ UNCHANGED vars
    PROVE  ScriptMove
<1>1. ASSUME Drain(outgoing), UNCHANGED <<querySetVersion, linked>> PROVE ScriptMove
    BY <1>1, ScriptGrows DEF ScriptInv, ScriptMove
<1>2. ASSUME NEW q \in querySet, SubscribeShared(q) PROVE ScriptMove
    BY <1>1, <1>2 DEF SubscribeShared, linkVars
<1>3. ASSUME NEW token \in Tokens, SubscribeNew(token) PROVE ScriptMove
    <2>1. PICK q : q = [id |-> nextQueryId, token |-> token, num |-> 1, journal |-> NoJournal]
        OBVIOUS
    <2>2. PICK f : f = ModifyQuerySet(querySetVersion, {AddOf(q)}, {})
        OBVIOUS
    <2>3. q \in LocalQuery /\ AddOf(q).id = nextQueryId /\ nextQueryId \in Nat
        BY <2>1 DEF LocalQuery, AddOf, TypeOK
    <2>4. /\ Drain(Append(outgoing, f)) /\ querySetVersion' = querySetVersion + 1
          /\ linked' = linked
        BY <1>3, <2>1, <2>2 DEF SubscribeNew, linkVars
    <2>5. /\ f \in ClientMessage /\ f.type = "ModifyQuerySet" /\ f.base = querySetVersion
          /\ f.new = querySetVersion + 1 /\ f.removes = {} /\ f.adds = {AddOf(q)}
        BY <2>2, <2>3, FramesType DEF ModifyQuerySet, TypeOK
    <2>6. \A id \in Ids(f.adds) : id \notin Added(Script)
        BY <2>3, <2>5, IdsMemberOf DEF ScriptInv
    <2> QED
        BY <2>4, <2>5, <2>6, FrameMoves DEF NewFrame
<1>4. ASSUME NEW s \in subs, Unsubscribe(s) PROVE ScriptMove
    <2>1. PICK q \in querySet : ReleaseShared(q) \/ ReleaseLast(q)
        BY <1>4 DEF Unsubscribe
    <2>2. linked' = linked
        BY <1>4 DEF Unsubscribe, linkVars
    <2>3. CASE ReleaseShared(q)
        BY <1>1, <2>2, <2>3 DEF ReleaseShared
    <2>4. CASE ReleaseLast(q)
        <3>1. PICK f : f = ModifyQuerySet(querySetVersion, {}, {q.id})
            OBVIOUS
        <3>2. Drain(Append(outgoing, f)) /\ querySetVersion' = querySetVersion + 1
            BY <2>4, <3>1 DEF ReleaseLast
        <3>3. /\ f \in ClientMessage /\ f.type = "ModifyQuerySet" /\ f.base = querySetVersion
              /\ f.new = querySetVersion + 1 /\ f.removes = {q.id} /\ f.adds = {}
            BY <3>1, FramesType DEF ModifyQuerySet, TypeOK, LocalQuery
        <3>4. (\A id : id \notin Ids(f.adds)) /\ f.removes \subseteq Ids(querySet)
            BY <3>3, IdsMemberOf
        <3> QED
            BY <2>2, <3>2, <3>3, <3>4, FrameMoves DEF NewFrame
    <2> QED
        BY <2>1, <2>3, <2>4
<1>5. ASSUME NEW kind \in {"Mutation", "Action"}, Request(kind) PROVE ScriptMove
    <2>1. PICK f : f = OriginalMessage([id |-> nextRequestId, kind |-> kind,
                                        completed |-> FALSE, ts |-> NoTs])
        OBVIOUS
    <2>2. f \in ClientMessage /\ f.type = kind
        BY <2>1 DEF OriginalMessage, ClientMessage, TypeOK
    <2>3. Drain(Append(outgoing, f)) /\ UNCHANGED <<querySetVersion, linked>>
        BY <1>5, <2>1 DEF Request, queryVars, linkVars
    <2> QED
        BY <2>2, <2>3, FrameMoves DEF NewFrame
<1>6. ASSUME NEW token \in Identity, SetAuth(token) PROVE ScriptMove
    <2>1. PICK f : f = Authenticate(identityVersion, token)
        OBVIOUS
    <2>2. f \in ClientMessage /\ f.type = "Authenticate"
        BY <2>1, FramesType DEF Authenticate, TypeOK
    <2>3. Drain(Append(outgoing, f)) /\ UNCHANGED <<querySetVersion, linked>>
        BY <1>6, <2>1 DEF SetAuth, queryVars, linkVars
    <2> QED
        BY <2>2, <2>3, FrameMoves DEF NewFrame
<1>7. ASSUME NEW m, ApplyTransition(m) \/ ReceiveMutationResponse(m) \/ ReceiveActionResponse(m)
      PROVE  ScriptMove
    BY <1>1, <1>7 DEF ApplyTransition, ReceiveMutationResponse, ReceiveActionResponse, queryVars,
                      linkVars
<1>8. CASE UNCHANGED vars
    BY <1>8 DEF vars, queryVars, wireVars, linkVars, Script, ScriptMove
<1> QED
    BY <1>2, <1>3, <1>4, <1>5, <1>6, <1>7, <1>8 DEF User

\* The next frame keeps a script orderly.
LEMMA OrderlyAppend ==
    ASSUME TypeOK, ScriptInv, NEW t \in Seq(ClientMessage), t = Script, Orderly(t),
           NEW f, NewFrame(f)
    PROVE  Orderly(Append(t, f))
<1> DEFINE u == Append(t, f)
           S == Of(t, "ModifyQuerySet")
           T == Of(u, "ModifyQuerySet")
           n == Len(t)
<1>1. /\ f \in ClientMessage
      /\ f.type = "ModifyQuerySet" =>
            /\ f.new = f.base + 1
            /\ \A id \in Ids(f.adds) : id \notin Added(t)
            /\ \A id \in f.removes : id \in Added(t) /\ id \notin Removed(t)
    BY DEF NewFrame, ScriptInv
<1>2. /\ T = S \cup (IF f.type = "ModifyQuerySet" THEN {n + 1} ELSE {})
      /\ \A i \in S : u[i] = t[i] /\ i \in 1..n
      /\ u[n + 1] = f /\ n \in Nat
    BY <1>1, OfAppend
<1>3. \A id : /\ id \in Added(t) <=> \E i \in S : id \in Ids(t[i].adds)
              /\ id \in Removed(t) <=> \E i \in S : id \in t[i].removes
    BY AddedMember
<1>4. \A i \in S :
          /\ t[i].new = t[i].base + 1
          /\ \A j \in S : j # i => \A id : /\ id \in Ids(t[i].adds) => id \notin Ids(t[j].adds)
                                           /\ id \in t[i].removes => id \notin t[j].removes
          /\ \A id \in t[i].removes : \E j \in S : j < i /\ id \in Ids(t[j].adds)
    BY DEF Orderly
<1> HIDE DEF u, S, T, n
<1>5. ASSUME NEW i \in T
      PROVE  /\ u[i].new = u[i].base + 1
             /\ \A j \in T : j # i =>
                   \A id : /\ id \in Ids(u[i].adds) => id \notin Ids(u[j].adds)
                           /\ id \in u[i].removes => id \notin u[j].removes
             /\ \A id \in u[i].removes : \E j \in T : j < i /\ id \in Ids(u[j].adds)
    <2>1. CASE i \in S
        BY <1>1, <1>2, <1>3, <1>4, <2>1, SMTT(30)
    <2>2. CASE i \notin S
        <3>1. i = n + 1 /\ u[i] = f /\ f.type = "ModifyQuerySet" /\ \A j \in T : j # i => j \in S
            BY <1>2, <2>2
        <3>2. \A j \in S : j < i
            BY <1>2, <3>1
        <3> QED
            BY <1>1, <1>2, <1>3, <3>1, <3>2
    <2> QED
        BY <2>1, <2>2
<1> QED
    BY <1>5 DEF Orderly, T, u

\* A Connect in front keeps a script orderly.
LEMMA OrderlyPrepend ==
    ASSUME NEW c \in ClientMessage, NEW t \in Seq(ClientMessage), c.type # "ModifyQuerySet",
           Orderly(t)
    PROVE  Orderly(<<c>> \o t)
<1> DEFINE u == <<c>> \o t
           S == Of(t, "ModifyQuerySet")
           T == Of(u, "ModifyQuerySet")
<1>0. OneBack(t, u, "ModifyQuerySet")
    BY OfPrepend
<1>1. /\ \A i \in S : i + 1 \in T /\ u[i + 1] = t[i]
      /\ \A i \in T : i - 1 \in S /\ u[i] = t[i - 1]
      /\ S \subseteq Nat /\ T \subseteq Nat
    BY <1>0 DEF OneBack
<1>2. \A i \in S :
          /\ t[i].new = t[i].base + 1
          /\ \A j \in S : j # i => \A id : /\ id \in Ids(t[i].adds) => id \notin Ids(t[j].adds)
                                           /\ id \in t[i].removes => id \notin t[j].removes
          /\ \A id \in t[i].removes : \E j \in S : j < i /\ id \in Ids(t[j].adds)
    BY DEF Orderly
<1> HIDE DEF u, S, T
<1>3. ASSUME NEW i \in T
      PROVE  /\ u[i].new = u[i].base + 1
             /\ \A j \in T : j # i =>
                   \A id : /\ id \in Ids(u[i].adds) => id \notin Ids(u[j].adds)
                           /\ id \in u[i].removes => id \notin u[j].removes
    <2>1. i - 1 \in S /\ u[i] = t[i - 1]
        BY <1>1
    <2>2. ASSUME NEW j \in T, j # i
          PROVE  \A id : /\ id \in Ids(u[i].adds) => id \notin Ids(u[j].adds)
                         /\ id \in u[i].removes => id \notin u[j].removes
        <3>1. j - 1 \in S /\ u[j] = t[j - 1] /\ j - 1 # i - 1
            BY <1>1, <2>2
        <3> QED
            BY <1>2, <2>1, <3>1
    <2>3. u[i].new = u[i].base + 1
        BY <1>2, <2>1
    <2> QED
        BY <2>2, <2>3
<1>4. ASSUME NEW i \in T, NEW id \in u[i].removes
      PROVE  \E j \in T : j < i /\ id \in Ids(u[j].adds)
    <2>1. PICK j \in S : j < i - 1 /\ id \in Ids(t[j].adds)
        BY <1>1, <1>2, <1>4
    <2>2. j + 1 \in T /\ j + 1 < i /\ u[j + 1] = t[j]
        BY <1>1, <2>1
    <2> QED
        BY <2>1, <2>2
<1> QED
    BY <1>3, <1>4 DEF Orderly, T, u

\* What restart() leaves in the queue is orderly: it changes the query set once.
LEMMA OrderlyRestart ==
    ASSUME TypeOK, QueryInv, NEW token \in Identity, Reconnect(token)
    PROVE  Orderly(Script')
<1>1. PICK ids : ids = Ids(ongoing \ LostActions(outgoing))
    OBVIOUS
<1>2. ids \in SUBSET Ids(ongoing)
    BY <1>1 DEF Ids
<1>3. PICK s \in Ascending(ids) :
          outgoing' = AuthenticateFirst(token) \o RestoreQueries \o Resend(s)
    BY <1>1 DEF Reconnect
<1>4. PICK t \in Seq(ClientMessage) : t = AuthenticateFirst(token) \o RestoreQueries \o Resend(s)
    BY <1>2, RestoredType
<1>5. Script' = t
    BY <1>3, <1>4, ConcatEmptySeq DEF Script, Reconnect
<1>6. Chain(t, "ModifyQuerySet", IF querySet = {} THEN 0 ELSE 1) /\ Removed(t) = {}
    BY <1>2, <1>4, RestoredScript
<1> DEFINE T == Of(t, "ModifyQuerySet")
<1>7. \A i, j \in T : i = j
    <2>1. IsFiniteSet(T) /\ (Cardinality(T) = 0 \/ Cardinality(T) = 1)
        BY <1>6, OfFinite DEF Chain
    <2>2. T = {} \/ \E x : T = {x}
        BY <2>1, FS_EmptySet, FS_Singleton
    <2> QED
        BY <2>2
<1>8. \A i \in T : \A id : id \notin t[i].removes
    BY <1>6, AddedMember
<1>9. \A i \in T : t[i].new = t[i].base + 1
    <2> SUFFICES ASSUME NEW i \in DOMAIN t, t[i].type = "ModifyQuerySet"
                 PROVE  t[i].new = t[i].base + 1
        BY DEF Of
    <2> DEFINE a == AuthenticateFirst(token)
               r == RestoreQueries
               e == Resend(s)
    <2>1. a \in Seq(ClientMessage) /\ r \in Seq(ClientMessage) /\ e \in Seq(ClientMessage)
        BY <1>2, RestoredPartsType
    <2>2. /\ \A k \in DOMAIN a : a[k].type # "ModifyQuerySet"
          /\ \A k \in DOMAIN r : r[k].new = r[k].base + 1
          /\ \A k \in DOMAIN e : e[k].type # "ModifyQuerySet"
        <3>1. \A k \in DOMAIN a : a[k].type # "ModifyQuerySet"
            BY DEF AuthenticateFirst, Authenticate
        <3>2. \A k \in DOMAIN r : r[k].new = r[k].base + 1
            BY DEF RestoreQueries, ModifyQuerySet
        <3> QED
            BY <1>2, <3>1, <3>2, ResentTypes
    <2>3. t = a \o r \o e
        BY <1>4
    <2> HIDE DEF a, r, e
    <2>4. a \o r \in Seq(ClientMessage)
        BY <2>1, ConcatProperties
    <2>5. /\ DOMAIN a = 1..Len(a) /\ DOMAIN r = 1..Len(r) /\ DOMAIN e = 1..Len(e)
          /\ Len(a) \in Nat /\ Len(r) \in Nat /\ Len(e) \in Nat
          /\ DOMAIN t = 1..(Len(a) + Len(r) + Len(e))
          /\ t[i] = IF i <= Len(a) + Len(r) THEN (a \o r)[i] ELSE e[i - (Len(a) + Len(r))]
          /\ i <= Len(a) + Len(r) =>
                (a \o r)[i] = IF i <= Len(a) THEN a[i] ELSE r[i - Len(a)]
        <3>1. Len(a \o r) = Len(a) + Len(r)
            BY <2>1, ConcatProperties
        <3>2. /\ Len(a) \in Nat /\ Len(r) \in Nat /\ Len(e) \in Nat
              /\ DOMAIN a = 1..Len(a) /\ DOMAIN r = 1..Len(r) /\ DOMAIN e = 1..Len(e)
              /\ DOMAIN t = 1..Len(t)
            BY <2>1, LenProperties
        <3>3. /\ Len(t) = Len(a) + Len(r) + Len(e)
              /\ t[i] = IF i <= Len(a) + Len(r) THEN (a \o r)[i] ELSE e[i - (Len(a) + Len(r))]
            BY <2>1, <2>3, <2>4, <3>1, <3>2, ConcatProperties
        <3>4. i <= Len(a) + Len(r) =>
                (a \o r)[i] = IF i <= Len(a) THEN a[i] ELSE r[i - Len(a)]
            BY <2>1, <3>2, ConcatProperties
        <3> QED
            BY <3>2, <3>3, <3>4
    <2>6. CASE i <= Len(a)
        BY <2>2, <2>5, <2>6
    <2>7. CASE Len(a) < i /\ i <= Len(a) + Len(r)
        BY <2>2, <2>5, <2>7
    <2>8. CASE Len(a) + Len(r) < i
        BY <2>2, <2>5, <2>8
    <2> QED
        BY <2>5, <2>6, <2>7, <2>8
<1>10. Orderly(t)
    BY <1>7, <1>8, <1>9 DEF Orderly
<1> QED
    BY <1>5, <1>10

-----------------------------------------------------------------------------
(* How far a server has come with a script.                                *)

\* The frames of a type among the first k.
Upto(t, type, k) == {j \in Of(t, type) : j <= k}

\* The queries of a server that has reached version n of the query set.
Known(t, n) == {i \in Of(t, "ModifyQuerySet") : t[i].base < n}
AddedTo(t, n) == UNION {Ids(t[i].adds) : i \in Known(t, n)}
RemovedFrom(t, n) == UNION {t[i].removes : i \in Known(t, n)}
QueriesAt(t, n) == AddedTo(t, n) \ RemovedFrom(t, n)

\* Versions go up along a script and end below the one it reaches.
LEMMA ChainOrder ==
    ASSUME NEW t \in Seq(ClientMessage), NEW type, NEW version, Chain(t, type, version)
    PROVE  /\ version \in Nat
           /\ \A i \in Of(t, type) : t[i].base \in Nat /\ t[i].base < version
           /\ \A i, j \in Of(t, type) : i < j => t[i].base < t[j].base
<1> DEFINE S == Of(t, type)
           B(i) == {j \in S : j < i}
<1>1. IsFiniteSet(S) /\ S \subseteq Int
    BY OfFinite
<1>2. (\A i \in S : t[i].base = Cardinality(B(i))) /\ version = Cardinality(S)
    BY DEF Chain
<1>3. ASSUME NEW T, IsFiniteSet(T), NEW i \in T, NEW R \in SUBSET T, i \notin R
      PROVE  Cardinality(R) \in Nat /\ Cardinality(T) \in Nat /\ Cardinality(R) < Cardinality(T)
    <2>1. /\ IsFiniteSet(T \ {i}) /\ Cardinality(T \ {i}) = Cardinality(T) - 1
          /\ Cardinality(T) \in Nat
        BY <1>3, FS_RemoveElement, FS_CardinalityType
    <2>2. R \in SUBSET (T \ {i})
        BY <1>3
    <2>3. IsFiniteSet(R) /\ Cardinality(R) <= Cardinality(T \ {i})
        BY <2>1, <2>2, FS_Subset
    <2> QED
        BY <2>1, <2>3, FS_CardinalityType
<1>4. ASSUME NEW i \in S PROVE t[i].base \in Nat /\ t[i].base < version
    <2>1. B(i) \in SUBSET S /\ i \notin B(i)
        BY <1>1
    <2> HIDE DEF B, S
    <2> QED
        BY <1>1, <1>2, <1>3, <2>1
<1>5. ASSUME NEW i \in S, NEW j \in S, i < j PROVE t[i].base < t[j].base
    <2>1. B(i) \in SUBSET B(j) /\ i \in B(j) /\ i \notin B(i) /\ B(j) \in SUBSET S
        BY <1>1, <1>5
    <2> HIDE DEF B, S
    <2>2. IsFiniteSet(B(j))
        BY <1>1, <2>1, FS_Subset
    <2> QED
        BY <1>2, <1>3, <2>1, <2>2
<1> QED
    BY <1>1, <1>2, <1>4, <1>5, FS_CardinalityType

\* The version reached with the first k frames, and with one frame more.
LEMMA Reached ==
    ASSUME NEW t \in Seq(ClientMessage), NEW type, NEW version, Chain(t, type, version),
           NEW k \in Nat, NEW n, n = Cardinality(Upto(t, type, k))
    PROVE  /\ n \in Nat /\ n <= version
           /\ \A i \in Of(t, type) : i <= k <=> t[i].base < n
           /\ k + 1 \in Of(t, type) =>
                 t[k + 1].base = n /\ Cardinality(Upto(t, type, k + 1)) = n + 1
           /\ k + 1 \notin Of(t, type) => Cardinality(Upto(t, type, k + 1)) = n
<1> DEFINE S == Of(t, type)
           U == Upto(t, type, k)
           V == Upto(t, type, k + 1)
<1>1. IsFiniteSet(S) /\ S \subseteq Int
    BY OfFinite
<1>2. (\A i \in S : t[i].base = Cardinality({j \in S : j < i})) /\ version = Cardinality(S)
    BY DEF Chain
<1>3. U \in SUBSET S /\ U = {j \in S : j <= k} /\ V = {j \in S : j <= k + 1}
    BY DEF Upto
<1>4. IsFiniteSet(U) /\ n \in Nat /\ n <= version
    BY <1>1, <1>2, <1>3, FS_Subset, FS_CardinalityType
<1>5. /\ \A i \in S : t[i].base \in Nat
      /\ \A i, j \in S : i < j => t[i].base < t[j].base
    BY ChainOrder
<1>6. ASSUME NEW i \in S, i <= k PROVE t[i].base < n
    <2>1. {j \in S : j < i} \in SUBSET (U \ {i}) /\ i \in U
        BY <1>1, <1>3, <1>6
    <2>2. IsFiniteSet(U \ {i}) /\ Cardinality(U \ {i}) = n - 1
        BY <1>4, <2>1, FS_RemoveElement
    <2>3. Cardinality({j \in S : j < i}) <= n - 1
        BY <2>1, <2>2, FS_Subset
    <2>4. t[i].base <= n - 1
        BY <1>2, <2>3
    <2> QED
        BY <1>4, <1>5, <2>4
<1>7. ASSUME NEW i \in S, ~(i <= k) PROVE n <= t[i].base
    <2> DEFINE B == {j \in S : j < i}
    <2>1. B \in SUBSET S /\ U \in SUBSET B
        BY <1>1, <1>3, <1>7
    <2>2. IsFiniteSet(B)
        BY <1>1, <2>1, FS_Subset
    <2>3. Cardinality(U) <= Cardinality(B)
        BY <2>1, <2>2, FS_Subset
    <2> QED
        BY <1>2, <2>3
<1>8. \A i \in S : i <= k <=> t[i].base < n
    BY <1>4, <1>5, <1>6, <1>7
<1>9. ASSUME k + 1 \in S PROVE t[k + 1].base = n /\ Cardinality(V) = n + 1
    <2>1. {j \in S : j < k + 1} = U
        BY <1>1, <1>3
    <2>2. V = U \cup {k + 1} /\ k + 1 \notin U
        BY <1>1, <1>3, <1>9
    <2> QED
        BY <1>2, <1>4, <1>9, <2>1, <2>2, FS_AddElement
<1>10. ASSUME k + 1 \notin S PROVE Cardinality(V) = n
    <2>1. V = U
        BY <1>1, <1>3, <1>10
    <2> QED
        BY <2>1
<1> QED
    BY <1>4, <1>8, <1>9, <1>10

\* The queries of a version, one by one.
LEMMA AtMember ==
    ASSUME NEW t, NEW n, NEW id
    PROVE  id \in QueriesAt(t, n) <=>
              /\ \E i \in Of(t, "ModifyQuerySet") : t[i].base < n /\ id \in Ids(t[i].adds)
              /\ \A i \in Of(t, "ModifyQuerySet") : t[i].base < n => id \notin t[i].removes
<1>1. \A i : i \in Known(t, n) <=> i \in Of(t, "ModifyQuerySet") /\ t[i].base < n
    BY DEF Known
<1>2. id \in AddedTo(t, n) <=> \E i \in Known(t, n) : id \in Ids(t[i].adds)
    BY DEF AddedTo
<1>3. id \in RemovedFrom(t, n) <=> \E i \in Known(t, n) : id \in t[i].removes
    BY DEF RemovedFrom
<1>4. id \in QueriesAt(t, n) <=> id \in AddedTo(t, n) /\ id \notin RemovedFrom(t, n)
    BY DEF QueriesAt
<1> QED
    BY <1>1, <1>2, <1>3, <1>4

\* The next frame does not change what an earlier version was.
LEMMA AtAppend ==
    ASSUME NEW t \in Seq(ClientMessage), NEW f \in ClientMessage, NEW n \in Nat,
           f.type = "ModifyQuerySet" => n <= f.base
    PROVE  QueriesAt(Append(t, f), n) = QueriesAt(t, n)
<1> DEFINE u == Append(t, f)
           S == Of(t, "ModifyQuerySet")
           T == Of(u, "ModifyQuerySet")
<1>1. /\ T = S \cup (IF f.type = "ModifyQuerySet" THEN {Len(t) + 1} ELSE {})
      /\ \A i \in S : u[i] = t[i]
      /\ u[Len(t) + 1] = f
    BY OfAppend
<1>2. f.type = "ModifyQuerySet" => ~(f.base < n)
    BY DEF ClientMessage
<1>3. \A id : /\ id \in QueriesAt(u, n) <=>
                    /\ \E i \in T : u[i].base < n /\ id \in Ids(u[i].adds)
                    /\ \A i \in T : u[i].base < n => id \notin u[i].removes
              /\ id \in QueriesAt(t, n) <=>
                    /\ \E i \in S : t[i].base < n /\ id \in Ids(t[i].adds)
                    /\ \A i \in S : t[i].base < n => id \notin t[i].removes
    BY AtMember
<1> HIDE DEF u, S, T
<1>4. \A id : id \in QueriesAt(u, n) <=> id \in QueriesAt(t, n)
    BY <1>1, <1>2, <1>3
<1> QED
    BY <1>4 DEF u

\* Nor does a Connect in front.
LEMMA AtPrepend ==
    ASSUME NEW c \in ClientMessage, NEW t \in Seq(ClientMessage), c.type # "ModifyQuerySet", NEW n
    PROVE  QueriesAt(<<c>> \o t, n) = QueriesAt(t, n)
<1> DEFINE u == <<c>> \o t
           S == Of(t, "ModifyQuerySet")
           T == Of(u, "ModifyQuerySet")
<1>0. OneBack(t, u, "ModifyQuerySet")
    BY OfPrepend
<1>1. /\ \A i \in S : i + 1 \in T /\ u[i + 1] = t[i]
      /\ \A i \in T : i - 1 \in S /\ u[i] = t[i - 1]
    BY <1>0 DEF OneBack
<1>3. \A id : /\ id \in QueriesAt(u, n) <=>
                    /\ \E i \in T : u[i].base < n /\ id \in Ids(u[i].adds)
                    /\ \A i \in T : u[i].base < n => id \notin u[i].removes
              /\ id \in QueriesAt(t, n) <=>
                    /\ \E i \in S : t[i].base < n /\ id \in Ids(t[i].adds)
                    /\ \A i \in S : t[i].base < n => id \notin t[i].removes
    BY AtMember
<1> HIDE DEF u, S, T
<1>4. \A id : id \in QueriesAt(u, n) <=> id \in QueriesAt(t, n)
    BY <1>1, <1>3
<1> QED
    BY <1>4 DEF u

\* Before the first version there is no query.
LEMMA AtZero ==
    ASSUME NEW t \in Seq(ClientMessage), NEW version, Chain(t, "ModifyQuerySet", version)
    PROVE  QueriesAt(t, 0) = {}
<1>1. \A i \in Of(t, "ModifyQuerySet") : ~(t[i].base < 0)
    BY ChainOrder
<1>2. \A id : id \notin QueriesAt(t, 0)
    BY <1>1, AtMember
<1> QED
    BY <1>2

\* At the client's own version the queries are its own, and a query it still has
\* stays once it was there.
LEMMA AtClient ==
    ASSUME TypeOK, ScriptInv, NEW t \in Seq(ClientMessage), t = Script
    PROVE  /\ \A id : id \in QueriesAt(t, querySetVersion) <=> id \in Ids(querySet)
           /\ \A m, n \in Nat : \A id \in Ids(querySet) :
                 m <= n /\ id \in QueriesAt(t, m) => id \in QueriesAt(t, n)
<1> DEFINE S == Of(t, "ModifyQuerySet")
<1>1. \A i \in S : t[i].base \in Nat /\ t[i].base < querySetVersion
    BY ChainOrder DEF ScriptInv
<1>2. \A id : id \in Ids(querySet) <=> /\ \E i \in S : id \in Ids(t[i].adds)
                                       /\ \A i \in S : id \notin t[i].removes
    BY AddedMember DEF ScriptInv
<1>3. \A n, id : id \in QueriesAt(t, n) <=>
                    /\ \E i \in S : t[i].base < n /\ id \in Ids(t[i].adds)
                    /\ \A i \in S : t[i].base < n => id \notin t[i].removes
    BY AtMember
<1> HIDE DEF S
<1> QED
    BY <1>1, <1>2, <1>3

\* A ModifyQuerySet takes a server that is at its base to the next version, and
\* fits the queries there.
LEMMA AtNext ==
    ASSUME NEW t \in Seq(ClientMessage), NEW version, Chain(t, "ModifyQuerySet", version),
           Orderly(t), NEW i \in Of(t, "ModifyQuerySet"), NEW n, n = t[i].base
    PROVE  /\ QueriesAt(t, n + 1) = (QueriesAt(t, n) \cup Ids(t[i].adds)) \ t[i].removes
           /\ Ids(t[i].adds) \cap QueriesAt(t, n) = {}
           /\ t[i].removes \subseteq QueriesAt(t, n)
<1> DEFINE S == Of(t, "ModifyQuerySet")
<1>1. /\ \A j \in S : t[j].base \in Nat
      /\ \A j, k \in S : j < k => t[j].base < t[k].base
      /\ S \subseteq Int
    BY ChainOrder, OfFinite
<1>2. /\ \A j \in S : j # i =>
            \A id : /\ id \in Ids(t[i].adds) => id \notin Ids(t[j].adds)
                    /\ id \in t[i].removes => id \notin t[j].removes
      /\ \A j \in S : \A id \in t[j].removes : \E k \in S : k < j /\ id \in Ids(t[k].adds)
    BY DEF Orderly
<1>3. \A m, id : id \in QueriesAt(t, m) <=>
                    /\ \E j \in S : t[j].base < m /\ id \in Ids(t[j].adds)
                    /\ \A j \in S : t[j].base < m => id \notin t[j].removes
    BY AtMember
<1> HIDE DEF S
<1>4. i \in S /\ n \in Nat
    BY <1>1 DEF S
<1>5. \A j \in S : (t[j].base < n + 1 <=> j = i \/ t[j].base < n) /\ (t[j].base < n <=> j < i)
    BY <1>1, <1>4
<1>6. ASSUME NEW id \in t[i].removes PROVE id \in QueriesAt(t, n)
    BY <1>2, <1>3, <1>4, <1>5, <1>6
<1>7. ASSUME NEW id \in Ids(t[i].adds)
      PROVE  id \notin QueriesAt(t, n) /\ \A j \in S : t[j].base < n => id \notin t[j].removes
    <2>1. \A j \in S : j < i => id \notin Ids(t[j].adds)
        BY <1>1, <1>2, <1>4, <1>7
    <2>2. \A j \in S : j < i => id \notin t[j].removes
        <3> SUFFICES ASSUME NEW j \in S, j < i, id \in t[j].removes PROVE FALSE
            OBVIOUS
        <3>1. PICK k \in S : k < j /\ id \in Ids(t[k].adds)
            BY <1>2
        <3>2. k \in Int /\ j \in Int /\ i \in Int
            BY <1>1, <1>4
        <3>3. k < i
            BY <3>1, <3>2
        <3> QED
            BY <2>1, <3>1, <3>3
    <2> QED
        BY <1>3, <1>5, <2>1, <2>2
<1>8. \A id : id \in QueriesAt(t, n + 1) <=>
                 (id \in QueriesAt(t, n) \/ id \in Ids(t[i].adds)) /\ id \notin t[i].removes
    BY <1>3, <1>4, <1>5, <1>7
<1> QED
    BY <1>6, <1>7, <1>8
=============================================================================
