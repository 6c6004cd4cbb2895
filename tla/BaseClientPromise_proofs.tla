---------------------- MODULE BaseClientPromise_proofs ----------------------
(***************************************************************************)
(* base_client implements RequestPromise, for every value of the constants *)
(* and every server whose Transitions do not go back in time.              *)
(***************************************************************************)
EXTENDS BaseClientPromise, BaseClient_proofs

USE DEF QueryId, RequestId, Timestamp, Snapshot, Journal

\* How requests look to their callers.
Opened(requests) == {[id |-> r.id, kind |-> r.kind] : r \in requests}

\* A request is open at the abstract level when the state machine knows it.
LEMMA OpenedMember ==
    ASSUME NEW A, NEW o
    PROVE  o \in Opened(A) <=> \E r \in A : o = [id |-> r.id, kind |-> r.kind]
BY DEF Opened

\* Requests have the ids their callers see.
LEMMA OpenedIds ==
    ASSUME NEW A
    PROVE  Ids(Opened(A)) = Ids(A)
<1>1. ASSUME NEW i \in Ids(A) PROVE i \in Ids(Opened(A))
    <2>1. PICK r \in A : i = r.id
        BY IdsMember
    <2>2. [id |-> r.id, kind |-> r.kind] \in Opened(A)
        BY OpenedMember
    <2> QED
        BY <2>1, <2>2, IdsMember
<1>2. ASSUME NEW i \in Ids(Opened(A)) PROVE i \in Ids(A)
    <2>1. PICK o \in Opened(A) : i = o.id
        BY IdsMember
    <2>2. PICK r \in A : o = [id |-> r.id, kind |-> r.kind]
        BY OpenedMember
    <2> QED
        BY <2>1, <2>2, IdsMember
<1> QED
    BY <1>1, <1>2

\* Settling requests with unique ids takes just them away from their callers.
LEMMA OpenedWithout ==
    ASSUME NEW A, NEW gone \in SUBSET A, \A r, x \in A : r.id = x.id => r = x
    PROVE  Opened(A \ gone) = {o \in Opened(A) : o.id \notin Ids(gone)}
<1>1. ASSUME NEW o \in Opened(A \ gone) PROVE o \in Opened(A) /\ o.id \notin Ids(gone)
    <2>1. PICK r \in A \ gone : o = [id |-> r.id, kind |-> r.kind]
        BY OpenedMember
    <2>2. o \in Opened(A)
        BY <2>1, OpenedMember
    <2>3. \A x \in gone : x.id # r.id
        BY <2>1
    <2> QED
        BY <2>1, <2>2, <2>3, IdsMember
<1>2. ASSUME NEW o \in Opened(A), o.id \notin Ids(gone) PROVE o \in Opened(A \ gone)
    <2>1. PICK r \in A : o = [id |-> r.id, kind |-> r.kind]
        BY OpenedMember
    <2>2. r \notin gone
        BY <1>2, <2>1, IdsMember
    <2> QED
        BY <2>1, <2>2, OpenedMember
<1> QED
    BY <1>1, <1>2

-----------------------------------------------------------------------------
(* Steps of the promise.                                                   *)

\* The instance's names for the mapped state.
LEMMA Mapped ==
    /\ Promise!OpenActions = Ids({o \in Opened(ongoing) : o.kind = "Action"})
    /\ \A set : Promise!IdsOf(set) = Ids(set)
BY DEF Promise!OpenActions, Promise!IdsOf, Opened, Ids

\* The open actions are the actions the state machine knows.
LEMMA OpenActionIds ==
    Promise!OpenActions = Ids({r \in ongoing : r.kind = "Action"})
<1> DEFINE A == {r \in ongoing : r.kind = "Action"}
           B == {o \in Opened(ongoing) : o.kind = "Action"}
<1>1. ASSUME NEW i \in Ids(A) PROVE i \in Ids(B)
    <2>1. PICK r \in A : i = r.id
        BY IdsMember
    <2>2. [id |-> r.id, kind |-> r.kind] \in B
        BY OpenedMember
    <2> QED
        BY <2>1, <2>2, IdsMember
<1>2. ASSUME NEW i \in Ids(B) PROVE i \in Ids(A)
    <2>1. PICK o \in B : i = o.id
        BY IdsMember
    <2>2. PICK r \in ongoing : o = [id |-> r.id, kind |-> r.kind]
        BY OpenedMember
    <2> QED
        BY <2>1, <2>2, IdsMember
<1> QED
    BY <1>1, <1>2, Mapped

\* A step that settles nothing and drains what was queued is a Transmit.
LEMMA DrainTransmit ==
    ASSUME QueueInv, NEW queue, Drain(queue), ActionIds(queue) = ActionIds(outgoing),
           UNCHANGED <<ongoing, nextRequestId, remoteVersion, answers>>
    PROVE  Promise!Transmit
<1>1. transmitted \subseteq transmitted' /\ transmitted' \subseteq transmitted \cup ActionIds(outgoing)
    BY DEF Drain
<1>2. ActionIds(outgoing) \subseteq Promise!OpenActions
    BY OpenActionIds DEF QueueInv
<1> QED
    BY <1>1, <1>2 DEF Promise!Transmit, Promise!Expose

\* Completing requests, each with a result its caller may see by now, is an
\* Answer.
LEMMA CompleteAnswers ==
    ASSUME TypeOK, RequestInv, NEW done, Complete(done),
           Ids(done) \subseteq Ids(ongoing),
           Opened(ongoing') = {o \in Opened(ongoing) : o.id \notin Ids(done)},
           \A a, b \in done : a.id = b.id => a = b,
           \A a \in done : a.outcome \in {"ok", "error"} /\ a.ts <= remoteVersion'.ts,
           remoteVersion'.ts >= remoteVersion.ts,
           UNCHANGED <<nextRequestId, transmitted>>
    PROVE  Promise!Answer
<1>1. answers' = answers \cup done
    BY DEF Complete, RequestInv, Ledger, Ids
<1>2. answers \cap done = {}
    BY DEF RequestInv, Ledger, Ids
<1>3. answers' \ answers = done
    BY <1>1, <1>2
<1>4. Promise!IdsOf(done) = Ids(done)
    BY Mapped
<1>5. Promise!IdsOf(Opened(ongoing)) = Ids(ongoing)
    BY Mapped, OpenedIds
<1> QED
    BY <1>1, <1>3, <1>4, <1>5 DEF Promise!Answer, Opened

\* Delivering what is held at or below a watermark is an Answer.
LEMMA DeliverAnswers ==
    ASSUME TypeOK, RequestInv, NEW requests \in SUBSET PendingRequest,
           \A r, x \in requests : r.id = x.id => r = x,
           Opened(requests) = Opened(ongoing),
           ongoing' = requests \ Deliverable(requests, remoteVersion'.ts),
           Complete({OkAnswer(r) : r \in Deliverable(requests, remoteVersion'.ts)}),
           remoteVersion'.ts >= remoteVersion.ts,
           UNCHANGED <<nextRequestId, transmitted>>
    PROVE  Promise!Answer
<1> DEFINE gone == Deliverable(requests, remoteVersion'.ts)
           done == {OkAnswer(r) : r \in gone}
<1>0. Complete(done) /\ ongoing' = requests \ gone
    OBVIOUS
<1>1. gone \in SUBSET requests
    BY DEF Deliverable
<1>2. Ids(done) = Ids(gone)
    BY IdsOfAnswers
<1>3. Opened(ongoing') = {o \in Opened(ongoing) : o.id \notin Ids(done)}
    <2> HIDE DEF gone, done
    <2>1. Opened(requests \ gone) = {o \in Opened(requests) : o.id \notin Ids(gone)}
        BY <1>1, OpenedWithout
    <2> QED
        BY <1>0, <1>2, <2>1
<1>4. Ids(done) \subseteq Ids(ongoing)
    <2>1. Ids(requests) = Ids(ongoing)
        BY OpenedIds
    <2> QED
        BY <1>1, <1>2, <2>1 DEF Ids
<1>5. \A a, b \in done : a.id = b.id => a = b
    BY <1>1 DEF OkAnswer
<1>6. \A a \in done : a.outcome \in {"ok", "error"} /\ a.ts <= remoteVersion'.ts
    BY DEF OkAnswer, Deliverable
<1> HIDE DEF done
<1> QED
    BY <1>0, <1>3, <1>4, <1>5, <1>6, CompleteAnswers

\* A request that is made is a Call, sent at once or queued.
LEMMA RequestCalls ==
    ASSUME TypeOK, NEW kind \in {"Mutation", "Action"}, Request(kind), QueueInv
    PROVE  Promise!Call(kind)
<1> DEFINE r == [id |-> nextRequestId, kind |-> kind, completed |-> FALSE, ts |-> NoTs]
           o == [id |-> nextRequestId, kind |-> kind]
           queue == Append(outgoing, OriginalMessage(r))
           new == IF kind = "Action" THEN {nextRequestId} ELSE {}
<1>1. /\ ongoing' = ongoing \cup {r} /\ nextRequestId' = nextRequestId + 1
      /\ Drain(queue) /\ UNCHANGED <<answers, remoteVersion, linked>>
    BY DEF Request, remoteVars, linkVars
<1>2. OriginalMessage(r) \in ClientMessage /\ outgoing \in Seq(ClientMessage)
    BY FramesType DEF PendingRequest, TypeOK
<1>3. ActionIds(queue) = ActionIds(outgoing) \cup new
    BY <1>2, ActionIdsAppend DEF OriginalMessage
<1>4. transmitted \subseteq transmitted' /\ transmitted' \subseteq transmitted \cup new
    BY <1>1, <1>3, NoActionIds DEF Drain, QueueInv
<1>5. Opened(ongoing') = Opened(ongoing) \cup {o}
    <2>1. ASSUME NEW x PROVE x \in Opened(ongoing') <=> x \in Opened(ongoing) \cup {o}
        <3>1. x \in Opened(ongoing')
                  <=> \E y \in ongoing \cup {r} : x = [id |-> y.id, kind |-> y.kind]
            BY <1>1, OpenedMember
        <3>2. x \in Opened(ongoing) <=> \E y \in ongoing : x = [id |-> y.id, kind |-> y.kind]
            BY OpenedMember
        <3>3. o = [id |-> r.id, kind |-> r.kind]
            OBVIOUS
        <3> QED
            BY <3>1, <3>2, <3>3
    <2> QED
        BY <2>1
<1> QED
    BY <1>1, <1>4, <1>5 DEF Promise!Call, Promise!Expose, Opened

\* A restart is a Lose: the actions it fails are the open ones on a wire.
LEMMA ReconnectLoses ==
    ASSUME TypeOK, RequestInv, WireInv, NEW token, Reconnect(token)
    PROVE  Promise!Lose
<1> DEFINE lost == LostActions(outgoing)
           risk == {o \in Opened(ongoing) : o.kind = "Action" /\ o.id \in transmitted}
           Told(o) == [id |-> o.id, outcome |-> "lost", ts |-> NoTs]
<1>1. lost \in SUBSET ongoing
    BY DEF LostActions
<1>2. lost = {r \in ongoing : r.kind = "Action" /\ r.id \in transmitted}
    BY DEF LostActions, WireInv
<1>3. risk = Opened(lost)
    <2>1. ASSUME NEW o PROVE o \in risk <=> o \in Opened(lost)
        <3>1. o \in risk <=> \E r \in ongoing : /\ o = [id |-> r.id, kind |-> r.kind]
                                                /\ o.kind = "Action" /\ o.id \in transmitted
            BY OpenedMember
        <3>2. o \in Opened(lost) <=> \E r \in lost : o = [id |-> r.id, kind |-> r.kind]
            BY OpenedMember
        <3> QED
            BY <1>2, <3>1, <3>2
    <2> QED
        BY <2>1
<1>4. Opened(ongoing') = Opened(ongoing) \ risk
    <2>1. Opened(ongoing \ lost) = {o \in Opened(ongoing) : o.id \notin Ids(lost)}
        BY <1>1, OpenedWithout DEF RequestInv, UniqueRequests
    <2>2. ASSUME NEW o \in Opened(ongoing) PROVE o.id \in Ids(lost) <=> o \in risk
        <3>1. PICK r \in ongoing : o = [id |-> r.id, kind |-> r.kind]
            BY OpenedMember
        <3>2. o.id \in Ids(lost) <=> \E x \in lost : x.id = r.id
            BY <3>1, IdsMember
        <3>3. (\E x \in lost : x.id = r.id) <=> r \in lost
            BY <1>1 DEF RequestInv, UniqueRequests
        <3> QED
            BY <1>2, <3>1, <3>2, <3>3
    <2>3. ongoing' = ongoing \ lost
        BY DEF Reconnect
    <2> QED
        BY <2>1, <2>2, <2>3
<1>5. answers' = answers \cup {LostAnswer(r) : r \in lost}
    <2>1. Complete({LostAnswer(r) : r \in lost})
        BY DEF Reconnect, LostAnswer
    <2>2. \A r \in lost : LostAnswer(r).id \in pending
        BY <1>1 DEF RequestInv, Ledger, Ids, LostAnswer
    <2> QED
        BY <2>1, <2>2 DEF Complete
<1>6. {LostAnswer(r) : r \in lost} = {Told(o) : o \in risk}
    <2>1. ASSUME NEW r \in lost PROVE \E o \in risk : LostAnswer(r) = Told(o)
        <3>1. [id |-> r.id, kind |-> r.kind] \in risk
            BY <1>3, OpenedMember
        <3> QED
            BY <3>1 DEF LostAnswer
    <2>2. ASSUME NEW o \in risk PROVE \E r \in lost : LostAnswer(r) = Told(o)
        <3>1. PICK r \in lost : o = [id |-> r.id, kind |-> r.kind]
            BY <1>3, OpenedMember
        <3> QED
            BY <3>1 DEF LostAnswer
    <2> QED
        BY <2>1, <2>2
<1>7. remoteVersion'.ts = 0 /\ UNCHANGED <<nextRequestId, transmitted>>
    BY DEF Reconnect, RemoteAfterRestart, InitialVersion
<1> QED
    BY <1>4, <1>5, <1>6, <1>7 DEF Promise!Lose, Promise!NoTs, NoTs, Opened

\* A response settles at most the request it names: an Answer, or nothing.
LEMMA ResponseAnswers ==
    ASSUME TypeOK, RequestInv, NEW m, NEW outcome \in {"ok", "error"}, AnswerNow(m, outcome),
           UNCHANGED <<nextRequestId, transmitted, remoteVersion>>
    PROVE  Promise!Answer
<1>1. PICK r \in ongoing :
          /\ r.id = m.id
          /\ ongoing' = ongoing \ {r}
          /\ Complete({[id |-> m.id, outcome |-> outcome, ts |-> NoTs]})
    BY DEF AnswerNow
<1> DEFINE a == [id |-> m.id, outcome |-> outcome, ts |-> NoTs]
<1>2. Ids({a}) = {r.id} /\ Ids({r}) = {r.id}
    <2>1. a.id = r.id
        BY <1>1
    <2> HIDE DEF a
    <2>2. ASSUME NEW x PROVE Ids({x}) = {x.id}
        <3>1. \A i : i \in Ids({x}) <=> \E y \in {x} : i = y.id
            BY IdsMember
        <3>2. \A i : i \in Ids({x}) <=> i \in {x.id}
            BY <3>1
        <3> QED
            BY <3>2
    <2> QED
        BY <2>1, <2>2
<1>3. Opened(ongoing \ {r}) = {o \in Opened(ongoing) : o.id \notin Ids({r})}
    <2>1. {r} \in SUBSET ongoing /\ \A x, y \in ongoing : x.id = y.id => x = y
        BY DEF RequestInv, UniqueRequests
    <2> QED
        BY ONLY <2>1, OpenedWithout
<1>4. Ids({a}) \subseteq Ids(ongoing)
    BY <1>2 DEF Ids
<1>5. remoteVersion.ts \in Nat
    BY DEF TypeOK, StateVersion
<1>6. \A x \in {a} : x.outcome \in {"ok", "error"} /\ x.ts <= remoteVersion'.ts
    BY <1>5 DEF NoTs
<1>7. remoteVersion'.ts >= remoteVersion.ts
    BY <1>5
<1> HIDE DEF a
<1>8. Complete({a}) /\ \A x, y \in {a} : x.id = y.id => x = y
    BY <1>1 DEF a
<1> QED
    BY <1>1, <1>2, <1>3, <1>4, <1>6, <1>7, <1>8, CompleteAnswers

\* Every step of BaseClient is a step of the promise, or leaves it alone.
LEMMA PromiseStep ==
    ASSUME TypeOK, RequestInv, WireInv, QueueInv, [Next]_vars
    PROVE  [Promise!PromiseNext]_(Promise!promiseVars)
<1>0. outgoing \in Seq(ClientMessage)
    BY DEF TypeOK
<1>1. ASSUME Drain(outgoing), UNCHANGED <<requestVars, remoteVersion>>
      PROVE  Promise!Transmit
    BY <1>1, DrainTransmit DEF requestVars
<1>2. ASSUME NEW f \in ClientMessage, f.type # "Action", Drain(Append(outgoing, f)),
             UNCHANGED <<requestVars, remoteVersion>>
      PROVE  Promise!Transmit
    <2>1. ActionIds(Append(outgoing, f)) = ActionIds(outgoing)
        BY <1>0, <1>2, ActionIdsAppend
    <2> QED
        BY <1>2, <2>1, DrainTransmit DEF requestVars
<1>3. ASSUME linked, Drain(outgoing) PROVE transmitted' = transmitted
    BY <1>3, NoActionIds DEF QueueInv, Drain
<1>4. ASSUME NEW q \in querySet, SubscribeShared(q) PROVE Promise!Transmit
    BY <1>1, <1>4 DEF SubscribeShared
<1>5. ASSUME NEW token \in Tokens, SubscribeNew(token) PROVE Promise!Transmit
    <2> DEFINE q == [id |-> nextQueryId, token |-> token, num |-> 1, journal |-> NoJournal]
               m == ModifyQuerySet(querySetVersion, {AddOf(q)}, {})
    <2>1. q \in LocalQuery
        BY DEF LocalQuery, TypeOK
    <2>2. m \in ClientMessage /\ m.type # "Action"
        BY <2>1, FramesType DEF TypeOK, ModifyQuerySet
    <2>3. Drain(Append(outgoing, m)) /\ UNCHANGED <<requestVars, remoteVersion>>
        BY <1>5 DEF SubscribeNew
    <2> QED
        BY <1>2, <2>2, <2>3
<1>6. ASSUME NEW s \in subs, Unsubscribe(s) PROVE Promise!Transmit
    <2>1. UNCHANGED <<requestVars, remoteVersion>>
        BY <1>6 DEF Unsubscribe
    <2>2. PICK q \in querySet : ReleaseShared(q) \/ ReleaseLast(q)
        BY <1>6 DEF Unsubscribe
    <2> DEFINE m == ModifyQuerySet(querySetVersion, {}, {q.id})
    <2>3. m \in ClientMessage /\ m.type # "Action"
        BY FramesType DEF TypeOK, LocalQuery, ModifyQuerySet
    <2>4. CASE ReleaseShared(q)
        BY <1>1, <2>1, <2>4 DEF ReleaseShared
    <2>5. CASE ReleaseLast(q)
        BY <1>2, <2>1, <2>3, <2>5 DEF ReleaseLast
    <2> QED
        BY <2>2, <2>4, <2>5
<1>7. ASSUME NEW token \in Identity, SetAuth(token) PROVE Promise!Transmit
    <2>1. Authenticate(identityVersion, token) \in ClientMessage
              /\ Authenticate(identityVersion, token).type # "Action"
        BY FramesType DEF TypeOK, Authenticate
    <2> QED
        BY <1>2, <1>7, <2>1 DEF SetAuth, remoteVars
<1>8. ASSUME NEW t \in ServerMessages, ApplyTransition(t) PROVE Promise!Answer
    <2>1. linked /\ Drain(outgoing) /\ nextRequestId' = nextRequestId
        BY <1>8 DEF ApplyTransition
    <2>2. remoteVersion' = t.end /\ t.start = remoteVersion /\ t.end.ts >= t.start.ts
        BY <1>8, ForwardAssumption DEF ApplyTransition
    <2>3. /\ ongoing' = ongoing \ Deliverable(ongoing, remoteVersion'.ts)
          /\ Complete({OkAnswer(r) : r \in Deliverable(ongoing, remoteVersion'.ts)})
        BY <1>8, <2>2 DEF ApplyTransition
    <2>4. ongoing \in SUBSET PendingRequest
        BY DEF TypeOK
    <2>5. \A r, x \in ongoing : r.id = x.id => r = x
        BY DEF RequestInv, UniqueRequests
    <2> QED
        BY <1>3, <2>1, <2>2, <2>3, <2>4, <2>5, DeliverAnswers
<1>9. ASSUME NEW m \in ServerMessage, ReceiveMutationResponse(m)
      PROVE  Promise!Answer \/ Promise!Transmit
    <2>1. /\ linked /\ Drain(outgoing) /\ UNCHANGED <<nextRequestId, remoteVersion>>
          /\ m.ts \in Timestamp \cup {NoTs}
        BY <1>9 DEF ReceiveMutationResponse, ServerMessage
    <2>2. CASE HoldSuccess(m)
        <3>1. PICK r \in ongoing :
                  LET held == (ongoing \ {r}) \cup {[r EXCEPT !.completed = TRUE, !.ts = m.ts]}
                      done == Deliverable(held, remoteVersion.ts)
                  IN  /\ ongoing' = held \ done
                      /\ Complete({OkAnswer(x) : x \in done})
            BY <2>2 DEF HoldSuccess
        <3> DEFINE new == [r EXCEPT !.completed = TRUE, !.ts = m.ts]
                   held == (ongoing \ {r}) \cup {new}
        <3>2. new \in PendingRequest /\ new.id = r.id /\ new.kind = r.kind
            BY <2>1 DEF TypeOK, PendingRequest
        <3>3. held \in SUBSET PendingRequest /\ \A x, y \in held : x.id = y.id => x = y
            BY <3>2 DEF TypeOK, RequestInv, UniqueRequests
        <3>4. Opened(held) = Opened(ongoing)
            <4>1. ASSUME NEW o PROVE o \in Opened(held) <=> o \in Opened(ongoing)
                <5>1. o \in Opened(held) <=> \E x \in held : o = [id |-> x.id, kind |-> x.kind]
                    BY OpenedMember
                <5>2. o \in Opened(ongoing)
                          <=> \E x \in ongoing : o = [id |-> x.id, kind |-> x.kind]
                    BY OpenedMember
                <5> HIDE DEF new
                <5> QED
                    BY <3>2, <5>1, <5>2
            <4> QED
                BY <4>1
        <3>5. remoteVersion' = remoteVersion /\ remoteVersion'.ts >= remoteVersion.ts
            BY <2>1 DEF TypeOK, StateVersion
        <3>6. /\ ongoing' = held \ Deliverable(held, remoteVersion'.ts)
              /\ Complete({OkAnswer(x) : x \in Deliverable(held, remoteVersion'.ts)})
            BY <3>1, <3>5
        <3> HIDE DEF held
        <3> QED
            BY <1>3, <2>1, <3>3, <3>4, <3>5, <3>6, DeliverAnswers
    <2>3. CASE AnswerNow(m, "ok") \/ AnswerNow(m, "error")
        BY <1>3, <2>1, <2>3, ResponseAnswers
    <2>4. CASE IgnoreResponse(m)
        BY <1>1, <2>1, <2>4 DEF IgnoreResponse, requestVars
    <2> QED
        BY <1>9, <2>2, <2>3, <2>4 DEF ReceiveMutationResponse
<1>10. ASSUME NEW m \in ServerMessage, ReceiveActionResponse(m)
       PROVE  Promise!Answer \/ Promise!Transmit
    <2>1. linked /\ Drain(outgoing) /\ UNCHANGED <<nextRequestId, remoteVersion>>
        BY <1>10 DEF ReceiveActionResponse
    <2>2. CASE AnswerNow(m, "ok") \/ AnswerNow(m, "error")
        BY <1>3, <2>1, <2>2, ResponseAnswers
    <2>3. CASE IgnoreResponse(m)
        BY <1>1, <2>1, <2>3 DEF IgnoreResponse, requestVars
    <2> QED
        BY <1>10, <2>2, <2>3 DEF ReceiveActionResponse
<1>11. ASSUME Open PROVE Promise!Transmit
    <2>1. /\ transmitted' = transmitted \cup ActionIds(outgoing)
          /\ UNCHANGED <<ongoing, nextRequestId, remoteVersion, answers>>
        BY <1>11 DEF Open, requestVars, remoteVars
    <2>2. ActionIds(outgoing) \subseteq Promise!OpenActions
        BY OpenActionIds DEF QueueInv
    <2> QED
        BY <2>1, <2>2 DEF Promise!Transmit, Promise!Expose
<1>12. ASSUME NEW kind \in {"Mutation", "Action"}, Request(kind) PROVE Promise!Call(kind)
    BY <1>12, RequestCalls
<1>13. ASSUME NEW token, Reconnect(token) PROVE Promise!Lose
    BY <1>13, ReconnectLoses
<1>14. ASSUME UNCHANGED vars PROVE UNCHANGED Promise!promiseVars
    BY <1>14 DEF vars, requestVars, remoteVars, wireVars, Promise!promiseVars
<1> QED
    BY <1>4, <1>5, <1>6, <1>7, <1>8, <1>9, <1>10, <1>11, <1>12, <1>13, <1>14,
       MessagesAssumption
    DEF Next, User, Network, Receive, RejectTransition, Disconnect, Promise!PromiseNext

\* base_client implements the promise: whatever it does, callers see one answer
\* per request, no success before its effect can be seen, and "lost" for exactly
\* the open actions that may have run.
THEOREM PromiseKept == Spec => KeepsPromise
<1>1. Init => Promise!PromiseInit
    BY DEF Init, Promise!PromiseInit, InitialVersion
<1>2. TypeOK /\ RequestInv /\ WireInv /\ QueueInv /\ [Next]_vars
          => [Promise!PromiseNext]_(Promise!promiseVars)
    BY PromiseStep
<1> QED
    BY <1>1, <1>2, TypeCorrect, RequestsCorrect, WireCorrect, QueueCorrect, PTL
    DEF Spec, KeepsPromise, Promise!PromiseSpec
=============================================================================
