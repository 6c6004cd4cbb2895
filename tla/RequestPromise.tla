--------------------------- MODULE RequestPromise ---------------------------
(***************************************************************************)
(* What base_client promises the callers of mutations and actions, without *)
(* queues, versions or reconnects: every request is open until it is       *)
(* answered once; a success that has a timestamp is told only when the     *)
(* results shown have reached it; and losing the connection fails exactly  *)
(* the open actions that were put on a wire.                               *)
(***************************************************************************)
EXTENDS Integers, FiniteSets

NoTs == -1

VARIABLES
    open,     \* requests without an answer: [id, kind]
    nextId,   \* the id of the next request
    risked,   \* the actions that were put on a wire
    horizon,  \* the timestamp the results shown have reached
    answers   \* the answers given: [id, outcome, ts]

promiseVars == <<open, nextId, risked, horizon, answers>>

IdsOf(set) == {x.id : x \in set}

OpenActions == IdsOf({r \in open : r.kind = "Action"})

\* Open actions may be put on a wire by any step that has one.
Expose(actions) == risked \subseteq risked' /\ risked' \subseteq risked \cup actions

Call(kind) ==
    /\ open' = open \cup {[id |-> nextId, kind |-> kind]}
    /\ nextId' = nextId + 1
    /\ Expose(IF kind = "Action" THEN {nextId} ELSE {})
    /\ UNCHANGED <<horizon, answers>>

\* What is queued goes out on a new connection.
Transmit ==
    /\ Expose(OpenActions)
    /\ UNCHANGED <<open, nextId, horizon, answers>>

\* Answers come singly or, when the horizon moves, several at a time.
Answer ==
    LET given == answers' \ answers IN
    /\ horizon' >= horizon
    /\ answers \subseteq answers'
    /\ \A a \in given :
          /\ a.outcome \in {"ok", "error"}
          /\ a.ts <= horizon'
          /\ \A b \in given : a.id = b.id => a = b
    /\ IdsOf(given) \subseteq IdsOf(open)
    /\ open' = {r \in open : r.id \notin IdsOf(given)}
    /\ UNCHANGED <<nextId, risked>>

Lose ==
    LET lost == {r \in open : r.kind = "Action" /\ r.id \in risked} IN
    /\ open' = open \ lost
    /\ answers' = answers \cup {[id |-> r.id, outcome |-> "lost", ts |-> NoTs] : r \in lost}
    /\ horizon' = 0
    /\ UNCHANGED <<nextId, risked>>

PromiseInit ==
    /\ open = {} /\ nextId = 0 /\ risked = {} /\ horizon = 0 /\ answers = {}

PromiseNext ==
    \/ \E kind \in {"Mutation", "Action"} : Call(kind)
    \/ Transmit
    \/ Answer
    \/ Lose

PromiseSpec == PromiseInit /\ [][PromiseNext]_promiseVars
=============================================================================
