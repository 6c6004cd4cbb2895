---------------------------- MODULE SyncSession ----------------------------
(***************************************************************************)
(* The client of BaseClient talking to a sync server over a connection     *)
(* that may be lost.  The server and the network are not part of the       *)
(* repository: they are modelled from what the client relies on.           *)
(*                                                                         *)
(*  - A database is a clock: every commit moves it by one and changes the  *)
(*    result of every query, so a result is named by the timestamp it was  *)
(*    computed at.                                                         *)
(*  - A connection is an ordered channel each way.  The frames a lost      *)
(*    connection had in flight may still reach the server later.           *)
(*  - The server refuses a ModifyQuerySet or an Authenticate whose base is *)
(*    not its current version, runs a mutation once per request id, and    *)
(*    resumes no earlier than the timestamp Connect reports.               *)
(***************************************************************************)
EXTENDS BaseClient, SequencesExt

CONSTANTS
    MaxClock     \* bound: commits of other clients stop at this timestamp

ASSUME SessionAssumption == MaxClock \in Nat

VARIABLES
    clock,       \* the timestamp of the last commit
    outcomes,    \* the mutations run in this session: [id, ok, ts]
    actionRuns,  \* how often each action ran
    taken,       \* how many of the frames in `sent` the server has handled
    late,        \* request frames of lost connections still to arrive
    srv,         \* the server's end of the connection
    owed,        \* requests of this connection the server has yet to answer
    down,        \* messages from the server in flight
    refused      \* the server was sent a version it must refuse

sessionVars == <<clock, outcomes, actionRuns, late, refused>>
connectionVars == <<taken, srv, owed, down>>
allVars == <<vars, sessionVars, connectionVars>>

NewConnection == [qs |-> 0, id |-> 0, queries |-> {}, told |-> {}, ver |-> InitialVersion,
                  floor |-> 0]

-----------------------------------------------------------------------------
(* The server handles the next frame.                                      *)

NextFrame == sent[taken + 1]

\* The next frame of an open connection is of this type.
Handling(type) ==
    /\ linked
    /\ taken < Len(sent)
    /\ NextFrame.type = type
    /\ taken' = taken + 1

ServeConnect ==
    /\ Handling("Connect")
    /\ srv' = [srv EXCEPT !.floor = IF NextFrame.maxObserved = NoTs THEN 0
                                    ELSE NextFrame.maxObserved]
    /\ UNCHANGED <<vars, sessionVars, owed, down>>

ServeAuthenticate ==
    /\ Handling("Authenticate")
    /\ srv' = [srv EXCEPT !.id = @ + 1]
    /\ refused' = (refused \/ NextFrame.base # srv.id)
    /\ UNCHANGED <<vars, clock, outcomes, actionRuns, late, owed, down>>

ServeModifyQuerySet ==
    /\ Handling("ModifyQuerySet")
    /\ srv' = [srv EXCEPT !.qs = NextFrame.new,
                          !.queries = (@ \cup Ids(NextFrame.adds)) \ NextFrame.removes]
    /\ refused' = (\/ refused
                   \/ NextFrame.base # srv.qs
                   \/ Ids(NextFrame.adds) \cap srv.queries # {}
                   \/ ~(NextFrame.removes \subseteq srv.queries))
    /\ UNCHANGED <<vars, clock, outcomes, actionRuns, late, owed, down>>

\* A mutation runs unless this session ran it before; it commits or fails.
RunMutation(id) ==
    IF id \in Ids(outcomes)
    THEN UNCHANGED <<clock, outcomes>>
    ELSE \/ /\ clock' = clock + 1
            /\ outcomes' = outcomes \cup {[id |-> id, ok |-> TRUE, ts |-> clock + 1]}
         \/ /\ outcomes' = outcomes \cup {[id |-> id, ok |-> FALSE, ts |-> NoTs]}
            /\ UNCHANGED clock

ServeMutation ==
    /\ Handling("Mutation")
    /\ RunMutation(NextFrame.id)
    /\ owed' = owed \cup {NextFrame.id}
    /\ UNCHANGED <<vars, actionRuns, late, refused, srv, down>>

RunAction(id) == actionRuns' = [actionRuns EXCEPT ![id] = @ + 1]

ServeAction ==
    /\ Handling("Action")
    /\ RunAction(NextFrame.id)
    /\ \E ok \in BOOLEAN :
           down' = Append(down, [type |-> "ActionResponse", id |-> NextFrame.id, ok |-> ok])
    /\ UNCHANGED <<vars, clock, outcomes, late, refused, srv, owed>>

\* A request a lost connection had in flight arrives; nobody hears its answer.
ServeLate ==
    /\ late # <<>>
    /\ late' = Tail(late)
    /\ \/ /\ Head(late).type = "Mutation"
          /\ RunMutation(Head(late).id)
          /\ UNCHANGED actionRuns
       \/ /\ Head(late).type = "Action"
          /\ RunAction(Head(late).id)
          /\ UNCHANGED <<clock, outcomes>>
    /\ UNCHANGED <<vars, refused, connectionVars>>

-----------------------------------------------------------------------------
(* What the server sends of its own accord.                                *)

\* Mutations are answered in any order, before or after the Transition that
\* covers them.
RespondMutation ==
    \E o \in {x \in outcomes : x.id \in owed} :
        /\ owed' = owed \ {o.id}
        /\ down' = Append(down, [type |-> "MutationResponse", id |-> o.id, ok |-> o.ok,
                                 ts |-> o.ts])
        /\ UNCHANGED <<vars, sessionVars, taken, srv>>

\* The server has received the query set a reconnect restores before it sends
\* the first Transition of the connection.
Restored == \A i \in (taken + 1)..Len(sent) :
                sent[i].type = "ModifyQuerySet" => sent[i].base > 0

\* A Transition to timestamp `ts`, sending the results that changed.  The
\* server's version is that of the last query set and identity it handled.
SendTransition(ts) ==
    LET end == [qs |-> srv.qs, id |-> srv.id, ts |-> ts]
        updated == IF ts > srv.ver.ts THEN srv.queries ELSE srv.queries \ srv.told
        mods == [type : {"Result"}, id : updated, at : {ts}, journal : {ts}]
                    \cup [type : {"Removed"}, id : srv.told \ srv.queries]
    IN
    /\ linked
    /\ taken > 0
    /\ Restored
    /\ ts >= srv.ver.ts /\ ts >= srv.floor /\ ts <= clock
    /\ end # srv.ver
    /\ down' = Append(down, [type |-> "Transition", start |-> srv.ver, end |-> end,
                             mods |-> SetToSeq(mods)])
    /\ srv' = [srv EXCEPT !.ver = end, !.told = srv.queries]
    /\ UNCHANGED <<vars, sessionVars, taken, owed>>

\* Another client commits.
OtherCommit ==
    /\ clock < MaxClock
    /\ clock' = clock + 1
    /\ UNCHANGED <<vars, outcomes, actionRuns, late, refused, connectionVars>>

-----------------------------------------------------------------------------
(* The client and its connection.                                          *)

ClientStep == User /\ UNCHANGED <<sessionVars, connectionVars>>

\* The requests among some frames, in their order.
RequestsOf(frames) ==
    LET at == {i \in DOMAIN frames : frames[i].type \in {"Mutation", "Action"}}
    IN  [k \in 1..Cardinality(at) |->
            frames[CHOOSE i \in at : Cardinality({j \in at : j < i}) = k - 1]]

\* What the closed connection leaves behind, before and after.
Abandon ==
    /\ taken' = 0
    /\ srv' = NewConnection
    /\ owed' = {}
    /\ down' = <<>>
    /\ late' = late \o RequestsOf(SubSeq(sent, taken + 1, Len(sent)))
    /\ UNCHANGED <<clock, outcomes, actionRuns, refused>>

\* A failed attempt or a lost connection.  The scenario ends with the last
\* connection, so that one is not lost.
Drop ==
    /\ connectionCount < MaxConnections
    /\ \E token \in Identity : Disconnect(token)
    /\ Abandon

Connect == Open /\ UNCHANGED <<sessionVars, connectionVars>>

\* The client handles the oldest message.
Deliver ==
    /\ down # <<>>
    /\ LET m == Head(down) IN
          \/ /\ \/ ApplyTransition(m)
                \/ ReceiveMutationResponse(m)
                \/ ReceiveActionResponse(m)
             /\ down' = Tail(down)
             /\ UNCHANGED <<sessionVars, taken, srv, owed>>
          \/ /\ \E token \in Identity : RejectTransition(m, token)
             /\ Abandon

-----------------------------------------------------------------------------
SessionInit ==
    /\ Init
    /\ clock = 1
    /\ outcomes = {}
    /\ actionRuns = [id \in 0..(MaxRequests - 1) |-> 0]
    /\ taken = 0 /\ late = <<>> /\ srv = NewConnection /\ owed = {} /\ down = <<>>
    /\ refused = FALSE

Serve ==
    \/ ServeConnect
    \/ ServeAuthenticate
    \/ ServeModifyQuerySet
    \/ ServeMutation
    \/ ServeAction
    \/ ServeLate

Transit == \E ts \in 1..clock : SendTransition(ts)

SessionNext ==
    \/ ClientStep
    \/ Drop
    \/ Connect
    \/ Deliver
    \/ Serve
    \/ RespondMutation
    \/ Transit
    \/ OtherCommit

SessionSpec == SessionInit /\ [][SessionNext]_allVars

\* The scheduling the liveness properties rest on: the worker keeps trying to
\* connect, a connected socket delivers, the server keeps serving.  Nothing is
\* assumed of the user, of other clients or of when connections are lost.
Fairness ==
    /\ WF_allVars(Connect)
    /\ WF_allVars(Deliver)
    /\ WF_allVars(Serve)
    /\ WF_allVars(RespondMutation)
    /\ WF_allVars(Transit)

FairSessionSpec == SessionSpec /\ Fairness

-----------------------------------------------------------------------------
(* Safety.                                                                 *)

\* The server never has to refuse what the client sends: versions follow on,
\* no query is added twice, none is removed that is not there, on any
\* connection (base_client.cpp subscribe, unsubscribe, set_auth, restart).
NeverRefused == ~refused

\* With a server that numbers its Transitions, the client is never out of step
\* with the next one: StartVersionMismatch cannot happen to a correct pair,
\* even right after a reconnect (base_client.cpp handle_transition, restart).
NeverOutOfStep ==
    \A i \in DOMAIN down :
        /\ down[i].type = "Transition"
        /\ \A j \in 1..(i - 1) : down[j].type # "Transition"
        => down[i].start = remoteVersion

\* Read your writes, as every subscriber sees it: once the caller of a mutation
\* hears that it succeeded, no subscriber's last snapshot is older than the
\* commit (README.md "completed mutations are always visible in query results";
\* base_client.cpp flush_completed, client.cpp ws_message's order of callbacks).
ReadYourWrites ==
    \A a \in answers, v \in views : a.outcome = "ok" => v.at >= a.ts

\* What a subscriber is handed never goes back in time, across reconnects and
\* for subscribers that joined late (base_client.cpp make_connect_message's
\* max_observed_timestamp, restart's clearing of remote_results_).
MonotonicViews ==
    [][\A v \in views, w \in views' : v.index = w.index => v.at <= w.at]_allVars

\* Mutations commit in the order they were requested, also when some are sent
\* again on a new connection while the old one's frames are still arriving
\* (base_client.cpp restart: "must go out in original order").
CommitOrder ==
    \A a, b \in outcomes : a.ok /\ b.ok /\ a.id < b.id => a.ts < b.ts

\* A caller hears what became of its request at the server, whichever
\* connection the answer came on: a result that really happened, and a lost
\* connection only for an action (base_client.cpp receive_message, restart).
AnswersTrue ==
    \A a \in answers :
        IF a.outcome = "lost" THEN a.id \notin Ids(outcomes)
        ELSE \/ actionRuns[a.id] = 1
             \/ \E o \in outcomes :
                   o.id = a.id /\ o.ts = a.ts /\ a.outcome = (IF o.ok THEN "ok" ELSE "error")

\* When the client's acknowledged query set is its own, it holds exactly the
\* results of its live queries: none is missing and none is left over from a
\* query dropped while its result was in flight (base_client.cpp
\* apply_state_modification, unsubscribe, restart).
InStepMeansExact ==
    remoteVersion.qs = querySetVersion => Ids(results) = Ids(querySet)

\* The journal a reconnect would resend belongs to the last result the query's
\* subscribers were handed (base_client.cpp apply_state_modification, restart).
JournalMatchesView ==
    \A q \in querySet, v \in views : v.query = q.id => v.at = q.journal

-----------------------------------------------------------------------------
(* Liveness.                                                               *)

\* Every request is answered: with its result, or for an action that was on
\* a lost connection with an error (client.cpp pending).
RequestsAnswered ==
    \A id \in 0..(MaxRequests - 1) : id \in pending ~> id \notin pending

\* Every subscription is handed a result or is dropped (client.cpp ws_message).
SubscribersServed ==
    \A n \in 0..(MaxSubscribers - 1) :
        (\E s \in subs : s.index = n)
            ~> \/ \A s \in subs : s.index # n
               \/ \E v \in views : v.index = n
=============================================================================
