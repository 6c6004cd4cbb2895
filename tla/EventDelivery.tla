---------------------------- MODULE EventDelivery ----------------------------
(***************************************************************************)
(* How the callbacks of client_impl reach the program: results of a query, *)
(* completions of requests and one-shot queries, from the critical section *)
(* that produces them to the thread that runs them.                        *)
(*                                                                         *)
(* A thread collects events under `mu` and delivers them after it has let  *)
(* go of it: it runs them itself (immediate) or takes the lock once more   *)
(* to append them to event_queue (pumped), where process_events() and      *)
(* ~client find them.  `hand` holds what a thread has yet to deliver.      *)
(*                                                                         *)
(* What base_client does is BaseClient's; here it is one query, whose      *)
(* results are numbered, and requests that may complete at any time.  One  *)
(* thread of the program, "main", calls process_events() and the           *)
(* destructor; another, "user", calls the rest along with it.  Of the      *)
(* connections, ClientRuntime's matter, there is who will destroy the one  *)
(* whose thread is "ws": whoever does waits for that thread, and ~client   *)
(* may do so with `mu` held.                                               *)
(***************************************************************************)
EXTENDS Integers, Sequences, FiniteSets, SequencesExt

CONSTANTS
    Subscribers,  \* subscriptions the program makes and may drop
    OneShots,     \* one-shot queries: client::query()
    Requests,     \* mutations and actions
    Actions,      \* those a lost connection may fail
    MaxResults    \* bound: results the server computes for the query

Listeners == Subscribers \cup OneShots

ASSUME DeliveryAssumption ==
    /\ MaxResults \in Nat
    /\ Actions \subseteq Requests
    /\ Listeners \cap Requests = {}
    /\ Subscribers \cap OneShots = {}
    /\ Listeners \cap {"idle", "deliver", "pump", "join", "destroy"} = {}

Program == {"user", "main"}
Threads == Program \cup {"ws", "worker", "detached"}

NoResult == 0
Lost == -1      \* the error of an action whose connection was lost
ShutDown == -2  \* the error of a request the destructor completes

\* A result for a listener, `cached` when subscribe() found it; a completion,
\* with the query's result when it was produced; and what is left of a one-shot
\* callback that has run `on_done`: to release its handle.
Event ==
    [type : {"result"}, to : Listeners, at : 1..MaxResults, cached : BOOLEAN]
        \cup [type : {"completion"}, to : Requests, at : Lost..MaxResults \cup {ShutDown}]
        \cup [type : {"release"}, to : OneShots]

VARIABLES
    immediate,  \* opts.delivery_mode
    latest,     \* base.latest_result(): number of the result, if there is one
    computed,   \* number of results so far
    subs,       \* subs, in the order of subscribing
    pending,    \* pending
    queue,      \* event_queue
    hand,       \* per thread: the events it has yet to deliver
    pc,         \* per thread: "idle", "deliver", the listener it is in subscribe()
                \* for, "pump" (process_events), "join" or "destroy" (~client)
    handle,     \* per listener: its subscription: "none", "held" or "released"
    connection, \* "none", "open" (conn), "garbage", or "collected" (the worker
                \* destroys it)
    blocked,    \* its thread waits for the lock that ~client holds
    phase,      \* of ~client: "alive", "hung", "joining", "sweeping", "draining",
                \* "returned"
    made,       \* history: the listeners and requests ever made
    calls,      \* history: per listener, the results it was called with
    ran,        \* history: per request, what its callback was called with
    early,      \* history: one-shot callbacks run before subscribe() returned
    overtaken   \* history: listeners last called with a cached result older than
                \* one they had been called with before

eventVars == <<queue, hand, pc>>
connVars == <<connection, blocked>>
historyVars == <<made, calls, ran, early, overtaken>>
vars == <<immediate, latest, computed, subs, pending, eventVars, handle, connVars,
          phase, historyVars>>

stopping == phase # "alive"
Idle(t) == pc[t] = "idle"

\* ~client holds the lock while it waits: for itself, or for garbage.clear().
Unlocked == phase \notin {"hung", "sweeping"}

-----------------------------------------------------------------------------
(* Producing events.                                                       *)

ResultEvent(x, n, cached) == [type |-> "result", to |-> x, at |-> n, cached |-> cached]
Completion(r, n) == [type |-> "completion", to |-> r, at |-> n]

Results(n) == [i \in DOMAIN subs |-> ResultEvent(subs[i], n, FALSE)]

Completions(done, n) == LET s == SetToSeq(done) IN [i \in DOMAIN s |-> Completion(s[i], n)]

\* Mutant: completions are told before the results they wait for.
CompletionsFirst(changed, done, n) ==
    Completions(done, n) \o (IF changed THEN Results(n) ELSE <<>>)

\* The events of one message, results before completions.
EventsOf(changed, done, n) ==
    (IF changed THEN Results(n) ELSE <<>>) \o Completions(done, n)

\* Leaving the critical section with events to deliver.
Collect(t, events) ==
    /\ hand' = [hand EXCEPT ![t] = events]
    /\ pc' = [pc EXCEPT ![t] = IF events = <<>> THEN "idle" ELSE "deliver"]

\* ws_message() with a Transition or a response: the query may have a new
\* result, and any requests may complete.
Receive ==
    \E changed \in BOOLEAN, done \in SUBSET pending :
        LET n == IF changed THEN computed + 1 ELSE latest IN
        /\ Idle("ws") /\ ~stopping
        /\ connection = "open"
        /\ changed => computed < MaxResults
        /\ changed \/ done # {}
        /\ latest' = n
        /\ computed' = IF changed THEN n ELSE computed
        /\ pending' = pending \ done
        /\ Collect("ws", EventsOf(changed, done, n))
        /\ UNCHANGED <<immediate, subs, queue, handle, connVars, phase, historyVars>>

\* Mutant: the actions failed stay pending.
FailActionsKept(lost) ==
    /\ ~stopping
    /\ connection = "open"
    /\ connection' = "garbage"
    /\ latest' = NoResult
    /\ pending' = pending

\* begin_disconnect(): results are forgotten and actions in flight fail.
FailActions(lost) ==
    /\ ~stopping
    /\ connection = "open"
    /\ connection' = "garbage"
    /\ latest' = NoResult
    /\ pending' = pending \ lost

\* ws_close(), or ws_message() with an error the server reports; and the
\* inactivity timer of the worker.
Disconnect(t) ==
    \E lost \in SUBSET (pending \cap Actions) :
        /\ Idle(t)
        /\ FailActions(lost)
        /\ Collect(t, Completions(lost, Lost))
        /\ UNCHANGED <<immediate, computed, subs, queue, handle, blocked, phase, historyVars>>

\* A protocol error: deliver_later() queues the events at once, or leaves them
\* to a thread nobody waits for.  Bound: one such thread at a time.
ProtocolError ==
    \E lost \in SUBSET (pending \cap Actions) :
        /\ Idle("ws")
        /\ FailActions(lost)
        /\ IF immediate
           THEN /\ Idle("detached")
                /\ Collect("detached", Completions(lost, Lost))
                /\ UNCHANGED queue
           ELSE /\ queue' = queue \o Completions(lost, Lost)
                /\ UNCHANGED <<hand, pc>>
        /\ UNCHANGED <<immediate, computed, subs, handle, blocked, phase, historyVars>>

-----------------------------------------------------------------------------
(* The connection.                                                         *)

deliveryVars == <<immediate, latest, computed, subs, pending, eventVars, handle, historyVars>>

\* A thread runs what it has in hand, ~client once all others are joined.
Running(t) ==
    /\ hand[t] # <<>> /\ pc[t] # "join"
    /\ immediate \/ pc[t] \in {"pump", "destroy"}

\* The thread of a retired connection asks for `mu` while ~client holds it: in
\* its next callback, or in one of the program's that calls the client.  With
\* the lock free, a callback of a retired connection finds that it is stale.
Block ==
    /\ phase = "sweeping"
    /\ connection = "garbage" /\ (Idle("ws") \/ Running("ws"))
    /\ blocked' = TRUE
    /\ UNCHANGED <<deliveryVars, connection, phase>>

\* The worker's turn, when it has delivered what it had.
WorkerIdle == Idle("worker") /\ ~stopping

\* attempt_connect(); attempts that fail or are superseded have nothing to
\* deliver.
Connect ==
    /\ WorkerIdle
    /\ connection = "none"
    /\ connection' = "open"
    /\ UNCHANGED <<deliveryVars, blocked, phase>>

\* worker_loop() takes the garbage, and destroys it without the lock.
WorkerCollect ==
    /\ WorkerIdle
    /\ connection = "garbage"
    /\ connection' = "collected"
    /\ UNCHANGED <<deliveryVars, blocked, phase>>

\* The thread of the connection can be joined.
Joinable == Idle("ws") /\ ~blocked

WorkerDestroy ==
    /\ connection = "collected" /\ Joinable
    /\ connection' = "none"
    /\ UNCHANGED <<deliveryVars, blocked, phase>>

-----------------------------------------------------------------------------
(* Delivering them.                                                        *)

\* deliver() in pumped mode, and the call of subscribe() going on.
Enqueue(t) ==
    /\ Unlocked
    /\ ~immediate
    /\ pc[t] \in {"deliver"} \cup Listeners
    /\ hand[t] # <<>>
    /\ queue' = queue \o hand[t]
    /\ hand' = [hand EXCEPT ![t] = <<>>]
    /\ pc' = [pc EXCEPT ![t] = IF @ = "deliver" THEN "idle" ELSE @]
    /\ UNCHANGED <<immediate, latest, computed, subs, pending, handle, connVars,
                   phase, historyVars>>

\* The thread goes on with `rest`.
GoOn(t, rest) ==
    /\ hand' = [hand EXCEPT ![t] = rest]
    /\ pc' = [pc EXCEPT ![t] = IF rest = <<>> /\ @ \in {"deliver", "pump"} THEN "idle" ELSE @]

Newest(s) == IF s = <<>> THEN NoResult ELSE Max(Range(s))

\* on_update of a subscription.
CallUpdate(t, e) ==
    /\ e.type = "result" /\ e.to \in Subscribers
    /\ calls' = [calls EXCEPT ![e.to] = Append(@, e.at)]
    /\ overtaken' = IF e.cached /\ e.at < Newest(calls[e.to]) THEN overtaken \cup {e.to}
                    ELSE overtaken \ {e.to}
    /\ GoOn(t, Tail(hand[t]))
    /\ UNCHANGED <<subs, handle, ran, early>>

\* The callback of a one-shot query: only its first run counts.
CallOnce(t, e) ==
    /\ e.type = "result" /\ e.to \in OneShots
    /\ IF calls[e.to] # <<>>
       THEN /\ GoOn(t, Tail(hand[t]))
            /\ UNCHANGED <<calls, early>>
       ELSE /\ calls' = [calls EXCEPT ![e.to] = Append(@, e.at)]
            /\ early' = IF handle[e.to] = "none" THEN early \cup {e.to} ELSE early
            /\ GoOn(t, <<[type |-> "release", to |-> e.to]>> \o Tail(hand[t]))
    /\ UNCHANGED <<subs, handle, ran, overtaken>>

\* Mutant: the entry stays in subs.
WithoutNone(x) == subs

Without(x) ==
    IF x \in Range(subs) THEN RemoveAt(subs, CHOOSE i \in DOMAIN subs : subs[i] = x) ELSE subs

\* unsubscribe() of a handle; a client that stops has no entry to remove.
Release(x) ==
    IF handle[x] = "held"
    THEN /\ handle' = [handle EXCEPT ![x] = "released"]
         /\ subs' = IF stopping THEN subs ELSE Without(x)
    ELSE UNCHANGED <<handle, subs>>

\* holder->unsubscribe(), the last step of that callback.
ReleaseOnce(t, e) ==
    /\ e.type = "release"
    /\ handle[e.to] = "held" => Unlocked
    /\ Release(e.to)
    /\ GoOn(t, Tail(hand[t]))
    /\ UNCHANGED <<calls, ran, early, overtaken>>

CallDone(t, e) ==
    /\ e.type = "completion"
    /\ ran' = [ran EXCEPT ![e.to] = Append(@, e.at)]
    /\ GoOn(t, Tail(hand[t]))
    /\ UNCHANGED <<subs, handle, calls, early, overtaken>>

\* The next callback of a thread that runs its events.
Run(t) ==
    /\ Running(t) /\ (t = "ws" => ~blocked)
    /\ LET e == Head(hand[t]) IN
           \/ CallUpdate(t, e)
           \/ CallOnce(t, e)
           \/ ReleaseOnce(t, e)
           \/ CallDone(t, e)
    /\ UNCHANGED <<immediate, latest, computed, pending, queue, connVars, phase, made>>

\* process_events().
Pump ==
    /\ Idle("main") /\ ~stopping
    /\ queue # <<>>
    /\ hand' = [hand EXCEPT !["main"] = queue]
    /\ queue' = <<>>
    /\ pc' = [pc EXCEPT !["main"] = "pump"]
    /\ UNCHANGED <<immediate, latest, computed, subs, pending, handle, connVars,
                   phase, historyVars>>

-----------------------------------------------------------------------------
(* Calls of the program.                                                   *)

\* Mutant: a late subscriber waits for the next result.
CachedNever(x) == <<>>

\* The result a new subscriber is called with, if one is known.
Cached(x) == IF latest = NoResult THEN <<>> ELSE <<ResultEvent(x, latest, TRUE)>>

\* do_subscribe(), for a subscription or a one-shot query.
Subscribe(t, x) ==
    /\ Idle(t) /\ ~stopping
    /\ x \notin made
    /\ made' = made \cup {x}
    /\ subs' = Append(subs, x)
    /\ hand' = [hand EXCEPT ![t] = Cached(x)]
    /\ pc' = [pc EXCEPT ![t] = x]
    /\ UNCHANGED <<immediate, latest, computed, pending, queue, handle, connVars, phase,
                   calls, ran, early, overtaken>>

\* subscribe() returns the handle, into *holder for a one-shot query.
Subscribed(t) ==
    /\ pc[t] \in Listeners /\ hand[t] = <<>>
    /\ handle' = [handle EXCEPT ![pc[t]] = "held"]
    /\ pc' = [pc EXCEPT ![t] = "idle"]
    /\ UNCHANGED <<immediate, latest, computed, subs, pending, queue, hand, connVars,
                   phase, historyVars>>

\* do_unsubscribe(); the handle may outlive the client.
Unsubscribe(t, x) ==
    /\ Idle(t) /\ Unlocked
    /\ handle[x] = "held"
    /\ Release(x)
    /\ UNCHANGED <<immediate, latest, computed, pending, eventVars, connVars, phase,
                   historyVars>>

\* do_request().
Request(t, r) ==
    /\ Idle(t) /\ ~stopping
    /\ r \notin made
    /\ made' = made \cup {r}
    /\ pending' = pending \cup {r}
    /\ UNCHANGED <<immediate, latest, computed, subs, eventVars, handle, connVars, phase,
                   calls, ran, early, overtaken>>

\* do_request() by a callback that runs while the client stops: an error at once.
RequestRefused(t, r) ==
    /\ Running(t) /\ stopping /\ Unlocked
    /\ r \notin made
    /\ made' = made \cup {r}
    /\ ran' = [ran EXCEPT ![r] = Append(@, ShutDown)]
    /\ UNCHANGED <<immediate, latest, computed, subs, pending, eventVars, handle, connVars,
                   phase, calls, early, overtaken>>

-----------------------------------------------------------------------------
(* ~client, on "main", when no other call is going on.                     *)

Addressed(x, events) == \E i \in DOMAIN events : events[i].to = x

\* An event on its way to x keeps a copy of its callback alive.
OnItsWay(x) == Addressed(x, queue) \/ \E t \in Threads : Addressed(x, hand[t])

\* The handle of a one-shot query dies with the last copy of its callback, and
\* unsubscribes: subs.clear() then asks for the lock it is called under.
ClearLocks == \E x \in Range(subs) \cap OneShots : handle[x] = "held" /\ ~OnItsWay(x)

\* The critical section of shutdown().
BeginShutdown ==
    /\ \A t \in Program : Idle(t)
    /\ ~stopping
    /\ pending' = {}
    /\ hand' = [hand EXCEPT !["main"] = Completions(pending, ShutDown)]
    /\ pc' = [pc EXCEPT !["main"] = "join"]
    /\ IF ClearLocks
       THEN /\ phase' = "hung"
            /\ UNCHANGED subs
       ELSE /\ phase' = "joining"
            /\ subs' = <<>>
    /\ UNCHANGED <<immediate, latest, computed, queue, handle, connVars, historyVars>>

\* The worker and the thread of conn are joined without the lock, which is then
\* taken once more.
Join ==
    /\ phase = "joining"
    /\ Idle("worker") /\ connection # "collected"
    /\ connection = "open" => Joinable
    /\ phase' = "sweeping"
    /\ connection' = IF connection = "open" THEN "none" ELSE connection
    /\ UNCHANGED <<deliveryVars, blocked>>

\* Mutant: what is still queued is dropped.
RemainingDropped == hand["main"]

Remaining == queue \o hand["main"]

\* garbage.clear() joins a thread with the lock held.  What the threads queued is
\* run first, then the errors of the requests left.
Drain ==
    /\ phase = "sweeping"
    /\ connection = "garbage" => Joinable
    /\ connection' = "none"
    /\ phase' = "draining"
    /\ hand' = [hand EXCEPT !["main"] = Remaining]
    /\ queue' = <<>>
    /\ pc' = [pc EXCEPT !["main"] = "destroy"]
    /\ UNCHANGED <<immediate, latest, computed, subs, pending, handle, blocked, historyVars>>

Return ==
    /\ phase = "draining" /\ hand["main"] = <<>>
    /\ phase' = "returned"
    /\ UNCHANGED <<deliveryVars, connVars>>

-----------------------------------------------------------------------------
Init ==
    /\ immediate \in BOOLEAN
    /\ latest = NoResult /\ computed = 0
    /\ subs = <<>> /\ pending = {} /\ queue = <<>>
    /\ hand = [t \in Threads |-> <<>>]
    /\ pc = [t \in Threads |-> "idle"]
    /\ handle = [x \in Listeners |-> "none"]
    /\ connection = "none" /\ blocked = FALSE
    /\ phase = "alive"
    /\ made = {} /\ early = {} /\ overtaken = {}
    /\ calls = [x \in Listeners |-> <<>>]
    /\ ran = [r \in Requests |-> <<>>]

Produce ==
    \/ Receive
    \/ \E t \in {"ws", "worker"} : Disconnect(t)
    \/ ProtocolError

Call ==
    \E t \in Program :
        \/ \E x \in Listeners : Subscribe(t, x)
        \/ \E x \in Subscribers : Unsubscribe(t, x)
        \/ \E r \in Requests : Request(t, r)

Connection ==
    Block \/ Connect \/ WorkerCollect \/ WorkerDestroy

Deliver(t) == Enqueue(t) \/ Run(t)

Destroy == BeginShutdown \/ Join \/ Drain \/ Return

Next ==
    \/ Produce
    \/ Connection
    \/ Call
    \/ \E t \in Program : Subscribed(t)
    \/ \E t \in Threads : Deliver(t)
    \/ \E t \in Threads, r \in Requests : RequestRefused(t, r)
    \/ Pump
    \/ Destroy

Spec == Init /\ [][Next]_vars

\* Every thread goes on with what it is in, and the program keeps calling
\* process_events() until it destroys the client.
Fairness ==
    /\ \A t \in Threads : WF_vars(Deliver(t))
    /\ \A t \in Program : WF_vars(Subscribed(t))
    /\ WF_vars(WorkerDestroy)
    /\ WF_vars(Pump)
    /\ WF_vars(Join) /\ WF_vars(Drain) /\ WF_vars(Return)

FairSpec == Spec /\ Fairness

-----------------------------------------------------------------------------
\* The callback of a request runs at most once, and when ~client has returned
\* it has run for every request ever made, unless the unawaited thread of a
\* protocol error still has it (client.h "Futures ... always satisfied, never
\* broken"; client.cpp begin_disconnect, do_request, shutdown).
AnsweredOnce ==
    \A r \in Requests :
        /\ Len(ran[r]) <= 1
        /\ phase = "returned" /\ r \in made =>
               ran[r] # <<>> \/ Addressed(r, hand["detached"])

\* Read your writes, as the callbacks run: when a request's callback hears of
\* a success, no subscription that has been called at all has only seen results
\* older than the one the success was held for (client.cpp ws_message's order of
\* events, deliver, do_process_events).
EffectsFirst ==
    \A r \in Requests, x \in Range(subs) \cap Subscribers :
        ran[r] # <<>> /\ calls[x] # <<>> => Head(ran[r]) <= Newest(calls[x])

\* Once no event is under way, every subscription was last called with the
\* latest result, whatever threads produced and delivered it, unless that call
\* was overtaken: subscribe() delivered a cached result after a newer one had
\* been (client.cpp do_subscribe, ws_message, deliver).
QuietIsCurrent ==
    (queue = <<>> /\ \A t \in Threads : hand[t] = <<>>) =>
        \A x \in Range(subs) \cap Subscribers :
            latest # NoResult =>
                /\ calls[x] # <<>>
                /\ Last(calls[x]) = latest \/ x \in overtaken

\* A one-shot query is called once and has then left the client, unless its
\* callback ran before subscribe() had returned the handle it releases
\* (client.cpp client::query).
OneShotLeaves ==
    \A x \in OneShots :
        /\ Len(calls[x]) <= 1
        /\ calls[x] # <<>> /\ ~OnItsWay(x) /\ ~stopping =>
               x \in early \/ x \notin Range(subs)

\* The connection's thread waits for `mu`, or needs it next: to queue events or to
\* release a handle.
WantsLock ==
    \/ blocked
    \/ hand["ws"] # <<>> /\ (~immediate \/ LET e == Head(hand["ws"]) IN
                                  e.type = "release" /\ handle[e.to] = "held")

\* ~client waits for itself: a one-shot query's handle died in subs.clear().
LockedOut == phase = "hung"

\* ~client waits, with `mu` held, for a thread that waits for `mu`.
Deadlocked == phase = "sweeping" /\ connection = "garbage" /\ WantsLock

\* A completion that was produced is run, and a destructor that has begun
\* returns, except in the two cases above, which client.h does not except
\* (client.cpp deliver, do_process_events, shutdown).
DeliveryCompletes ==
    /\ \A r \in Requests :
          (r \in made /\ r \notin pending) ~> (ran[r] # <<>> \/ LockedOut \/ Deadlocked)
    /\ stopping ~> (phase = "returned" \/ LockedOut \/ Deadlocked)
=============================================================================
