---------------------------- MODULE ClientRuntime ----------------------------
(***************************************************************************)
(* The threads of client_impl: the worker that connects, times out and     *)
(* destroys connections, one transport thread per connection calling the   *)
(* observer back, and the thread that runs ~client.                        *)
(*                                                                         *)
(* A step that needs `mu` and releases it before it ends is one action     *)
(* that waits until `mu` is free; `mu` is a variable because shutdown()    *)
(* keeps it while it destroys connections.  What the state machine of      *)
(* BaseClient does inside a step is left out.                              *)
(*                                                                         *)
(* The transport is modelled from transport.h and the bundled transport:   *)
(* callbacks of a connection come from one thread, one at a time, some of  *)
(* them before connect() has returned; destroying a connection waits for   *)
(* the callback that runs, and until then more may start.                  *)
(***************************************************************************)
EXTENDS Integers, Sequences, FiniteSets, SequencesExt

CONSTANT MaxAttempts  \* bound: connection attempts

ASSUME RuntimeAssumption == MaxAttempts \in Nat \ {0}

Connections == 1..MaxAttempts
None == 0            \* an empty `conn`

VARIABLES
    pumped,        \* opts.delivery_mode is pumped, else immediate
    mu,            \* who holds the mutex across steps: "free" or "main"
    gen,           \* conn_gen
    conn,          \* conn
    socketOpen,    \* socket_open
    pendingOpen,   \* pending_open
    state,         \* state
    scheduled,     \* reconnect_scheduled
    due,           \* is it past reconnect_at?
    silent,        \* is it past last_server_msg + server_inactivity_threshold?
    stopping,      \* stopping
    garbage,       \* garbage
    attempts,      \* connection attempts made so far
    slotGen,       \* slot::gen of each attempt
    slots,         \* the attempts whose slot object exists
    objects,       \* the attempts whose connection object exists
    wire,          \* each attempt's socket: "none", "dialing", "open", "closed"
    call,          \* the callback each transport thread is in
    hand,          \* the state events each transport thread has yet to deliver
    worker,        \* where the worker is
    waitsFor,      \* the deadlines of the worker's wait on cv
    notified,      \* cv was notified during that wait
    workerHand,    \* the state events the worker has yet to deliver
    dead,          \* the worker's local list of connections to destroy
    main,          \* where the thread in ~client is
    deadConn,      \* shutdown()'s dead_conn
    detached,      \* state events in the hands of detached threads
    hellos,        \* history: Connect messages sent on each attempt
    heard          \* history: the state the listeners heard last

lockVars == <<pumped, mu, gen, conn, socketOpen, pendingOpen, state, scheduled, due, stopping,
              garbage>>
transportVars == <<slots, objects, wire>>
workerVars == <<worker, waitsFor, workerHand, dead>>
mainVars == <<main, deadConn>>
vars == <<lockVars, silent, attempts, slotGen, transportVars, call, hand, workerVars, notified,
          mainVars, detached, hellos, heard>>

Free == mu = "free"

\* The newest of a thread's events is the one the listeners keep.
Heard(events) == IF events = <<>> THEN heard ELSE Last(events)

-----------------------------------------------------------------------------
(* Parts of the critical sections.                                         *)

\* Mutant: the worker is not woken.
BeginDisconnectQuiet(retired) ==
    /\ gen' = gen + 1
    /\ garbage' = garbage \cup retired
    /\ conn' = None
    /\ socketOpen' = FALSE
    /\ pendingOpen' = FALSE
    /\ state' = "disconnected"
    /\ scheduled' = TRUE
    /\ due' = FALSE
    /\ UNCHANGED <<pumped, mu, stopping, notified>>

\* begin_disconnect(): retire the connection, schedule the next attempt.
\* `retired` is what it moves to garbage, `events` what the thread delivers.
BeginDisconnect(retired) ==
    /\ gen' = gen + 1
    /\ garbage' = garbage \cup retired
    /\ conn' = None
    /\ socketOpen' = FALSE
    /\ pendingOpen' = FALSE
    /\ state' = "disconnected"
    /\ scheduled' = TRUE
    /\ due' = FALSE
    /\ notified' = TRUE
    /\ UNCHANGED <<pumped, mu, stopping>>

DisconnectEvents == IF state = "disconnected" THEN <<>> ELSE <<"disconnected">>

Retired == {conn} \ {None}

\* handle_open(): the Connect message goes out on the current connection.
HandleOpen(c) ==
    /\ state' = "connected"
    /\ silent' = FALSE
    /\ hellos' = [hellos EXCEPT ![c] = @ + 1]

\* A callback of a superseded connection, or of a stopping client, does nothing.
Stale(c) == stopping \/ slotGen[c] # gen

-----------------------------------------------------------------------------
(* Transport threads.                                                      *)

\* Bound: the last attempt does not fail while the client runs.
MayFail(c) == c < MaxAttempts \/ stopping

\* A transport thread lives while the connection object may still call back.
Calling(c) == c \in Connections /\ wire[c] \in {"dialing", "open"} /\ call[c] = "idle"

StartOpen(c) ==
    /\ Calling(c) /\ wire[c] = "dialing"
    /\ wire' = [wire EXCEPT ![c] = "open"]
    /\ call' = [call EXCEPT ![c] = "open"]
    /\ UNCHANGED <<slots, objects>>

StartMessage(c) ==
    /\ Calling(c) /\ wire[c] = "open"
    /\ hellos[c] > 0  \* the server speaks after Connect
    /\ call' = [call EXCEPT ![c] = "message"]
    /\ UNCHANGED transportVars

StartClose(c) ==
    /\ Calling(c) /\ MayFail(c)
    /\ wire' = [wire EXCEPT ![c] = "closed"]
    /\ call' = [call EXCEPT ![c] = "close"]
    /\ UNCHANGED <<slots, objects>>

StartCallback(c) ==
    /\ StartOpen(c) \/ StartMessage(c) \/ StartClose(c)
    /\ UNCHANGED <<lockVars, silent, attempts, slotGen, hand, workerVars, notified, mainVars,
                   detached, hellos, heard>>

\* A thread leaves its critical section with events to deliver, or is done.
Leave(c, events) ==
    /\ hand' = [hand EXCEPT ![c] = events]
    /\ call' = [call EXCEPT ![c] = IF events = <<>> THEN "idle" ELSE "deliver"]

\* ws_open(), ws_message(), ws_close() of a superseded connection.
HandleStale(c) ==
    /\ Stale(c)
    /\ Leave(c, <<>>)
    /\ UNCHANGED <<lockVars, silent, notified, detached, hellos, heard>>

\* Mutant: an early on_open is treated like any other.
HandleOpenEarlyLost(c) ==
    /\ call[c] = "open" /\ ~Stale(c) /\ conn = None
    /\ socketOpen' = TRUE
    /\ Leave(c, <<>>)
    /\ UNCHANGED <<pumped, mu, gen, conn, pendingOpen, state, scheduled, due, stopping, garbage,
                   silent, notified, detached, hellos, heard>>

\* ws_open() before connect() returned: attempt_connect() will finish it.
HandleOpenEarly(c) ==
    /\ call[c] = "open" /\ ~Stale(c) /\ conn = None
    /\ socketOpen' = TRUE
    /\ pendingOpen' = TRUE
    /\ Leave(c, <<>>)
    /\ UNCHANGED <<pumped, mu, gen, conn, state, scheduled, due, stopping, garbage,
                   silent, notified, detached, hellos, heard>>

\* Mutant: the worker is not told that it must watch the socket.
HandleOpenNowQuiet(c) ==
    /\ call[c] = "open" /\ ~Stale(c) /\ conn # None
    /\ socketOpen' = TRUE
    /\ HandleOpen(c)
    /\ Leave(c, <<"connected">>)
    /\ UNCHANGED <<pumped, mu, gen, conn, pendingOpen, scheduled, due, stopping, garbage, notified,
                   detached, heard>>

\* ws_open().
HandleOpenNow(c) ==
    /\ call[c] = "open" /\ ~Stale(c) /\ conn # None
    /\ socketOpen' = TRUE
    /\ HandleOpen(c)
    /\ notified' = TRUE
    /\ Leave(c, <<"connected">>)
    /\ UNCHANGED <<pumped, mu, gen, conn, pendingOpen, scheduled, due, stopping, garbage, detached,
                   heard>>

\* ws_message() with a message the client can use.
HandleMessage(c) ==
    /\ call[c] = "message" /\ ~Stale(c)
    /\ silent' = FALSE
    /\ Leave(c, <<>>)
    /\ UNCHANGED <<lockVars, notified, detached, hellos, heard>>

\* ws_message() with one that ends the connection; ws_close().
HandleEnd(c) ==
    /\ call[c] \in {"message", "close"} /\ ~Stale(c) /\ MayFail(c)
    /\ BeginDisconnect(Retired)
    /\ Leave(c, DisconnectEvents)
    /\ UNCHANGED <<silent, detached, hellos, heard>>

\* ws_message() with one that cannot be decoded: deliver_later() queues the
\* events at once, or gives them to a detached thread.
HandleMalformed(c) ==
    /\ call[c] = "message" /\ ~Stale(c) /\ MayFail(c)
    /\ BeginDisconnect(Retired)
    /\ Leave(c, <<>>)
    /\ IF pumped
       THEN heard' = Heard(DisconnectEvents) /\ UNCHANGED detached
       ELSE detached' = detached \o DisconnectEvents /\ UNCHANGED heard
    /\ UNCHANGED <<silent, hellos>>

Handle(c) ==
    /\ Free
    /\ call[c] \in {"open", "message", "close"}
    /\ \/ HandleStale(c)
       \/ HandleOpenEarly(c)
       \/ HandleOpenNow(c)
       \/ HandleMessage(c)
       \/ HandleEnd(c)
       \/ HandleMalformed(c)
    /\ UNCHANGED <<attempts, slotGen, transportVars, workerVars, mainVars>>

\* deliver(): queueing takes the lock again, running the callbacks does not.
Deliver(c) ==
    /\ call[c] = "deliver"
    /\ pumped => Free
    /\ heard' = Heard(hand[c])
    /\ Leave(c, <<>>)
    /\ UNCHANGED <<lockVars, silent, attempts, slotGen, transportVars, workerVars, notified,
                   mainVars, detached, hellos>>

\* A detached dispatcher of deliver_later() runs.
RunDetached ==
    /\ detached # <<>>
    /\ heard' = Head(detached)
    /\ detached' = Tail(detached)
    /\ UNCHANGED <<lockVars, silent, attempts, slotGen, transportVars, call, hand, workerVars,
                   notified, mainVars, hellos>>

-----------------------------------------------------------------------------
(* The worker.                                                             *)

\* The worker stops, or collects its garbage before anything else.
WorkerStop ==
    /\ stopping
    /\ worker' = "done"
    /\ UNCHANGED <<lockVars, silent, attempts, slotGen, slots, notified, waitsFor, workerHand,
                   dead>>

WorkerCollect ==
    /\ ~stopping /\ garbage # {}
    /\ dead' = garbage
    /\ garbage' = {}
    /\ worker' = "collecting"
    /\ UNCHANGED <<pumped, mu, gen, conn, socketOpen, pendingOpen, state, scheduled, due, stopping,
                   silent, attempts, slotGen, slots, notified, waitsFor, workerHand>>

\* attempt_connect() up to the call of connect().
WorkerDial ==
    LET c == attempts + 1 IN
    /\ ~stopping /\ garbage = {} /\ scheduled /\ due
    /\ attempts < MaxAttempts
    /\ scheduled' = FALSE
    /\ state' = "connecting"
    /\ workerHand' = <<"connecting">>
    /\ gen' = gen + 1
    /\ attempts' = c
    /\ slotGen' = [slotGen EXCEPT ![c] = gen + 1]
    /\ slots' = slots \cup {c}
    /\ worker' = "dialing"
    /\ UNCHANGED <<pumped, mu, conn, socketOpen, pendingOpen, due, stopping, garbage, silent,
                   notified,
                   waitsFor, dead>>

\* An open socket that said nothing for too long: "InactiveServer".
WorkerGiveUp ==
    /\ ~stopping /\ garbage = {} /\ ~(scheduled /\ due)
    /\ socketOpen /\ silent
    /\ BeginDisconnect(Retired)
    /\ workerHand' = DisconnectEvents
    /\ worker' = "deliver"
    /\ UNCHANGED <<silent, attempts, slotGen, slots, waitsFor, dead>>

\* Nothing to do: wait for the deadlines there are.
WorkerWait ==
    /\ ~stopping /\ garbage = {} /\ ~(scheduled /\ due) /\ ~(socketOpen /\ silent)
    /\ waitsFor' = (IF scheduled THEN {"reconnect"} ELSE {})
                       \cup (IF socketOpen THEN {"inactivity"} ELSE {})
    /\ notified' = FALSE
    /\ worker' = "waiting"
    /\ UNCHANGED <<lockVars, silent, attempts, slotGen, slots, workerHand, dead>>

\* One pass of worker_loop().
WorkerLoop ==
    /\ Free
    /\ worker = "loop"
    /\ WorkerStop \/ WorkerCollect \/ WorkerDial \/ WorkerGiveUp \/ WorkerWait
    /\ UNCHANGED <<objects, wire, call, hand, mainVars, detached, hellos, heard>>

\* cv.wait_until() returns when it was notified or a deadline it knows passed.
WorkerWake ==
    /\ Free
    /\ worker = "waiting"
    /\ \/ notified
       \/ "reconnect" \in waitsFor /\ due
       \/ "inactivity" \in waitsFor /\ silent
    /\ worker' = "loop"
    /\ UNCHANGED <<lockVars, silent, attempts, slotGen, transportVars, call, hand, waitsFor,
                   workerHand, dead, notified, mainVars, detached, hellos, heard>>

\* Inside connect(), without the lock: the socket starts dialing, so its
\* callbacks may come from here on; or connect() throws.
ConnectStarts ==
    /\ worker = "dialing"
    /\ wire' = [wire EXCEPT ![attempts] = "dialing"]
    /\ objects' = objects \cup {attempts}
    /\ worker' = "attaching"
    /\ UNCHANGED <<lockVars, silent, attempts, slotGen, slots, call, hand, waitsFor, workerHand,
                   dead, notified, mainVars, detached, hellos, heard>>

ConnectThrows ==
    /\ worker = "dialing"
    /\ MayFail(attempts)
    /\ worker' = "failing"
    /\ UNCHANGED <<lockVars, silent, attempts, slotGen, transportVars, call, hand, waitsFor,
                   workerHand, dead, notified, mainVars, detached, hellos, heard>>

\* attempt_connect() after connect() returned, with the lock again.
AttachSuperseded ==
    /\ Stale(attempts)
    /\ garbage' = garbage \cup {attempts}
    /\ UNCHANGED <<pumped, mu, gen, conn, socketOpen, pendingOpen, state, scheduled, due, stopping,
                   silent, notified, workerHand, hellos>>

AttachOpened ==
    /\ ~Stale(attempts) /\ pendingOpen
    /\ conn' = attempts
    /\ pendingOpen' = FALSE
    /\ socketOpen' = TRUE
    /\ HandleOpen(attempts)
    /\ workerHand' = Append(workerHand, "connected")
    /\ notified' = TRUE
    /\ UNCHANGED <<pumped, mu, gen, scheduled, due, stopping, garbage>>

AttachDialing ==
    /\ ~Stale(attempts) /\ ~pendingOpen
    /\ conn' = attempts
    /\ notified' = TRUE
    /\ UNCHANGED <<pumped, mu, gen, socketOpen, pendingOpen, state, scheduled, due, stopping,
                   garbage,
                   silent, workerHand, hellos>>

Attach ==
    /\ Free
    /\ worker = "attaching"
    /\ AttachSuperseded \/ AttachOpened \/ AttachDialing
    /\ worker' = "deliver"
    /\ UNCHANGED <<attempts, slotGen, transportVars, call, hand, waitsFor, dead, mainVars,
                   detached, heard>>

\* attempt_connect() after connect() threw.
Fail ==
    /\ Free
    /\ worker = "failing"
    /\ IF Stale(attempts)
       THEN /\ slots' = slots \ {attempts}
            /\ UNCHANGED <<lockVars, notified, workerHand>>
       ELSE /\ BeginDisconnect({attempts})
            /\ workerHand' = workerHand \o DisconnectEvents
            /\ UNCHANGED slots
    /\ worker' = "deliver"
    /\ UNCHANGED <<silent, attempts, slotGen, objects, wire, call, hand, waitsFor, dead,
                   mainVars, detached, hellos, heard>>

WorkerDeliver ==
    /\ worker = "deliver"
    /\ pumped => Free
    /\ heard' = Heard(workerHand)
    /\ workerHand' = <<>>
    /\ worker' = "loop"
    /\ UNCHANGED <<lockVars, silent, attempts, slotGen, transportVars, call, hand, waitsFor,
                   dead, notified, mainVars, detached, hellos>>

\* Destroying a pair of garbage: the slot, its second member, goes first, then
\* the connection, which waits for its callback.
FreeSlot(c) ==
    /\ c \in slots
    /\ slots' = slots \ {c}
    /\ UNCHANGED <<objects, wire>>

DestroyConnection(c) ==
    /\ c \notin slots
    /\ call[c] = "idle"
    /\ objects' = objects \ {c}
    /\ wire' = [wire EXCEPT ![c] = "closed"]
    /\ UNCHANGED slots

WorkerDestroy ==
    /\ worker = "collecting"
    /\ \E c \in dead :
          \/ FreeSlot(c) /\ UNCHANGED dead
          \/ DestroyConnection(c) /\ dead' = dead \ {c}
    /\ UNCHANGED <<lockVars, silent, attempts, slotGen, call, hand, worker, waitsFor, workerHand,
                   notified, mainVars, detached, hellos, heard>>

WorkerCollected ==
    /\ worker = "collecting" /\ dead = {}
    /\ Free
    /\ worker' = "loop"
    /\ UNCHANGED <<lockVars, silent, attempts, slotGen, transportVars, call, hand, waitsFor,
                   workerHand, dead, notified, mainVars, detached, hellos, heard>>

-----------------------------------------------------------------------------
(* ~client: shutdown().                                                    *)

ShutdownBegin ==
    /\ main = "running"
    /\ Free
    /\ stopping' = TRUE
    /\ gen' = gen + 1
    /\ deadConn' = conn
    /\ conn' = None
    /\ socketOpen' = FALSE
    /\ notified' = TRUE
    /\ main' = "joining"
    /\ UNCHANGED <<pumped, mu, pendingOpen, state, scheduled, due, garbage, silent, attempts,
                   slotGen,
                   transportVars, call, hand, workerVars, detached, hellos, heard>>

ShutdownJoin ==
    /\ main = "joining"
    /\ worker = "done"
    /\ main' = "closing"
    /\ UNCHANGED <<lockVars, silent, attempts, slotGen, transportVars, call, hand, workerVars,
                   notified, deadConn, detached, hellos, heard>>

\* dead_conn.reset(), dead_slot.reset(): here the slot goes last.
ShutdownClose ==
    /\ main = "closing"
    /\ IF deadConn = None
       THEN UNCHANGED <<transportVars, deadConn>>
       ELSE /\ call[deadConn] = "idle"
            /\ objects' = objects \ {deadConn}
            /\ slots' = slots \ {deadConn}
            /\ wire' = [wire EXCEPT ![deadConn] = "closed"]
            /\ deadConn' = None
    /\ main' = "locking"
    /\ UNCHANGED <<lockVars, silent, attempts, slotGen, call, hand, workerVars, notified,
                   detached, hellos, heard>>

\* The second critical section: garbage.clear() destroys with the lock held.
ShutdownLock ==
    /\ main = "locking"
    /\ Free
    /\ mu' = "main"
    /\ main' = "sweeping"
    /\ UNCHANGED <<pumped, gen, conn, socketOpen, pendingOpen, state, scheduled, due, stopping,
                   garbage,
                   silent, attempts, slotGen, transportVars, call, hand, workerVars, notified,
                   deadConn, detached, hellos, heard>>

ShutdownSweep ==
    /\ main = "sweeping"
    /\ \E c \in garbage :
          \/ FreeSlot(c) /\ UNCHANGED garbage
          \/ DestroyConnection(c) /\ garbage' = garbage \ {c}
    /\ UNCHANGED <<pumped, mu, gen, conn, socketOpen, pendingOpen, state, scheduled, due, stopping,
                   silent, attempts, slotGen, call, hand, workerVars, notified, mainVars,
                   detached, hellos, heard>>

\* Mutant: what the worker left behind is not collected.
ShutdownEndUnswept ==
    /\ main = "sweeping"
    /\ mu' = "free"
    /\ main' = "gone"
    /\ UNCHANGED <<pumped, gen, conn, socketOpen, pendingOpen, state, scheduled, due, stopping,
                   garbage,
                   silent, attempts, slotGen, transportVars, call, hand, workerVars, notified,
                   deadConn, detached, hellos, heard>>

ShutdownEnd ==
    /\ main = "sweeping" /\ garbage = {}
    /\ mu' = "free"
    /\ main' = "gone"
    /\ UNCHANGED <<pumped, gen, conn, socketOpen, pendingOpen, state, scheduled, due, stopping,
                   garbage,
                   silent, attempts, slotGen, transportVars, call, hand, workerVars, notified,
                   deadConn, detached, hellos, heard>>

-----------------------------------------------------------------------------
(* Time.                                                                   *)

ReconnectTime ==
    /\ scheduled /\ ~due
    /\ due' = TRUE
    /\ UNCHANGED <<pumped, mu, gen, conn, socketOpen, pendingOpen, state, scheduled, stopping,
                   garbage,
                   silent, attempts, slotGen, transportVars, call, hand, workerVars, notified,
                   mainVars, detached, hellos, heard>>

\* The server may stay silent, or the process be suspended, for the threshold.
Silence ==
    /\ ~silent
    /\ MayFail(attempts)
    /\ silent' = TRUE
    /\ UNCHANGED <<lockVars, attempts, slotGen, transportVars, call, hand, workerVars, notified,
                   mainVars, detached, hellos, heard>>

-----------------------------------------------------------------------------
Init ==
    /\ pumped \in BOOLEAN
    /\ mu = "free" /\ gen = 0 /\ conn = None
    /\ socketOpen = FALSE /\ pendingOpen = FALSE /\ state = "disconnected"
    /\ scheduled = TRUE /\ due = TRUE /\ silent = TRUE /\ stopping = FALSE
    /\ garbage = {} /\ attempts = 0
    /\ slotGen = [c \in Connections |-> 0]
    /\ slots = {} /\ objects = {}
    /\ wire = [c \in Connections |-> "none"]
    /\ call = [c \in Connections |-> "idle"]
    /\ hand = [c \in Connections |-> <<>>]
    /\ worker = "loop" /\ waitsFor = {} /\ notified = FALSE /\ workerHand = <<>> /\ dead = {}
    /\ main = "running" /\ deadConn = None
    /\ detached = <<>>
    /\ hellos = [c \in Connections |-> 0]
    /\ heard = "disconnected"

WorkerStep ==
    \/ WorkerLoop \/ WorkerWake
    \/ ConnectStarts \/ Attach \/ Fail
    \/ WorkerDeliver \/ WorkerDestroy \/ WorkerCollected

ShutdownStep ==
    \/ ShutdownJoin \/ ShutdownClose \/ ShutdownLock \/ ShutdownSweep \/ ShutdownEnd

Next ==
    \/ WorkerStep
    \/ ConnectThrows
    \/ ShutdownBegin
    \/ ShutdownStep
    \/ ReconnectTime
    \/ Silence
    \/ RunDetached
    \/ \E c \in Connections : StartCallback(c) \/ Handle(c) \/ Deliver(c)

Spec == Init /\ [][Next]_vars

\* The threads run; a socket that dials is opened or closed; time passes.  A
\* connection being destroyed is infinitely often between two callbacks.
Fairness ==
    /\ WF_vars(WorkerStep) /\ SF_vars(WorkerDestroy)
    /\ WF_vars(ShutdownStep) /\ SF_vars(ShutdownClose) /\ SF_vars(ShutdownSweep)
    /\ WF_vars(ReconnectTime)
    /\ WF_vars(RunDetached)
    /\ \A c \in Connections :
          /\ WF_vars(wire[c] = "dialing" /\ StartCallback(c))
          /\ WF_vars(Handle(c))
          /\ WF_vars(Deliver(c))

FairSpec == Spec /\ Fairness

-----------------------------------------------------------------------------
\* Whatever the order of connect() returning and on_open() arriving, Connect
\* goes out once per connection, and the connection in use has sent it.
ConnectSentOnce ==
    /\ \A c \in Connections : hellos[c] <= 1
    /\ conn # None /\ socketOpen => hellos[conn] = 1

\* The worker never sleeps past a deadline it has to meet: it waits for each,
\* or has been woken to look again.
NoMissedDeadline ==
    worker = "waiting" /\ ~notified =>
        /\ scheduled => "reconnect" \in waitsFor
        /\ socketOpen => "inactivity" \in waitsFor
        /\ garbage = {}

\* When ~client returns, every thread and connection it owned is gone.
NothingLeftBehind ==
    main = "gone" =>
        /\ worker = "done"
        /\ objects = {} /\ slots = {}
        /\ \A c \in Connections : call[c] = "idle"

\* transport.h: the observer outlives the connection, so it still exists while
\* the connection's thread is in one of its callbacks.
ObserverOutlives == \A c \in Connections : call[c] # "idle" => c \in slots

\* When connections stop failing, a client that is not destroyed gets connected.
EventuallyUp == <>[](stopping \/ (state = "connected" /\ socketOpen /\ conn # None))

\* A connection the client no longer uses is destroyed, whoever retired it; in
\* the end the destructor does it (NothingLeftBehind).
RetiredCollected ==
    \A c \in Connections :
        c \in objects /\ c # conn ~> stopping \/ c \notin objects \/ c = conn

\* client.h: the destructor stops all internal threads, so it returns.
ShutdownReturns == main = "joining" ~> main = "gone"
=============================================================================
