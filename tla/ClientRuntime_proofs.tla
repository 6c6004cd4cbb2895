------------------------- MODULE ClientRuntime_proofs -------------------------
(***************************************************************************)
(* The threads of client_impl, for any number of connection attempts and   *)
(* every interleaving: Connect goes out once, the worker misses no         *)
(* deadline, and the destructor leaves nothing behind.                     *)
(***************************************************************************)
EXTENDS ClientRuntime, TLAPS, SequenceTheorems

State == {"disconnected", "connecting", "connected"}

\* The worker is inside attempt_connect().
Creating == worker \in {"dialing", "attaching", "failing"}

\* Every variable but the flags has the type of the member it models.
TypeOK ==
    /\ mu \in {"free", "main"}
    /\ gen \in Nat /\ conn \in Connections \cup {None}
    /\ state \in State
    /\ garbage \subseteq Connections
    /\ attempts \in Connections \cup {None}
    /\ slotGen \in [Connections -> Nat]
    /\ slots \subseteq Connections /\ objects \subseteq Connections
    /\ wire \in [Connections -> {"none", "dialing", "open", "closed"}]
    /\ call \in [Connections -> {"idle", "open", "message", "close", "deliver"}]
    /\ hand \in [Connections -> Seq(State)]
    /\ worker \in {"loop", "waiting", "dialing", "attaching", "failing", "deliver",
                   "collecting", "done"}
    /\ waitsFor \subseteq {"reconnect", "inactivity"}
    /\ workerHand \in Seq(State)
    /\ dead \subseteq Connections
    /\ main \in {"running", "joining", "closing", "locking", "sweeping", "gone"}
    /\ deadConn \in Connections \cup {None}
    /\ detached \in Seq(State)
    /\ hellos \in [Connections -> Nat]
    /\ heard \in State
    /\ Creating => attempts # None

-----------------------------------------------------------------------------
(* The inductive invariant.                                                *)

\* The newest attempt has not been superseded: the generation is still its own.
Fresh == ~stopping /\ attempts # None /\ slotGen[attempts] = gen

\* Generations tell attempts apart: only the newest can have the current one,
\* and one to come has no socket.
AttemptInv ==
    /\ \A c \in Connections : slotGen[c] <= gen
    /\ \A c \in Connections : c < attempts => slotGen[c] < gen
    /\ \A c \in Connections : c > attempts => wire[c] = "none"
    /\ \A c \in garbage \cup dead : c <= attempts
    /\ deadConn <= attempts
    /\ worker \in {"dialing", "failing"} => wire[attempts] = "none"

\* Connect follows the socket's opening, once it has been handled.
HelloInv ==
    /\ \A c \in Connections :
          wire[c] \in {"none", "dialing"} => call[c] = "idle" /\ hellos[c] = 0
    /\ \A c \in Connections : call[c] = "open" => hellos[c] = 0
    /\ \A c \in Connections : hellos[c] <= 1

\* The connection in use is the newest attempt, attached; until it is, an
\* on_open that came early is remembered for attempt_connect().
UseInv ==
    /\ conn # None => conn = attempts /\ Fresh /\ ~Creating
    /\ Fresh => ~scheduled /\ (conn = attempts \/ Creating)
    /\ Fresh /\ conn = None => hellos[attempts] = 0
    /\ pendingOpen /\ ~stopping =>
          /\ Fresh /\ worker = "attaching"
          /\ call[attempts] # "open" /\ wire[attempts] \notin {"none", "dialing"}
    /\ socketOpen => ~stopping /\ ((conn # None /\ hellos[conn] = 1) \/ pendingOpen)

\* Where the worker and ~client are.
ThreadInv ==
    /\ stopping <=> main # "running"
    /\ main \in {"closing", "locking", "sweeping", "gone"} => worker = "done"
    /\ worker = "done" => stopping
    /\ dead # {} => worker = "collecting"
    /\ main \notin {"joining", "closing"} => deadConn = None
    /\ main = "gone" => garbage = {}

\* Whatever exists has somebody who will destroy it, and a thread that may call
\* back belongs to a connection that exists.
OwnInv ==
    /\ \A c \in objects \cup slots :
          c \in garbage \cup dead \cup {conn, deadConn} \/ (Creating /\ c = attempts)
    /\ \A c \in Connections :
          wire[c] \in {"dialing", "open"} \/ call[c] # "idle" => c \in objects

\* A connection object exists from the moment its socket dials.
BornInv == \A c \in objects : wire[c] # "none"

RuntimeInv ==
    /\ AttemptInv /\ HelloInv /\ UseInv /\ ThreadInv /\ OwnInv /\ BornInv
    /\ NoMissedDeadline


-----------------------------------------------------------------------------
(* Type correctness.                                                       *)

\* What the listeners hear is a state.
LEMMA HeardType ==
    ASSUME TypeOK, NEW events \in Seq(State)
    PROVE  Heard(events) \in State
BY DEF Heard, Last, TypeOK

\* The lists of events are lists of states.
LEMMA EventTypes ==
    /\ "connected" \in State /\ "connecting" \in State
    /\ <<>> \in Seq(State) /\ DisconnectEvents \in Seq(State)
    /\ <<"connected">> \in Seq(State) /\ <<"connecting">> \in Seq(State)
    /\ \A s \in Seq(State) : Append(s, "connected") \in Seq(State)
    /\ \A s \in Seq(State) : s \o DisconnectEvents \in Seq(State)
    /\ \A s \in Seq(State) : s # <<>> => Head(s) \in State /\ Tail(s) \in Seq(State)
<1>1. {"disconnected", "connected", "connecting"} \subseteq State
    BY DEF State
<1> QED
    BY <1>1 DEF DisconnectEvents

\* Leaving a callback.
LEMMA LeaveType ==
    ASSUME TypeOK, NEW c \in Connections, NEW events \in Seq(State), Leave(c, events)
    PROVE  /\ hand' \in [Connections -> Seq(State)]
           /\ call' \in [Connections -> {"idle", "open", "message", "close", "deliver"}]
BY DEF Leave, TypeOK

\* Retiring a connection.
LEMMA BeginDisconnectType ==
    ASSUME TypeOK, NEW retired \in SUBSET Connections, BeginDisconnect(retired)
    PROVE  /\ gen' \in Nat /\ conn' \in Connections \cup {None}
           /\ mu' \in {"free", "main"}
           /\ state' \in State /\ garbage' \subseteq Connections
BY DEF BeginDisconnect, TypeOK, State

\* Every step keeps every variable well-typed.
LEMMA TypeStep ==
    ASSUME TypeOK, [Next]_vars
    PROVE  TypeOK'
<1> USE DEF TypeOK, Creating, lockVars, transportVars, workerVars, mainVars
<1>1. ASSUME NEW c \in Connections, StartCallback(c) PROVE TypeOK'
    <2>1. /\ wire' \in [Connections -> {"none", "dialing", "open", "closed"}]
          /\ call' \in [Connections -> {"idle", "open", "message", "close", "deliver"}]
          /\ slots' = slots /\ objects' = objects
        <3>1. CASE StartOpen(c)
            BY <3>1 DEF StartOpen
        <3>2. CASE StartMessage(c)
            BY <3>2 DEF StartMessage
        <3>3. CASE StartClose(c)
            BY <3>3 DEF StartClose
        <3> QED
            BY <1>1, <3>1, <3>2, <3>3 DEF StartCallback
    <2>2. /\ UNCHANGED <<gen, attempts, conn, slotGen, state, garbage, mu>>
          /\ UNCHANGED <<workerVars, mainVars, hand, detached, hellos, heard>>
        BY <1>1 DEF StartCallback
    <2> QED
        BY <2>1, <2>2, SMTT(30)
<1>2. ASSUME NEW c \in Connections, Handle(c) PROVE TypeOK'
    <2>1. UNCHANGED <<attempts, slotGen, transportVars, workerVars, mainVars>>
        BY <1>2 DEF Handle
    <2>2. CASE HandleStale(c)
        <3>1. /\ hand' \in [Connections -> Seq(State)]
              /\ call' \in [Connections -> {"idle", "open", "message", "close", "deliver"}]
            BY <2>2, EventTypes, LeaveType DEF HandleStale
        <3>2. UNCHANGED <<mu, gen, conn, state, garbage, detached, hellos, heard>>
            BY <2>2 DEF HandleStale
        <3> QED
            BY <2>1, <3>1, <3>2, SMTT(30)
    <2>3. CASE HandleOpenEarly(c)
        <3>1. /\ hand' \in [Connections -> Seq(State)]
              /\ call' \in [Connections -> {"idle", "open", "message", "close", "deliver"}]
            BY <2>3, EventTypes, LeaveType DEF HandleOpenEarly
        <3> QED
            BY <2>1, <2>3, <3>1 DEF HandleOpenEarly
    <2>4. CASE HandleOpenNow(c)
        <3>1. hellos' \in [Connections -> Nat] /\ state' \in State
            <4>1. state' = "connected" /\ hellos' = [hellos EXCEPT ![c] = @ + 1]
                BY <2>4 DEF HandleOpenNow, HandleOpen
            <4>2. hellos \in [Connections -> Nat] /\ hellos[c] + 1 \in Nat
                OBVIOUS
            <4> QED
                BY <4>1, <4>2, EventTypes
        <3>2. /\ hand' \in [Connections -> Seq(State)]
              /\ call' \in [Connections -> {"idle", "open", "message", "close", "deliver"}]
            BY <2>4, EventTypes, LeaveType DEF HandleOpenNow
        <3> QED
            BY <2>1, <2>4, <3>1, <3>2 DEF HandleOpenNow
    <2>5. CASE HandleMessage(c)
        <3>1. /\ hand' \in [Connections -> Seq(State)]
              /\ call' \in [Connections -> {"idle", "open", "message", "close", "deliver"}]
            BY <2>5, EventTypes, LeaveType DEF HandleMessage
        <3>2. UNCHANGED <<mu, gen, conn, state, garbage, detached, hellos, heard>>
            BY <2>5 DEF HandleMessage
        <3> QED
            BY <2>1, <3>1, <3>2, SMTT(30)
    <2>6. Retired \in SUBSET Connections
        BY DEF Retired
    <2>7. CASE HandleEnd(c)
        BY <2>1, <2>6, <2>7, EventTypes, LeaveType, BeginDisconnectType DEF HandleEnd
    <2>8. CASE HandleMalformed(c)
        <3>1. heard' \in State /\ detached' \in Seq(State)
            BY <2>8, EventTypes, HeardType DEF HandleMalformed
        <3> QED
            BY <2>1, <2>6, <2>8, <3>1, EventTypes, LeaveType, BeginDisconnectType
            DEF HandleMalformed
    <2> QED
        BY <1>2, <2>2, <2>3, <2>4, <2>5, <2>7, <2>8 DEF Handle
<1>3. ASSUME NEW c \in Connections, Deliver(c) PROVE TypeOK'
    <2>1. heard' \in State
        BY <1>3, HeardType DEF Deliver
    <2>2. /\ hand' \in [Connections -> Seq(State)]
          /\ call' \in [Connections -> {"idle", "open", "message", "close", "deliver"}]
        BY <1>3, EventTypes, LeaveType DEF Deliver
    <2> QED
        BY <1>3, <2>1, <2>2, SMTT(30) DEF Deliver
<1>4. CASE RunDetached
    BY <1>4, EventTypes, SMTT(30) DEF RunDetached
<1>5. CASE WorkerLoop
    <2>1. UNCHANGED <<objects, wire, call, hand, mainVars, detached, hellos, heard>>
        BY <1>5 DEF WorkerLoop
    <2>2. CASE WorkerStop
        BY <2>1, <2>2 DEF WorkerStop
    <2>3. CASE WorkerCollect
        BY <2>1, <2>3 DEF WorkerCollect
    <2>4. CASE WorkerDial
        <3>1. attempts + 1 \in Connections /\ attempts + 1 # None /\ gen + 1 \in Nat
            BY <2>4, RuntimeAssumption DEF WorkerDial, Connections, None
        <3> QED
            BY <2>1, <2>4, <3>1, EventTypes DEF WorkerDial
    <2>5. CASE WorkerGiveUp
        <3>1. Retired \in SUBSET Connections
            BY DEF Retired
        <3> QED
            BY <2>1, <2>5, <3>1, EventTypes, BeginDisconnectType DEF WorkerGiveUp
    <2>6. CASE WorkerWait
        BY <2>1, <2>6 DEF WorkerWait
    <2> QED
        BY <1>5, <2>2, <2>3, <2>4, <2>5, <2>6 DEF WorkerLoop
<1>6. CASE WorkerWake \/ ConnectThrows \/ WorkerCollected
    BY <1>6 DEF WorkerWake, ConnectThrows, WorkerCollected
<1>7. CASE ConnectStarts
    BY <1>7 DEF ConnectStarts
<1>8. CASE Attach
    <2>0. attempts \in Connections
        BY <1>8 DEF Attach
    <2>1. UNCHANGED <<attempts, slotGen, transportVars, call, hand, waitsFor, dead, mainVars,
                      detached, heard>> /\ worker' = "deliver"
        BY <1>8 DEF Attach
    <2>2. CASE AttachSuperseded
        <3>1. garbage' \subseteq Connections
            BY <2>0, <2>2 DEF AttachSuperseded
        <3> QED
            BY <2>1, <2>2, <3>1 DEF AttachSuperseded
    <2>3. CASE AttachOpened
        <3>1. /\ hellos' \in [Connections -> Nat] /\ state' \in State
              /\ workerHand' \in Seq(State)
            BY <2>0, <2>3, EventTypes DEF AttachOpened, HandleOpen
        <3> QED
            BY <2>0, <2>1, <2>3, <3>1 DEF AttachOpened
    <2>4. CASE AttachDialing
        BY <2>0, <2>1, <2>4 DEF AttachDialing
    <2> QED
        BY <1>8, <2>2, <2>3, <2>4 DEF Attach
<1>9. CASE Fail
    BY <1>9, EventTypes, BeginDisconnectType DEF Fail
<1>10. CASE WorkerDeliver
    BY <1>10, EventTypes, HeardType DEF WorkerDeliver
<1>11. CASE WorkerDestroy
    BY <1>11 DEF WorkerDestroy, FreeSlot, DestroyConnection
<1>12. CASE ShutdownBegin
    BY <1>12 DEF ShutdownBegin
<1>13. CASE ShutdownStep
    BY <1>13 DEF ShutdownStep, ShutdownJoin, ShutdownClose, ShutdownLock, ShutdownSweep,
                 ShutdownEnd, FreeSlot, DestroyConnection
<1>14. CASE ReconnectTime \/ Silence
    BY <1>14 DEF ReconnectTime, Silence
<1>15. CASE UNCHANGED vars
    BY <1>15 DEF vars
<1> QED
    BY <1>1, <1>2, <1>3, <1>4, <1>5, <1>6, <1>7, <1>8, <1>9, <1>10, <1>11, <1>12, <1>13, <1>14,
       <1>15 DEF Next, WorkerStep

-----------------------------------------------------------------------------
(* Attempts and their generations.                                         *)

\* Attempts are numbered from 1.
LEMMA ConnectionNumbers == Connections \subseteq Nat /\ None = 0 /\ None \notin Connections
BY RuntimeAssumption DEF Connections, None

\* A callback that is not stale belongs to the newest attempt.
LEMMA NotStale ==
    ASSUME TypeOK, RuntimeInv, NEW c \in Connections, call[c] # "idle", ~Stale(c)
    PROVE  c = attempts /\ Fresh
<1>1. wire[c] # "none"
    BY DEF RuntimeInv, HelloInv
<1>2. slotGen[c] = gen /\ ~stopping
    BY DEF Stale
<1>3. ~(c < attempts) /\ ~(c > attempts)
    BY <1>1, <1>2, ConnectionNumbers DEF RuntimeInv, AttemptInv, TypeOK
<1>4. c = attempts
    BY <1>3, ConnectionNumbers DEF TypeOK
<1> QED
    BY <1>2, <1>4, ConnectionNumbers DEF Fresh

\* begin_disconnect() leaves no attempt with the current generation.
LEMMA Superseded ==
    ASSUME TypeOK, RuntimeInv, NEW retired \in SUBSET {attempts}, BeginDisconnect(retired),
           UNCHANGED <<attempts, slotGen>>
    PROVE  /\ ~Fresh'
           /\ \A c \in Connections : slotGen'[c] <= gen'
           /\ \A c \in Connections : c < attempts' => slotGen'[c] < gen'
           /\ \A c \in garbage' : c <= attempts'
<1>1. gen' = gen + 1 /\ garbage' = garbage \cup retired
    BY DEF BeginDisconnect
<1>2. \A c \in Connections : slotGen[c] <= gen /\ slotGen[c] \in Nat /\ gen \in Nat
    BY DEF RuntimeInv, AttemptInv, TypeOK
<1>3. \A c \in Connections : slotGen'[c] <= gen' /\ slotGen'[c] < gen'
    BY <1>1, <1>2
<1>4. \A c \in garbage' : c <= attempts
    BY <1>1, ConnectionNumbers DEF RuntimeInv, AttemptInv, TypeOK
<1>5. attempts # None => slotGen[attempts] # gen'
    BY <1>1, <1>2 DEF TypeOK
<1> QED
    BY <1>3, <1>4, <1>5 DEF Fresh

\* What begin_disconnect() retires is the connection in use.
LEMMA RetiredIsNewest ==
    ASSUME RuntimeInv
    PROVE  Retired \in SUBSET {attempts}
BY DEF Retired, RuntimeInv, UseInv

\* A transport thread starts callbacks of its own connection only.
LEMMA StartOther ==
    ASSUME TypeOK, NEW c \in Connections, StartCallback(c)
    PROVE  /\ \A x \in Connections : x # c => wire'[x] = wire[x] /\ call'[x] = call[x]
           /\ wire'[c] \notin {"none", "dialing"}
           /\ call'[c] = "open" => wire[c] = "dialing"
<1>1. CASE StartOpen(c)
    BY <1>1 DEF StartOpen, Calling, TypeOK
<1>2. CASE StartMessage(c)
    BY <1>2 DEF StartMessage, Calling, TypeOK, transportVars
<1>3. CASE StartClose(c)
    BY <1>3 DEF StartClose, Calling, TypeOK
<1> QED
    BY <1>1, <1>2, <1>3 DEF StartCallback

\* Destroying one half of a pair leaves every other connection alone.
LEMMA DestroyOther ==
    ASSUME TypeOK, NEW c \in Connections, FreeSlot(c) \/ DestroyConnection(c)
    PROVE  /\ \A x \in Connections : x # c => wire'[x] = wire[x]
           /\ wire'[c] \in {wire[c], "closed"}
           /\ slots' \subseteq slots /\ objects' \subseteq objects
           /\ \A x \in Connections : x # c => /\ x \in slots' <=> x \in slots
                                              /\ x \in objects' <=> x \in objects
BY DEF FreeSlot, DestroyConnection, TypeOK

\* Every step keeps the generations of the attempts apart.
LEMMA AttemptStep ==
    ASSUME TypeOK, RuntimeInv, [Next]_vars
    PROVE  AttemptInv'
<1> USE ConnectionNumbers DEF lockVars, transportVars, workerVars, mainVars
<1>0. AttemptInv
    BY DEF RuntimeInv
<1>1. ASSUME NEW c \in Connections, StartCallback(c) PROVE AttemptInv'
    BY <1>0, <1>1 DEF StartCallback, StartOpen, StartMessage, StartClose, Calling, TypeOK,
                      AttemptInv, Creating
<1>2. ASSUME NEW c \in Connections, Handle(c) PROVE AttemptInv'
    <2>1. UNCHANGED <<attempts, slotGen, wire, worker, dead, deadConn>>
        BY <1>2 DEF Handle
    <2>2. CASE UNCHANGED <<gen, garbage>>
        BY <1>0, <2>1, <2>2 DEF AttemptInv
    <2>3. CASE BeginDisconnect(Retired)
        BY <1>0, <2>1, <2>3, Superseded, RetiredIsNewest DEF AttemptInv
    <2> QED
        BY <1>2, <2>2, <2>3
        DEF Handle, HandleStale, HandleOpenEarly, HandleOpenNow, HandleMessage, HandleEnd,
            HandleMalformed
<1>3. CASE WorkerLoop
    <2>1. UNCHANGED <<wire, deadConn>> /\ worker = "loop"
        BY <1>3 DEF WorkerLoop
    <2>2. CASE WorkerStop \/ WorkerWait
        BY <1>0, <2>1, <2>2 DEF WorkerStop, WorkerWait, AttemptInv
    <2>3. CASE WorkerCollect
        BY <1>0, <2>1, <2>3 DEF WorkerCollect, AttemptInv
    <2>4. CASE WorkerDial
        <3>1. /\ attempts' = attempts + 1 /\ gen' = gen + 1
              /\ slotGen' = [slotGen EXCEPT ![attempts'] = gen'] /\ attempts' \in Connections
              /\ UNCHANGED <<garbage, dead>> /\ worker' = "dialing"
            BY <2>4, RuntimeAssumption DEF WorkerDial, Connections, TypeOK
        <3>2. /\ attempts \in Nat /\ gen \in Nat /\ deadConn \in Nat
              /\ garbage \subseteq Nat /\ dead \subseteq Nat
            BY DEF TypeOK
        <3>3. \A x \in Connections : /\ slotGen[x] \in Nat /\ x \in Nat
                                     /\ slotGen'[x] = IF x = attempts' THEN gen' ELSE slotGen[x]
            BY <3>1 DEF TypeOK
        <3>4. \A x \in Connections : slotGen'[x] <= gen' /\ (x < attempts' => slotGen'[x] < gen')
            BY <1>0, <3>1, <3>2, <3>3 DEF AttemptInv
        <3>5. wire'[attempts'] = "none" /\ \A x \in Connections : x > attempts' => wire'[x] = "none"
            BY <1>0, <2>1, <3>1, <3>2, <3>3 DEF AttemptInv
        <3>6. deadConn' <= attempts' /\ \A x \in garbage' \cup dead' : x <= attempts'
            BY <1>0, <2>1, <3>1, <3>2 DEF AttemptInv
        <3> QED
            BY <3>4, <3>5, <3>6 DEF AttemptInv
    <2>5. CASE WorkerGiveUp
        BY <1>0, <2>1, <2>5, Superseded, RetiredIsNewest DEF WorkerGiveUp, AttemptInv
    <2> QED
        BY <1>3, <2>2, <2>3, <2>4, <2>5 DEF WorkerLoop
<1>4. CASE ConnectStarts
    BY <1>0, <1>4 DEF ConnectStarts, AttemptInv, TypeOK
<1>5. CASE Attach
    <2>1. garbage' \subseteq garbage \cup {attempts}
        BY <1>5 DEF Attach, AttachSuperseded, AttachOpened, AttachDialing
    <2>2. UNCHANGED <<gen, attempts, slotGen, wire, dead, deadConn>> /\ worker' = "deliver"
        BY <1>5 DEF Attach, AttachSuperseded, AttachOpened, AttachDialing
    <2> QED
        BY <1>0, <2>1, <2>2 DEF AttemptInv, TypeOK
<1>6. CASE Fail
    <2>1. UNCHANGED <<attempts, slotGen, wire, dead, deadConn>> /\ worker' = "deliver"
        BY <1>6 DEF Fail
    <2>2. CASE UNCHANGED lockVars
        BY <1>0, <2>1, <2>2 DEF AttemptInv
    <2>3. CASE BeginDisconnect({attempts})
        BY <1>0, <2>1, <2>3, Superseded DEF AttemptInv
    <2> QED
        BY <1>6, <2>2, <2>3 DEF Fail
<1>7. CASE WorkerDestroy
    <2>1. PICK c \in dead : \/ FreeSlot(c) /\ UNCHANGED dead
                            \/ DestroyConnection(c) /\ dead' = dead \ {c}
        BY <1>7 DEF WorkerDestroy
    <2>2. UNCHANGED <<gen, attempts, slotGen, garbage, worker, deadConn>> /\ worker = "collecting"
        BY <1>7 DEF WorkerDestroy
    <2>3. c <= attempts
        BY <1>0 DEF AttemptInv
    <2>4. c \in Connections /\ attempts \in Nat
        BY DEF TypeOK
    <2>5. (\A x \in Connections : x # c => wire'[x] = wire[x]) /\ dead' \subseteq dead
        BY <2>1, <2>4, DestroyOther
    <2>6. \A x \in Connections : x > attempts => wire'[x] = "none"
        BY <1>0, <2>3, <2>4, <2>5 DEF AttemptInv
    <2> QED
        BY <1>0, <2>2, <2>5, <2>6 DEF AttemptInv
<1>8. CASE ShutdownBegin
    BY <1>0, <1>8, SMTT(30) DEF ShutdownBegin, AttemptInv, TypeOK, RuntimeInv, UseInv
<1>9. CASE ShutdownClose
    BY <1>0, <1>9 DEF ShutdownClose, AttemptInv, TypeOK, RuntimeInv, ThreadInv
<1>10. CASE ShutdownSweep
    <2>1. PICK c \in garbage : \/ FreeSlot(c) /\ UNCHANGED garbage
                               \/ DestroyConnection(c) /\ garbage' = garbage \ {c}
        BY <1>10 DEF ShutdownSweep
    <2>2. UNCHANGED <<gen, attempts, slotGen, dead, worker, deadConn>> /\ worker = "done"
        BY <1>10 DEF ShutdownSweep, RuntimeInv, ThreadInv
    <2>3. c <= attempts
        BY <1>0 DEF AttemptInv
    <2>4. c \in Connections /\ attempts \in Nat
        BY DEF TypeOK
    <2>5. (\A x \in Connections : x # c => wire'[x] = wire[x]) /\ garbage' \subseteq garbage
        BY <2>1, <2>4, DestroyOther
    <2>6. \A x \in Connections : x > attempts => wire'[x] = "none"
        BY <1>0, <2>3, <2>4, <2>5 DEF AttemptInv
    <2> QED
        BY <1>0, <2>2, <2>5, <2>6 DEF AttemptInv
<1>11. ASSUME UNCHANGED <<gen, attempts, slotGen, garbage, dead, deadConn, wire>>,
              worker' \in {"dialing", "failing"} => worker \in {"dialing", "failing"}
       PROVE  AttemptInv'
    BY <1>0, <1>11 DEF AttemptInv
<1> QED
    BY <1>1, <1>2, <1>3, <1>4, <1>5, <1>6, <1>7, <1>8, <1>9, <1>10, <1>11
    DEF Next, WorkerStep, ShutdownStep, vars, Deliver, RunDetached, WorkerWake, ConnectThrows,
        WorkerDeliver, WorkerCollected, ShutdownJoin, ShutdownLock, ShutdownEnd, ReconnectTime,
        Silence

-----------------------------------------------------------------------------
(* Connect, and the connection in use.                                     *)

\* Every step keeps Connect after the handling of on_open, and single.
LEMMA HelloStep ==
    ASSUME TypeOK, RuntimeInv, [Next]_vars
    PROVE  HelloInv'
<1> USE ConnectionNumbers DEF lockVars, transportVars, workerVars, mainVars
<1>0. HelloInv
    BY DEF RuntimeInv
<1>1. ASSUME NEW c \in Connections, StartCallback(c) PROVE HelloInv'
    <2>1. hellos' = hellos /\ wire[c] \notin {"none", "closed"}
        BY <1>1 DEF StartCallback, StartOpen, StartMessage, StartClose, Calling
    <2>2. \A x \in Connections : x # c => wire'[x] = wire[x] /\ call'[x] = call[x]
        BY <1>1, StartOther
    <2>3. /\ wire'[c] \notin {"none", "dialing"}
          /\ call'[c] = "open" => wire[c] = "dialing"
        BY <1>1, StartOther
    <2> QED
        BY <1>0, <2>1, <2>2, <2>3 DEF HelloInv
<1>2. ASSUME NEW c \in Connections, Handle(c) PROVE HelloInv'
    <2>1. wire' = wire /\ call[c] # "idle"
        BY <1>2 DEF Handle
    <2>2. call'[c] \in {"idle", "deliver"} /\ \A x \in Connections : x # c => call'[x] = call[x]
        BY <1>2 DEF Handle, HandleStale, HandleOpenEarly, HandleOpenNow, HandleMessage, HandleEnd,
                    HandleMalformed, Leave, TypeOK
    <2>3. CASE hellos' = hellos
        BY <1>0, <2>1, <2>2, <2>3 DEF HelloInv
    <2>4. CASE HandleOpenNow(c)
        <3>1. hellos' = [hellos EXCEPT ![c] = @ + 1] /\ hellos[c] = 0 /\ wire[c] \notin {"none", "dialing"}
            BY <1>0, <2>1, <2>4 DEF HandleOpenNow, HandleOpen, HelloInv
        <3>2. hellos'[c] = 1 /\ \A x \in Connections : x # c => hellos'[x] = hellos[x]
            BY <3>1 DEF TypeOK
        <3> QED
            BY <1>0, <2>1, <2>2, <3>1, <3>2 DEF HelloInv
    <2> QED
        BY <1>2, <2>3, <2>4
        DEF Handle, HandleStale, HandleOpenEarly, HandleMessage, HandleEnd, HandleMalformed
<1>3. ASSUME NEW c \in Connections, Deliver(c) PROVE HelloInv'
    <2>1. UNCHANGED <<wire, hellos>>
        BY <1>3 DEF Deliver
    <2>2. call'[c] = "idle" /\ \A x \in Connections : x # c => call'[x] = call[x]
        BY <1>3 DEF Deliver, Leave, TypeOK
    <2> QED
        BY <1>0, <2>1, <2>2 DEF HelloInv
<1>4. CASE ConnectStarts
    <2>1. attempts \in Connections /\ wire[attempts] = "none"
        BY <1>4 DEF ConnectStarts, TypeOK, Creating, RuntimeInv, AttemptInv
    <2>2. UNCHANGED <<call, hellos>> /\ \A x \in Connections : x # attempts => wire'[x] = wire[x]
        BY <1>4 DEF ConnectStarts, TypeOK
    <2> QED
        BY <1>0, <2>1, <2>2 DEF HelloInv
<1>5. CASE Attach
    <2>1. UNCHANGED <<wire, call>> /\ attempts \in Connections
        BY <1>5 DEF Attach, TypeOK, Creating
    <2>2. CASE hellos' = hellos
        BY <1>0, <2>1, <2>2 DEF HelloInv
    <2>3. CASE AttachOpened
        <3>1. conn = None
            BY <1>5 DEF Attach, RuntimeInv, UseInv, Creating
        <3>2. Fresh /\ hellos[attempts] = 0 /\ call[attempts] # "open"
                    /\ wire[attempts] \notin {"none", "dialing"}
            BY <2>1, <2>3, <3>1 DEF AttachOpened, Stale, Fresh, RuntimeInv, UseInv
        <3>3. hellos'[attempts] = 1 /\ \A x \in Connections : x # attempts => hellos'[x] = hellos[x]
            BY <2>1, <2>3, <3>2 DEF AttachOpened, HandleOpen, TypeOK
        <3> QED
            BY <1>0, <2>1, <3>2, <3>3 DEF HelloInv
    <2> QED
        BY <1>5, <2>2, <2>3 DEF Attach, AttachSuperseded, AttachDialing
<1>6. ASSUME NEW c \in Connections, FreeSlot(c) \/ DestroyConnection(c), UNCHANGED <<call, hellos>>
      PROVE  HelloInv'
    BY <1>0, <1>6, DestroyOther DEF HelloInv, DestroyConnection
<1>7. CASE WorkerDestroy
    BY <1>6, <1>7 DEF WorkerDestroy, TypeOK
<1>8. CASE ShutdownSweep
    BY <1>6, <1>8 DEF ShutdownSweep, TypeOK
<1>9. CASE ShutdownClose
    <2>1. UNCHANGED <<call, hellos>>
        BY <1>9 DEF ShutdownClose
    <2>2. \A x \in Connections : wire'[x] \in {wire[x], "closed"}
        BY <1>9 DEF ShutdownClose, TypeOK
    <2> QED
        BY <1>0, <2>1, <2>2 DEF HelloInv
<1>10. ASSUME UNCHANGED <<wire, call, hellos>> PROVE HelloInv'
    BY <1>0, <1>10 DEF HelloInv
<1> QED
    BY <1>1, <1>2, <1>3, <1>4, <1>5, <1>7, <1>8, <1>9, <1>10
    DEF Next, WorkerStep, ShutdownStep, vars, RunDetached, WorkerWake, ConnectThrows, WorkerLoop,
        WorkerStop, WorkerCollect, WorkerDial, WorkerGiveUp, WorkerWait, BeginDisconnect, Fail,
        WorkerDeliver, WorkerCollected, ShutdownBegin, ShutdownJoin, ShutdownLock, ShutdownEnd,
        ReconnectTime, Silence

\* A connection that has been retired is no longer in use.
LEMMA RetiredUse ==
    ASSUME TypeOK, RuntimeInv, NEW retired \in SUBSET {attempts}, BeginDisconnect(retired),
           UNCHANGED <<attempts, slotGen>>
    PROVE  UseInv'
<1>1. ~Fresh'
    BY Superseded
<1>2. conn' = None /\ socketOpen' = FALSE /\ pendingOpen' = FALSE
    BY DEF BeginDisconnect
<1> QED
    BY <1>1, <1>2 DEF UseInv

\* Every step keeps the connection in use the newest attempt.
LEMMA UseStep ==
    ASSUME TypeOK, RuntimeInv, [Next]_vars
    PROVE  UseInv'
<1> USE ConnectionNumbers DEF lockVars, transportVars, workerVars, mainVars
<1>0. UseInv
    BY DEF RuntimeInv
<1>1. ASSUME NEW c \in Connections, StartCallback(c) PROVE UseInv'
    <2>1. UNCHANGED <<conn, attempts, stopping, slotGen, gen, worker, scheduled, hellos,
                      pendingOpen, socketOpen>>
        BY <1>1 DEF StartCallback
    <2>2. pendingOpen /\ ~stopping => call'[attempts] # "open"
                                      /\ wire'[attempts] \notin {"none", "dialing"}
        BY <1>0, <1>1, StartOther DEF UseInv, Fresh, TypeOK
    <2> QED
        BY <1>0, <2>1, <2>2 DEF UseInv, Fresh, Creating
<1>2. ASSUME NEW c \in Connections, Handle(c) PROVE UseInv'
    <2>1. UNCHANGED <<attempts, slotGen, wire, worker>> /\ call[c] # "idle"
        BY <1>2 DEF Handle
    <2>2. call'[c] # "open" /\ \A x \in Connections : x # c => call'[x] = call[x]
        BY <1>2 DEF Handle, HandleStale, HandleOpenEarly, HandleOpenNow, HandleMessage, HandleEnd,
                    HandleMalformed, Leave, TypeOK
    <2>3. \A x \in Connections : call[x] # "open" => call'[x] # "open"
        BY <2>2
    <2>4. CASE UNCHANGED <<conn, stopping, gen, scheduled, pendingOpen, socketOpen, hellos>>
        BY <1>0, <2>1, <2>3, <2>4 DEF UseInv, Fresh, Creating, TypeOK
    <2>5. CASE BeginDisconnect(Retired)
        BY <2>1, <2>5, RetiredUse, RetiredIsNewest
    <2>6. CASE HandleOpenEarly(c)
        <3>1. c = attempts /\ Fresh /\ conn = None /\ wire[c] \notin {"none", "dialing"}
            BY <2>1, <2>6, NotStale DEF HandleOpenEarly, RuntimeInv, HelloInv
        <3>2. worker = "attaching"
            BY <1>0, <2>1, <3>1 DEF UseInv, Fresh, Creating, RuntimeInv, AttemptInv
        <3>3. UNCHANGED <<conn, stopping, gen, scheduled, hellos>> /\ pendingOpen' = TRUE
            BY <2>6 DEF HandleOpenEarly
        <3> QED
            BY <1>0, <2>1, <2>2, <3>1, <3>2, <3>3 DEF UseInv, Fresh, Creating
    <2>7. CASE HandleOpenNow(c)
        <3>1. c = attempts /\ Fresh /\ conn = attempts /\ hellos[c] = 0
            BY <1>0, <2>1, <2>7, NotStale DEF HandleOpenNow, UseInv, RuntimeInv, HelloInv
        <3>2. UNCHANGED <<conn, stopping, gen, scheduled, pendingOpen>> /\ hellos'[c] = 1
            BY <2>7, <3>1 DEF HandleOpenNow, HandleOpen, TypeOK
        <3> QED
            BY <1>0, <2>1, <2>2, <3>1, <3>2 DEF UseInv, Fresh, Creating
    <2> QED
        BY <1>2, <2>4, <2>5, <2>6, <2>7
        DEF Handle, HandleStale, HandleMessage, HandleEnd, HandleMalformed
<1>3. ASSUME NEW c \in Connections, Deliver(c) PROVE UseInv'
    <2>1. UNCHANGED <<conn, attempts, stopping, slotGen, gen, worker, scheduled, hellos,
                      pendingOpen, socketOpen, wire>>
        BY <1>3 DEF Deliver
    <2>2. \A x \in Connections : call[x] # "open" => call'[x] # "open"
        BY <1>3 DEF Deliver, Leave, TypeOK
    <2> QED
        BY <1>0, <2>1, <2>2 DEF UseInv, Fresh, Creating, TypeOK
<1>4. ASSUME UNCHANGED <<conn, attempts, stopping, slotGen, gen, scheduled, hellos, call,
                         pendingOpen, socketOpen, wire>>,
             worker = "attaching" <=> worker' = "attaching",
             Creating <=> Creating'
      PROVE  UseInv'
    BY <1>0, <1>4 DEF UseInv, Fresh
<1>5. CASE WorkerLoop
    <2>1. worker = "loop" /\ UNCHANGED <<hellos, call, wire>>
        BY <1>5 DEF WorkerLoop
    <2>2. CASE WorkerStop \/ WorkerCollect \/ WorkerWait
        BY <1>4, <2>1, <2>2 DEF WorkerStop, WorkerCollect, WorkerWait, Creating
    <2>3. CASE WorkerDial
        <3>1. ~stopping /\ scheduled /\ ~Creating
            BY <2>1, <2>3 DEF WorkerDial, Creating
        <3>2. conn = None /\ ~pendingOpen /\ ~socketOpen
            BY <1>0, <2>1, <3>1 DEF UseInv
        <3>3. UNCHANGED <<conn, pendingOpen, socketOpen, stopping>> /\ ~scheduled' /\ Creating'
            BY <2>3 DEF WorkerDial, BeginDisconnect, Creating
        <3>4. hellos'[attempts'] = 0
            <4>1. attempts' \in Connections /\ attempts' > attempts
                BY <2>3, RuntimeAssumption DEF WorkerDial, Connections, TypeOK
            <4>2. wire[attempts'] = "none"
                BY <4>1 DEF RuntimeInv, AttemptInv
            <4> QED
                BY <2>1, <4>1, <4>2 DEF RuntimeInv, HelloInv
        <3> QED
            BY <3>1, <3>2, <3>3, <3>4 DEF UseInv
    <2>4. CASE WorkerGiveUp
        BY <2>4, RetiredUse, RetiredIsNewest DEF WorkerGiveUp
    <2> QED
        BY <1>5, <2>2, <2>3, <2>4 DEF WorkerLoop
<1>6. CASE WorkerWake \/ ConnectThrows \/ WorkerDeliver \/ WorkerCollected \/ RunDetached
           \/ ShutdownJoin \/ ShutdownLock \/ ShutdownEnd \/ Silence \/ UNCHANGED vars
    BY <1>4, <1>6 DEF WorkerWake, ConnectThrows, WorkerDeliver, WorkerCollected, RunDetached,
                      ShutdownJoin, ShutdownLock, ShutdownEnd, Silence, vars, Creating
<1>7. CASE ReconnectTime
    BY <1>4, <1>7 DEF ReconnectTime, Creating
<1>8. CASE ConnectStarts
    <2>1. UNCHANGED <<conn, attempts, stopping, slotGen, gen, scheduled, hellos, call,
                      pendingOpen, socketOpen>> /\ Creating /\ Creating' /\ worker = "dialing"
        BY <1>8 DEF ConnectStarts, Creating
    <2>2. ~(pendingOpen /\ ~stopping)
        BY <1>0, <2>1 DEF UseInv
    <2> QED
        BY <1>0, <2>1, <2>2 DEF UseInv, Fresh
<1>9. CASE Attach
    <2>1. /\ UNCHANGED <<attempts, slotGen, wire, call, gen, stopping, scheduled>>
          /\ worker = "attaching" /\ ~Creating' /\ Creating /\ attempts # None /\ conn = None
        BY <1>0, <1>9 DEF Attach, AttachSuperseded, AttachOpened, AttachDialing, Creating, TypeOK,
                          UseInv
    <2>2. CASE AttachSuperseded
        <3>1. ~Fresh /\ UNCHANGED <<conn, pendingOpen, socketOpen, hellos>>
            BY <2>2 DEF AttachSuperseded, Stale, Fresh
        <3> QED
            BY <1>0, <2>1, <3>1 DEF UseInv, Fresh
    <2>3. CASE AttachOpened
        <3>1. Fresh /\ hellos[attempts] = 0
            BY <1>0, <2>1, <2>3 DEF AttachOpened, Stale, Fresh, UseInv
        <3>2. conn' = attempts /\ ~pendingOpen' /\ hellos'[attempts] = 1
            BY <2>1, <2>3, <3>1 DEF AttachOpened, HandleOpen, TypeOK
        <3> QED
            BY <1>0, <2>1, <3>1, <3>2 DEF UseInv, Fresh
    <2>4. CASE AttachDialing
        <3>1. Fresh /\ ~pendingOpen /\ conn' = attempts
              /\ UNCHANGED <<pendingOpen, socketOpen, hellos>>
            BY <2>1, <2>4 DEF AttachDialing, Stale, Fresh
        <3> QED
            BY <1>0, <2>1, <3>1 DEF UseInv, Fresh
    <2> QED
        BY <1>9, <2>2, <2>3, <2>4 DEF Attach
<1>10. CASE Fail
    <2>1. /\ UNCHANGED <<attempts, slotGen, wire, call, hellos>>
          /\ worker = "failing" /\ ~Creating' /\ worker' = "deliver"
        BY <1>10 DEF Fail, Creating
    <2>2. CASE Stale(attempts)
        <3>1. ~Fresh /\ UNCHANGED lockVars
            BY <1>10, <2>2 DEF Fail, Stale, Fresh
        <3> QED
            BY <1>0, <2>1, <3>1 DEF UseInv, Fresh
    <2>3. CASE ~Stale(attempts)
        BY <1>10, <2>1, <2>3, RetiredUse DEF Fail
    <2> QED
        BY <2>2, <2>3
<1>11. CASE ShutdownBegin
    <2>1. stopping' = TRUE /\ conn' = None /\ socketOpen' = FALSE
        BY <1>11 DEF ShutdownBegin
    <2> QED
        BY <2>1 DEF UseInv, Fresh
<1>12. ASSUME \A x \in Connections : wire'[x] \in {wire[x], "closed"},
              UNCHANGED <<conn, attempts, stopping, slotGen, gen, worker, scheduled, hellos,
                          pendingOpen, socketOpen, call>>
       PROVE  UseInv'
    BY <1>0, <1>12 DEF UseInv, Fresh, Creating, TypeOK
<1>13. CASE WorkerDestroy
    BY <1>12, <1>13, DestroyOther DEF WorkerDestroy, TypeOK
<1>14. CASE ShutdownSweep
    BY <1>12, <1>14, DestroyOther DEF ShutdownSweep, TypeOK
<1>15. CASE ShutdownClose
    <2>1. \A x \in Connections : wire'[x] \in {wire[x], "closed"}
        BY <1>15 DEF ShutdownClose, TypeOK
    <2> QED
        BY <1>12, <1>15, <2>1 DEF ShutdownClose
<1> QED
    BY <1>1, <1>2, <1>3, <1>5, <1>6, <1>7, <1>8, <1>9, <1>10, <1>11, <1>13, <1>14, <1>15
    DEF Next, WorkerStep, ShutdownStep

-----------------------------------------------------------------------------
(* Threads, and what they own.                                             *)

\* Every step keeps the worker and ~client where they wait for each other.
LEMMA ThreadStep ==
    ASSUME TypeOK, RuntimeInv, [Next]_vars
    PROVE  ThreadInv'
<1> USE DEF lockVars, transportVars, workerVars, mainVars
<1>0. ThreadInv
    BY DEF RuntimeInv
<1>1. ASSUME UNCHANGED <<stopping, worker, dead, mainVars>>, garbage' \subseteq garbage \/ ~stopping
      PROVE  ThreadInv'
    BY <1>0, <1>1 DEF ThreadInv
<1>2. ASSUME NEW c \in Connections, StartCallback(c) \/ Handle(c) \/ Deliver(c) PROVE ThreadInv'
    <2>1. UNCHANGED <<stopping, worker, dead, mainVars>>
        BY <1>2 DEF StartCallback, Handle, Deliver, HandleStale, HandleOpenEarly, HandleOpenNow,
                    HandleMessage, HandleEnd, HandleMalformed, BeginDisconnect
    <2>2. garbage' = garbage \/ ~stopping
        BY <1>2 DEF StartCallback, Handle, Deliver, HandleStale, HandleOpenEarly, HandleOpenNow,
                    HandleMessage, HandleEnd, HandleMalformed, Stale
    <2> QED
        BY <1>1, <2>1, <2>2
<1>3. CASE WorkerLoop
    <2>1. worker = "loop" /\ UNCHANGED mainVars
        BY <1>3 DEF WorkerLoop
    <2>2. CASE WorkerStop
        BY <1>0, <2>1, <2>2 DEF WorkerStop, ThreadInv
    <2>3. CASE WorkerCollect
        BY <1>0, <2>1, <2>3 DEF WorkerCollect, ThreadInv
    <2>4. CASE WorkerDial \/ WorkerWait \/ WorkerGiveUp
        <3>1. ~stopping /\ stopping' = stopping /\ dead' = dead
                  /\ worker' \in {"dialing", "waiting", "deliver"}
            BY <2>4 DEF WorkerDial, WorkerWait, WorkerGiveUp, BeginDisconnect
        <3> QED
            BY <1>0, <2>1, <3>1 DEF ThreadInv
    <2> QED
        BY <1>3, <2>2, <2>3, <2>4 DEF WorkerLoop
<1>4. ASSUME worker \notin {"collecting", "done"}, worker' # "done",
             UNCHANGED <<stopping, dead, mainVars>>
      PROVE  ThreadInv'
    BY <1>0, <1>4 DEF ThreadInv
<1>5. CASE WorkerWake \/ ConnectStarts \/ ConnectThrows \/ WorkerDeliver
    BY <1>4, <1>5 DEF WorkerWake, ConnectStarts, ConnectThrows, WorkerDeliver
<1>6. CASE Attach
    BY <1>4, <1>6 DEF Attach, AttachSuperseded, AttachOpened, AttachDialing
<1>7. CASE Fail
    <2>1. UNCHANGED stopping
        BY <1>7 DEF Fail, BeginDisconnect
    <2> QED
        BY <1>4, <1>7, <2>1 DEF Fail
<1>8. CASE WorkerDestroy
    <2>1. worker = "collecting" /\ UNCHANGED <<stopping, worker, mainVars, garbage>>
        BY <1>8 DEF WorkerDestroy
    <2> QED
        BY <1>0, <2>1 DEF ThreadInv
<1>9. CASE WorkerCollected
    BY <1>0, <1>9 DEF WorkerCollected, ThreadInv
<1>10. CASE ShutdownBegin
    BY <1>0, <1>10 DEF ShutdownBegin, ThreadInv
<1>11. CASE ShutdownJoin
    BY <1>0, <1>11 DEF ShutdownJoin, ThreadInv
<1>12. CASE ShutdownClose
    <2>1. deadConn' = None /\ main = "closing" /\ main' = "locking"
              /\ UNCHANGED <<stopping, worker, dead, garbage>>
        BY <1>12 DEF ShutdownClose
    <2> QED
        BY <1>0, <2>1 DEF ThreadInv
<1>13. CASE ShutdownLock
    BY <1>0, <1>13 DEF ShutdownLock, ThreadInv
<1>14. CASE ShutdownSweep
    <2>1. garbage' \subseteq garbage /\ UNCHANGED <<stopping, worker, dead, mainVars>>
        BY <1>14 DEF ShutdownSweep
    <2> QED
        BY <1>1, <2>1
<1>15. CASE ShutdownEnd
    BY <1>0, <1>15 DEF ShutdownEnd, ThreadInv
<1>16. CASE ReconnectTime \/ Silence \/ RunDetached \/ UNCHANGED vars
    BY <1>1, <1>16 DEF ReconnectTime, Silence, RunDetached, vars
<1> QED
    BY <1>2, <1>3, <1>5, <1>6, <1>7, <1>8, <1>9, <1>10, <1>11, <1>12, <1>13, <1>14, <1>15, <1>16
    DEF Next, WorkerStep, ShutdownStep

\* No step makes a connection object without a socket.
LEMMA BornStep ==
    ASSUME TypeOK, RuntimeInv, [Next]_vars
    PROVE  BornInv'
<1> USE DEF lockVars, transportVars, workerVars, mainVars
<1>0. BornInv /\ objects \subseteq Connections
    BY DEF RuntimeInv, TypeOK
<1>1. ASSUME objects' \subseteq objects, \A x \in Connections : wire'[x] \in {wire[x], "closed"}
      PROVE  BornInv'
    BY <1>0, <1>1 DEF BornInv
<1>2. ASSUME UNCHANGED <<objects, wire>> PROVE BornInv'
    BY <1>0, <1>2 DEF BornInv
<1>3. ASSUME NEW c \in Connections, StartCallback(c) PROVE BornInv'
    <2>1. objects' = objects
        BY <1>3 DEF StartCallback, StartOpen, StartMessage, StartClose
    <2> QED
        BY <1>0, <1>3, <2>1, StartOther DEF BornInv
<1>4. CASE ConnectStarts
    <2>1. wire'[attempts] = "dialing" /\ \A x \in Connections : x # attempts => wire'[x] = wire[x]
        BY <1>4 DEF ConnectStarts, TypeOK, Creating
    <2>2. objects' = objects \cup {attempts}
        BY <1>4 DEF ConnectStarts
    <2> QED
        BY <1>0, <2>1, <2>2 DEF BornInv
<1>5. ASSUME NEW c \in Connections, FreeSlot(c) \/ DestroyConnection(c) PROVE BornInv'
    BY <1>1, <1>5, DestroyOther
<1>6. CASE WorkerDestroy
    BY <1>5, <1>6 DEF WorkerDestroy, TypeOK
<1>7. CASE ShutdownSweep
    BY <1>5, <1>7 DEF ShutdownSweep, TypeOK
<1>8. CASE ShutdownClose
    <2>1. objects' \subseteq objects /\ \A x \in Connections : wire'[x] \in {wire[x], "closed"}
        BY <1>8 DEF ShutdownClose, TypeOK
    <2> QED
        BY <1>1, <2>1
<1> QED
    BY <1>2, <1>3, <1>4, <1>6, <1>7, <1>8
    DEF Next, WorkerStep, ShutdownStep, vars, Handle, Deliver, RunDetached, WorkerWake,
        ConnectThrows, WorkerLoop, Attach, Fail, WorkerDeliver, WorkerCollected, ShutdownBegin,
        ShutdownJoin, ShutdownLock, ShutdownEnd, ReconnectTime, Silence

\* Who will destroy connection c.
Owned(c) == c \in garbage \cup dead \cup {conn, deadConn} \/ (Creating /\ c = attempts)

\* Every step leaves whatever exists with somebody who will destroy it.
LEMMA OwnStep ==
    ASSUME TypeOK, RuntimeInv, [Next]_vars
    PROVE  OwnInv'
<1> USE ConnectionNumbers DEF lockVars, transportVars, workerVars, mainVars
<1>0. /\ \A c \in objects \cup slots : Owned(c)
      /\ \A c \in Connections : wire[c] \in {"dialing", "open"} \/ call[c] # "idle" => c \in objects
    BY DEF RuntimeInv, OwnInv, Owned
<1>1. ASSUME \A c \in objects' \cup slots' : Owned(c)',
             \A c \in Connections :
                 wire'[c] \in {"dialing", "open"} \/ call'[c] # "idle" => c \in objects'
      PROVE  OwnInv'
    BY <1>1 DEF OwnInv, Owned
<1>2. ASSUME UNCHANGED <<slots, objects, wire, call>>,
             \A c \in objects \cup slots : Owned(c) => Owned(c)'
      PROVE  OwnInv'
    BY <1>0, <1>1, <1>2
<1>3. ASSUME UNCHANGED <<garbage, dead, conn, deadConn, attempts>>, Creating => Creating', NEW c
      PROVE  Owned(c) => Owned(c)'
    BY <1>3 DEF Owned
<1>4. ASSUME NEW retired, BeginDisconnect(retired), Retired \subseteq retired,
             Creating => Creating' \/ attempts \in retired,
             UNCHANGED <<dead, deadConn, attempts>>, NEW c \in Connections
      PROVE  Owned(c) => Owned(c)'
    BY <1>4 DEF Owned, BeginDisconnect, Retired
<1>5. objects \cup slots \subseteq Connections
    BY DEF TypeOK
<1>6. ASSUME NEW c \in Connections, StartCallback(c) PROVE OwnInv'
    <2>1. UNCHANGED <<garbage, dead, conn, deadConn, attempts, worker, objects, slots>>
        BY <1>6 DEF StartCallback, StartOpen, StartMessage, StartClose
    <2>2. c \in objects
        BY <1>0, <1>6 DEF StartCallback, StartOpen, StartMessage, StartClose, Calling
    <2>3. \A x \in objects' \cup slots' : Owned(x)'
        BY <1>0, <2>1 DEF Owned, Creating
    <2>4. \A x \in Connections :
              wire'[x] \in {"dialing", "open"} \/ call'[x] # "idle" => x \in objects'
        BY <1>0, <1>6, <2>1, <2>2, StartOther
    <2> QED
        BY <1>1, <2>3, <2>4
<1>7. ASSUME NEW c \in Connections, Handle(c) \/ Deliver(c) PROVE OwnInv'
    <2>1. UNCHANGED <<dead, deadConn, attempts, worker, objects, slots, wire>>
        BY <1>7 DEF Handle, Deliver
    <2>2. call[c] # "idle" /\ \A x \in Connections : x # c => call'[x] = call[x]
        BY <1>7 DEF Handle, Deliver, HandleStale, HandleOpenEarly, HandleOpenNow, HandleMessage,
                    HandleEnd, HandleMalformed, Leave, TypeOK
    <2>3. \A x \in Connections : Owned(x) => Owned(x)'
        <3>1. CASE UNCHANGED <<garbage, conn>>
            BY <2>1, <3>1 DEF Owned, Creating
        <3>2. CASE BeginDisconnect(Retired)
            BY <1>4, <2>1, <3>2 DEF Creating
        <3> QED
            BY <1>7, <3>1, <3>2
            DEF Handle, Deliver, HandleStale, HandleOpenEarly, HandleOpenNow, HandleMessage,
                HandleEnd, HandleMalformed
    <2>4. \A x \in Connections :
              wire'[x] \in {"dialing", "open"} \/ call'[x] # "idle" => x \in objects'
        BY <1>0, <2>1, <2>2
    <2> QED
        BY <1>0, <1>1, <1>5, <2>1, <2>3, <2>4
<1>8. CASE WorkerLoop
    <2>1. worker = "loop" /\ UNCHANGED <<objects, wire, call, deadConn>>
        BY <1>8 DEF WorkerLoop
    <2>2. dead = {}
        BY <2>1 DEF RuntimeInv, ThreadInv
    <2>3. CASE WorkerStop \/ WorkerWait
        BY <1>2, <1>3, <2>1, <2>3 DEF WorkerStop, WorkerWait, Creating
    <2>4. CASE WorkerCollect
        BY <1>2, <2>1, <2>2, <2>4 DEF WorkerCollect, Owned, Creating
    <2>5. CASE WorkerDial
        <3>1. /\ UNCHANGED <<garbage, dead, conn>> /\ Creating' /\ ~Creating
              /\ slots' = slots \cup {attempts'}
            BY <2>1, <2>5 DEF WorkerDial, Creating
        <3>2. \A c \in objects' \cup slots' : Owned(c)'
            BY <1>0, <2>1, <3>1 DEF Owned
        <3> QED
            BY <1>0, <1>1, <2>1, <3>2
    <2>6. CASE WorkerGiveUp
        <3>1. BeginDisconnect(Retired) /\ UNCHANGED <<dead, attempts, slots>> /\ ~Creating
            BY <2>1, <2>6 DEF WorkerGiveUp, Creating
        <3> QED
            BY <1>2, <1>4, <1>5, <2>1, <3>1
    <2> QED
        BY <1>8, <2>3, <2>4, <2>5, <2>6 DEF WorkerLoop
<1>9. CASE WorkerWake \/ ConnectThrows \/ WorkerDeliver \/ WorkerCollected \/ RunDetached
           \/ ShutdownJoin \/ ShutdownLock \/ ShutdownEnd \/ Silence
    BY <1>2, <1>3, <1>9
    DEF WorkerWake, ConnectThrows, WorkerDeliver, WorkerCollected, RunDetached, ShutdownJoin,
        ShutdownLock, ShutdownEnd, Silence, Creating
<1>10. CASE ReconnectTime \/ UNCHANGED vars
    BY <1>2, <1>3, <1>10 DEF ReconnectTime, vars, Creating
<1>11. CASE ConnectStarts
    <2>1. /\ UNCHANGED <<garbage, dead, conn, deadConn, attempts, slots, call>>
          /\ Creating /\ Creating' /\ attempts \in Connections
          /\ objects' = objects \cup {attempts}
        BY <1>11 DEF ConnectStarts, Creating, TypeOK
    <2>2. \A x \in Connections : x # attempts => wire'[x] = wire[x]
        BY <1>11 DEF ConnectStarts, TypeOK
    <2>3. \A c \in objects' \cup slots' : Owned(c)'
        BY <1>0, <2>1 DEF Owned
    <2> QED
        BY <1>0, <1>1, <2>1, <2>2, <2>3
<1>12. CASE Attach
    <2>1. UNCHANGED <<slots, objects, wire, call, dead, deadConn, attempts>>
        BY <1>12 DEF Attach
    <2>2. conn = None /\ garbage \subseteq garbage'
        BY <1>12 DEF Attach, AttachSuperseded, AttachOpened, AttachDialing, Creating, RuntimeInv,
                     UseInv
    <2>3. attempts \in garbage' \/ attempts = conn'
        BY <1>12 DEF Attach, AttachSuperseded, AttachOpened, AttachDialing
    <2>4. \A c \in objects \cup slots : Owned(c) => Owned(c)'
        BY <1>5, <2>1, <2>2, <2>3 DEF Owned
    <2> QED
        BY <1>2, <2>1, <2>4
<1>13. CASE Fail
    <2>1. UNCHANGED <<objects, wire, call, dead, deadConn, attempts>> /\ worker = "failing"
        BY <1>13 DEF Fail
    <2>2. CASE Stale(attempts)
        <3>1. slots' = slots \ {attempts} /\ UNCHANGED <<garbage, conn>>
            BY <1>13, <2>2 DEF Fail
        <3>2. attempts \notin objects
            BY <2>1 DEF RuntimeInv, BornInv, AttemptInv
        <3> QED
            BY <1>0, <1>1, <2>1, <3>1, <3>2 DEF Owned
    <2>3. CASE ~Stale(attempts)
        <3>1. BeginDisconnect({attempts}) /\ slots' = slots
            BY <1>13, <2>3 DEF Fail
        <3> QED
            BY <1>2, <1>4, <1>5, <2>1, <3>1, RetiredIsNewest
    <2> QED
        BY <2>2, <2>3
<1>14. ASSUME NEW c \in Connections, FreeSlot(c) \/ DestroyConnection(c), call' = call
       PROVE  /\ \A x \in Connections :
                     wire'[x] \in {"dialing", "open"} \/ call'[x] # "idle" => x \in objects'
              /\ DestroyConnection(c) => c \notin objects' \cup slots'
              /\ objects' \cup slots' \subseteq objects \cup slots
    <2>1. CASE FreeSlot(c)
        BY <1>0, <1>14, <2>1 DEF FreeSlot, DestroyConnection
    <2>2. CASE DestroyConnection(c)
        <3>1. call[c] = "idle" /\ wire'[c] = "closed" /\ c \notin objects' \cup slots'
            BY <2>2 DEF DestroyConnection, TypeOK
        <3> QED
            BY <1>0, <1>14, <3>1, DestroyOther
    <2> QED
        BY <1>14, <2>1, <2>2
<1>15. CASE WorkerDestroy
    <2>1. PICK c \in dead : \/ FreeSlot(c) /\ UNCHANGED dead
                            \/ DestroyConnection(c) /\ dead' = dead \ {c}
        BY <1>15 DEF WorkerDestroy
    <2>2. UNCHANGED <<garbage, conn, deadConn, attempts, worker, call>> /\ c \in Connections
        BY <1>15 DEF WorkerDestroy, TypeOK
    <2>3. \A x \in objects' \cup slots' : Owned(x)'
        BY <1>0, <1>14, <2>1, <2>2 DEF Owned, Creating
    <2> QED
        BY <1>1, <1>14, <2>1, <2>2, <2>3
<1>16. CASE ShutdownBegin
    BY <1>2, <1>16 DEF ShutdownBegin, Owned, Creating, RuntimeInv, ThreadInv, TypeOK
<1>17. CASE ShutdownClose
    <2>1. UNCHANGED <<garbage, dead, conn, attempts, worker, call>> /\ deadConn' = None
        BY <1>17 DEF ShutdownClose
    <2>2. CASE deadConn = None
        BY <1>2, <1>3, <1>17, <2>1, <2>2 DEF ShutdownClose, Creating
    <2>3. CASE deadConn # None
        <3>1. /\ objects' = objects \ {deadConn} /\ slots' = slots \ {deadConn}
              /\ call[deadConn] = "idle" /\ deadConn \in Connections
              /\ wire' = [wire EXCEPT ![deadConn] = "closed"]
            BY <1>17, <2>3 DEF ShutdownClose, TypeOK
        <3>2. \A x \in objects' \cup slots' : Owned(x)'
            BY <1>0, <2>1, <3>1 DEF Owned, Creating
        <3>3. wire'[deadConn] = "closed" /\ \A x \in Connections : x # deadConn => wire'[x] = wire[x]
            BY <3>1 DEF TypeOK
        <3> QED
            BY <1>0, <1>1, <2>1, <3>1, <3>2, <3>3
    <2> QED
        BY <2>2, <2>3
<1>18. CASE ShutdownSweep
    <2>1. PICK c \in garbage : \/ FreeSlot(c) /\ UNCHANGED garbage
                               \/ DestroyConnection(c) /\ garbage' = garbage \ {c}
        BY <1>18 DEF ShutdownSweep
    <2>2. UNCHANGED <<dead, conn, deadConn, attempts, worker, call>> /\ c \in Connections
        BY <1>18 DEF ShutdownSweep, TypeOK
    <2>3. \A x \in objects' \cup slots' : Owned(x)'
        BY <1>0, <1>14, <2>1, <2>2 DEF Owned, Creating
    <2> QED
        BY <1>1, <1>14, <2>1, <2>2, <2>3
<1> QED
    BY <1>6, <1>7, <1>8, <1>9, <1>10, <1>11, <1>12, <1>13, <1>15, <1>16, <1>17, <1>18
    DEF Next, WorkerStep, ShutdownStep

-----------------------------------------------------------------------------
(* The worker's deadlines.                                                 *)

\* Every step keeps the worker's wait up to date, or wakes it.
LEMMA DeadlineStep ==
    ASSUME TypeOK, RuntimeInv, [Next]_vars
    PROVE  NoMissedDeadline'
<1> USE DEF lockVars, transportVars, workerVars, mainVars
<1>0. NoMissedDeadline
    BY DEF RuntimeInv
<1>1. ASSUME worker' # "waiting" \/ notified' = TRUE PROVE NoMissedDeadline'
    BY <1>1 DEF NoMissedDeadline
<1>2. ASSUME UNCHANGED <<worker, waitsFor, notified, scheduled, socketOpen, garbage>>
      PROVE  NoMissedDeadline'
    BY <1>0, <1>2 DEF NoMissedDeadline
<1>3. ASSUME NEW c \in Connections, Handle(c) PROVE NoMissedDeadline'
    <2>1. UNCHANGED <<worker, waitsFor>> /\ call[c] # "idle"
        BY <1>3 DEF Handle
    <2>2. CASE HandleStale(c) \/ HandleMessage(c)
        BY <1>2, <2>1, <2>2 DEF HandleStale, HandleMessage
    <2>3. CASE HandleOpenNow(c)
        BY <1>1, <2>3 DEF HandleOpenNow
    <2>4. CASE HandleEnd(c) \/ HandleMalformed(c)
        BY <1>1, <2>4 DEF HandleEnd, HandleMalformed, BeginDisconnect
    <2>5. CASE HandleOpenEarly(c)
        <3>1. Fresh /\ conn = None /\ attempts # None
            BY <2>1, <2>5, NotStale DEF HandleOpenEarly, Fresh
        <3>2. worker # "waiting"
            BY <3>1 DEF RuntimeInv, UseInv, Creating
        <3> QED
            BY <1>1, <2>1, <3>2
    <2> QED
        BY <1>3, <2>2, <2>3, <2>4, <2>5 DEF Handle
<1>4. CASE WorkerLoop
    <2>1. CASE WorkerWait
        <3>1. /\ garbage = {} /\ UNCHANGED <<scheduled, socketOpen, garbage>>
              /\ scheduled => "reconnect" \in waitsFor'
              /\ socketOpen => "inactivity" \in waitsFor'
            BY <2>1 DEF WorkerWait
        <3> QED
            BY <3>1 DEF NoMissedDeadline
    <2>2. CASE WorkerStop \/ WorkerCollect \/ WorkerDial \/ WorkerGiveUp
        BY <1>1, <2>2 DEF WorkerStop, WorkerCollect, WorkerDial, WorkerGiveUp
    <2> QED
        BY <1>4, <2>1, <2>2 DEF WorkerLoop
<1>5. CASE WorkerWake \/ ConnectStarts \/ ConnectThrows \/ Attach \/ Fail \/ WorkerDeliver
           \/ WorkerCollected
    BY <1>1, <1>5 DEF WorkerWake, ConnectStarts, ConnectThrows, Attach, Fail, WorkerDeliver,
                      WorkerCollected
<1>6. CASE WorkerDestroy
    <2>1. worker' # "waiting"
        BY <1>6 DEF WorkerDestroy
    <2> QED
        BY <1>1, <2>1
<1>7. CASE ShutdownBegin
    BY <1>1, <1>7 DEF ShutdownBegin
<1>8. CASE ShutdownSweep
    <2>1. worker' # "waiting"
        BY <1>8 DEF ShutdownSweep, RuntimeInv, ThreadInv
    <2> QED
        BY <1>1, <2>1
<1>9. CASE \/ \E c \in Connections : StartCallback(c) \/ Deliver(c)
           \/ RunDetached \/ ShutdownJoin \/ ShutdownClose \/ ShutdownLock \/ ShutdownEnd
           \/ ReconnectTime \/ Silence \/ UNCHANGED vars
    BY <1>2, <1>9 DEF StartCallback, Deliver, RunDetached, ShutdownJoin, ShutdownClose,
                      ShutdownLock, ShutdownEnd, ReconnectTime, Silence, vars
<1> QED
    BY <1>3, <1>4, <1>5, <1>6, <1>7, <1>8, <1>9 DEF Next, WorkerStep, ShutdownStep

-----------------------------------------------------------------------------
(* The theorems.                                                           *)

\* TypeOK and RuntimeInv are invariants.
LEMMA RuntimeCorrect == Spec => [](TypeOK /\ RuntimeInv)
<1>1. Init => TypeOK
    <2> SUFFICES ASSUME Init PROVE TypeOK
        OBVIOUS
    <2>1. /\ gen \in Nat /\ conn \in Connections \cup {None} /\ attempts \in Connections \cup {None}
          /\ deadConn \in Connections \cup {None} /\ mu \in {"free", "main"}
          /\ garbage \subseteq Connections /\ slots \subseteq Connections
          /\ objects \subseteq Connections /\ dead \subseteq Connections
        BY DEF Init, None
    <2>2. /\ slotGen \in [Connections -> Nat] /\ hellos \in [Connections -> Nat]
          /\ wire \in [Connections -> {"none", "dialing", "open", "closed"}]
          /\ call \in [Connections -> {"idle", "open", "message", "close", "deliver"}]
        BY DEF Init
    <2>3. /\ hand \in [Connections -> Seq(State)] /\ workerHand \in Seq(State)
          /\ detached \in Seq(State)
        BY EventTypes DEF Init
    <2>4. /\ state \in State /\ heard \in State /\ ~Creating
          /\ waitsFor \subseteq {"reconnect", "inactivity"}
          /\ worker \in {"loop", "waiting", "dialing", "attaching", "failing", "deliver",
                         "collecting", "done"}
          /\ main \in {"running", "joining", "closing", "locking", "sweeping", "gone"}
        BY DEF Init, State, Creating
    <2> QED
        BY <2>1, <2>2, <2>3, <2>4 DEF TypeOK
<1>2. Init => RuntimeInv
    <2> SUFFICES ASSUME Init PROVE RuntimeInv
        OBVIOUS
    <2> USE ConnectionNumbers DEF Init
    <2>1. AttemptInv /\ HelloInv
        BY DEF AttemptInv, HelloInv, Creating
    <2>2. UseInv /\ ThreadInv /\ OwnInv /\ BornInv /\ NoMissedDeadline
        BY DEF UseInv, ThreadInv, OwnInv, BornInv, NoMissedDeadline, Fresh, Creating
    <2> QED
        BY <2>1, <2>2 DEF RuntimeInv
<1>3. TypeOK /\ RuntimeInv /\ [Next]_vars => (TypeOK /\ RuntimeInv)'
    BY TypeStep, AttemptStep, HelloStep, UseStep, ThreadStep, OwnStep, BornStep, DeadlineStep
    DEF RuntimeInv
<1> QED
    BY <1>1, <1>2, <1>3, PTL DEF Spec

\* However connect() and on_open() are ordered, Connect goes out once on a
\* connection, and the one in use has sent it.
THEOREM ConnectOnce == Spec => []ConnectSentOnce
<1>1. TypeOK /\ RuntimeInv => ConnectSentOnce
    BY DEF RuntimeInv, HelloInv, UseInv, Fresh, Creating, ConnectSentOnce
<1> QED
    BY <1>1, RuntimeCorrect, PTL

\* The worker never sleeps past a deadline it has to meet.
THEOREM DeadlinesMet == Spec => []NoMissedDeadline
<1>1. RuntimeInv => NoMissedDeadline
    BY DEF RuntimeInv
<1> QED
    BY <1>1, RuntimeCorrect, PTL

\* When ~client has returned nothing it owned is left.
THEOREM DestructorComplete == Spec => []NothingLeftBehind
<1>1. TypeOK /\ RuntimeInv => NothingLeftBehind
    <2> SUFFICES ASSUME TypeOK, RuntimeInv, main = "gone" PROVE NothingLeftBehind
        BY DEF NothingLeftBehind
    <2>1. worker = "done" /\ dead = {} /\ garbage = {} /\ deadConn = None /\ stopping
        BY DEF RuntimeInv, ThreadInv
    <2>2. conn = None
        BY <2>1 DEF RuntimeInv, UseInv, Fresh
    <2>3. objects = {} /\ slots = {}
        BY <2>1, <2>2, ConnectionNumbers DEF RuntimeInv, OwnInv, Creating, TypeOK
    <2> QED
        BY <2>1, <2>3 DEF NothingLeftBehind, RuntimeInv, OwnInv
<1> QED
    BY <1>1, RuntimeCorrect, PTL
=============================================================================
