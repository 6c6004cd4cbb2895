-------------------------- MODULE BaseClientPromise --------------------------
(***************************************************************************)
(* base_client implements RequestPromise.                                  *)
(***************************************************************************)
EXTENDS BaseClient

\* No Transition of the server goes back in time.
ASSUME ForwardAssumption ==
    \A m \in ServerMessages : m.type = "Transition" => m.end.ts >= m.start.ts

\* A request is open while it is in ongoing_requests_, held or not; what was
\* transmitted is at risk; remote_version_ tells how far the results are.
Promise == INSTANCE RequestPromise WITH
    open <- {[id |-> r.id, kind |-> r.kind] : r \in ongoing},
    nextId <- nextRequestId,
    risked <- transmitted,
    horizon <- remoteVersion.ts

\* Whatever the server sends and however often the connection is lost, callers
\* see only what the promise allows: one answer per request, no success before
\* its effect can be seen, "lost" for exactly the open actions that may have
\* run (base_client.cpp receive_message, flush_completed, restart).
KeepsPromise == Promise!PromiseSpec
=============================================================================
