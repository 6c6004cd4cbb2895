----------------------------- MODULE BaseClient -----------------------------
(***************************************************************************)
(* The sans-IO sync state machine (base_client) together with the state    *)
(* the client runtime keeps in step with it under its lock `mu`: the       *)
(* subscriber callbacks (client_impl::subs), the request callbacks         *)
(* (client_impl::pending) and whether a socket is open.                    *)
(*                                                                         *)
(* Every action is one critical section of client_impl: it runs the        *)
(* base_client method and the drain_outgoing() that follows it.  The       *)
(* server is left open: it may send any message of ServerMessages at any   *)
(* time, so what holds here holds whatever the server does.                *)
(***************************************************************************)
EXTENDS Integers, Sequences, FiniteSets, FiniteSetsExt

CONSTANTS
    Tokens,          \* canonical "path|args" tokens, the keys of query_set_
    AuthTokens,      \* user and admin tokens
    NoAuth,          \* auth_token::none(), and an empty auth_
    ServerMessages,  \* the messages the server may send
    MaxSubscribers,  \* bound: subscriptions ever made
    MaxRequests,     \* bound: mutations and actions ever requested
    MaxIdentity,     \* bound: Authenticate messages per connection
    MaxConnections   \* bound: sockets ever opened

NoTs == -1           \* an empty optional<timestamp>
NoJournal == -1      \* an empty optional journal

QueryId == Nat
RequestId == Nat
Timestamp == Nat
Snapshot == Nat      \* the result of one execution of a query, or its error
Journal == Nat
Identity == AuthTokens \cup {NoAuth}
StateVersion == [qs : Nat, id : Nat, ts : Timestamp]

\* state_modification: QueryUpdated and QueryFailed differ only in the result
\* they carry, so both are "Result"; "Removed" is QueryRemoved.
Modification ==
    [type : {"Result"}, id : QueryId, at : Snapshot, journal : Journal \cup {NoJournal}]
        \cup [type : {"Removed"}, id : QueryId]

\* The server messages the state machine acts on.  AuthError, FatalError, a
\* protocol error, a close and an inactivity timeout all end in Disconnect.
ServerMessage ==
    [type : {"Transition"}, start : StateVersion, end : StateVersion, mods : Seq(Modification)]
        \cup [type : {"MutationResponse"}, id : RequestId, ok : BOOLEAN, ts : Timestamp \cup {NoTs}]
        \cup [type : {"ActionResponse"}, id : RequestId, ok : BOOLEAN]

ASSUME IdentityAssumption == NoAuth \notin AuthTokens
ASSUME MessagesAssumption == ServerMessages \subseteq ServerMessage
ASSUME BoundsAssumption ==
    /\ MaxSubscribers \in Nat
    /\ MaxRequests \in Nat
    /\ MaxIdentity \in Nat
    /\ MaxConnections \in Nat

VARIABLES
    nextQueryId,      \* next_query_id_
    nextIndex,        \* next_subscription_index_
    nextRequestId,    \* next_request_id_
    querySet,         \* query_set_ and id_to_token_
    querySetVersion,  \* query_set_version_
    identityVersion,  \* identity_version_
    auth,             \* auth_
    remoteVersion,    \* remote_version_
    results,          \* remote_results_
    ongoing,          \* ongoing_requests_
    maxObserved,      \* max_observed_timestamp_
    outstanding,      \* outstanding_queries_
    outgoing,         \* outgoing_
    connectionCount,  \* connection_count_
    linked,           \* client_impl: conn is set and socket_open
    subs,             \* client_impl::subs
    pending,          \* client_impl::pending
    sent,             \* the frames sent on the open connection, in order
    transmitted,      \* history: actions ever put on a wire
    views,            \* history: the last snapshot handed to each subscription
    answers           \* history: the request callbacks run

queryVars == <<nextQueryId, nextIndex, querySet, querySetVersion, subs>>
requestVars == <<nextRequestId, ongoing, pending, answers>>
remoteVars == <<remoteVersion, results, outstanding, maxObserved, views>>
identityVars == <<identityVersion, auth>>
wireVars == <<outgoing, sent, transmitted>>
linkVars == <<linked, connectionCount>>
vars == <<queryVars, requestVars, remoteVars, identityVars, wireVars, linkVars>>

LocalQuery == [id : QueryId, token : Tokens, num : Nat, journal : Journal \cup {NoJournal}]
PendingRequest ==
    [id : RequestId, kind : {"Mutation", "Action"}, completed : BOOLEAN,
     ts : Timestamp \cup {NoTs}]
Subscription == [query : QueryId, index : Nat]
Answer == [id : RequestId, outcome : {"ok", "error", "lost"}, ts : Timestamp \cup {NoTs}]

QueryAdd == [id : QueryId, token : Tokens, journal : Journal \cup {NoJournal}]
ClientMessage ==
    [type : {"Connect"}, count : Nat, maxObserved : Timestamp \cup {NoTs}]
        \cup [type : {"Authenticate"}, base : Nat, token : Identity]
        \cup [type : {"ModifyQuerySet"}, base : Nat, new : Nat,
              adds : SUBSET QueryAdd, removes : SUBSET QueryId]
        \cup [type : {"Mutation", "Action"}, id : RequestId]

InitialVersion == [qs |-> 0, id |-> 0, ts |-> 0]

Ids(set) == {x.id : x \in set}
LiveTokens == {q.token : q \in querySet}

-----------------------------------------------------------------------------
(* The outgoing queue.                                                     *)

ActionIds(frames) == {frames[i].id : i \in {j \in DOMAIN frames : frames[j].type = "Action"}}

\* drain_outgoing(): everything queued goes out when a socket is open.
Drain(queue) ==
    IF linked
    THEN /\ sent' = sent \o queue
         /\ outgoing' = <<>>
         /\ transmitted' = transmitted \cup ActionIds(queue)
    ELSE /\ outgoing' = queue
         /\ UNCHANGED <<sent, transmitted>>

AddOf(q) == [id |-> q.id, token |-> q.token, journal |-> q.journal]

ModifyQuerySet(base, adds, removes) ==
    [type |-> "ModifyQuerySet", base |-> base, new |-> base + 1,
     adds |-> adds, removes |-> removes]

Authenticate(base, token) == [type |-> "Authenticate", base |-> base, token |-> token]

OriginalMessage(r) == [type |-> r.kind, id |-> r.id]

-----------------------------------------------------------------------------
(* Subscriptions.                                                          *)

\* Mutant: a shared subscription is not counted.
JoinedUncounted(q) == q

Joined(q) == [q EXCEPT !.num = @ + 1]

\* The snapshot a subscription is handed out of a set of results.
Handed(s, set) == {[query |-> s.query, index |-> s.index, at |-> r.at] :
                       r \in {x \in set : x.id = s.query}}

\* A new subscriber is handed the latest result at once, if there is one.
CachedView(s) == Handed(s, results)

\* do_subscribe() on a token somebody already subscribed to.
SubscribeShared(q) ==
    LET s == [query |-> q.id, index |-> nextIndex] IN
    /\ nextIndex < MaxSubscribers
    /\ nextIndex' = nextIndex + 1
    /\ querySet' = (querySet \ {q}) \cup {Joined(q)}
    /\ subs' = subs \cup {s}
    /\ views' = views \cup CachedView(s)
    /\ Drain(outgoing)
    /\ UNCHANGED <<nextQueryId, querySetVersion, requestVars, remoteVersion, results,
                   outstanding, maxObserved, identityVars, linkVars>>

\* do_subscribe() on a new token: a query id and a ModifyQuerySet of its own.
SubscribeNew(token) ==
    LET q == [id |-> nextQueryId, token |-> token, num |-> 1, journal |-> NoJournal]
        s == [query |-> q.id, index |-> nextIndex]
    IN
    /\ nextIndex < MaxSubscribers
    /\ token \notin LiveTokens
    /\ nextIndex' = nextIndex + 1
    /\ nextQueryId' = nextQueryId + 1
    /\ querySet' = querySet \cup {q}
    /\ querySetVersion' = querySetVersion + 1
    /\ subs' = subs \cup {s}
    /\ views' = views \cup CachedView(s)
    /\ Drain(Append(outgoing, ModifyQuerySet(querySetVersion, {AddOf(q)}, {})))
    /\ UNCHANGED <<requestVars, remoteVersion, results, outstanding, maxObserved,
                   identityVars, linkVars>>

\* base_client::unsubscribe() with other subscribers left, and for the last one.
ReleaseShared(q) ==
    /\ q.num > 1
    /\ querySet' = (querySet \ {q}) \cup {[q EXCEPT !.num = @ - 1]}
    /\ Drain(outgoing)
    /\ UNCHANGED <<querySetVersion, results, outstanding>>

ReleaseLast(q) ==
    /\ q.num = 1
    /\ querySet' = querySet \ {q}
    /\ querySetVersion' = querySetVersion + 1
    /\ results' = {r \in results : r.id # q.id}
    /\ outstanding' = outstanding \ {q.id}
    /\ Drain(Append(outgoing, ModifyQuerySet(querySetVersion, {}, {q.id})))

\* do_unsubscribe(): the RAII handle calls it at most once per subscription.
Unsubscribe(s) ==
    /\ subs' = subs \ {s}
    /\ views' = {v \in views : v.index # s.index}
    /\ \E q \in querySet : q.id = s.query /\ (ReleaseShared(q) \/ ReleaseLast(q))
    /\ UNCHANGED <<nextQueryId, nextIndex, requestVars, remoteVersion, maxObserved,
                   identityVars, linkVars>>

-----------------------------------------------------------------------------
(* Requests and authentication.                                            *)

\* do_request(): a mutation or an action, its callback stored under its id.
Request(kind) ==
    LET r == [id |-> nextRequestId, kind |-> kind, completed |-> FALSE, ts |-> NoTs] IN
    /\ nextRequestId < MaxRequests
    /\ nextRequestId' = nextRequestId + 1
    /\ ongoing' = ongoing \cup {r}
    /\ pending' = pending \cup {r.id}
    /\ Drain(Append(outgoing, OriginalMessage(r)))
    /\ UNCHANGED <<queryVars, answers, remoteVars, identityVars, linkVars>>

\* do_set_auth().
SetAuth(token) ==
    /\ identityVersion < MaxIdentity
    /\ auth' = token
    /\ identityVersion' = identityVersion + 1
    /\ Drain(Append(outgoing, Authenticate(identityVersion, token)))
    /\ UNCHANGED <<queryVars, requestVars, remoteVars, linkVars>>

-----------------------------------------------------------------------------
(* Completions: a result is passed on only if its callback is still there. *)

\* Mutant: the callback is run but not forgotten.
CompleteKept(done) ==
    /\ pending' = pending
    /\ answers' = answers \cup {a \in done : a.id \in pending}

Complete(done) ==
    /\ pending' = pending \ Ids(done)
    /\ answers' = answers \cup {a \in done : a.id \in pending}

OkAnswer(r) == [id |-> r.id, outcome |-> "ok", ts |-> r.ts]

\* Mutants: the watermark must pass the timestamp; there is no watermark.
DeliverableStrict(requests, watermark) ==
    {r \in requests : r.completed /\ r.ts # NoTs /\ r.ts < watermark}
DeliverableAtOnce(requests, watermark) == {r \in requests : r.completed /\ r.ts # NoTs}

\* flush_completed(): held successes at or below the watermark.
Deliverable(requests, watermark) ==
    {r \in requests : r.completed /\ r.ts # NoTs /\ r.ts <= watermark}

\* Mutant: nothing is observed.
ObservedNever(ts) == maxObserved

\* observe_timestamp().
Observed(ts) == IF ts > maxObserved THEN ts ELSE maxObserved

-----------------------------------------------------------------------------
(* Transitions.                                                            *)

\* The modifications apply in order, so the last one about a query decides.
IsLast(mods, i) == \A j \in DOMAIN mods : j > i => mods[j].id # mods[i].id

Mentioned(mods) == {mods[i].id : i \in DOMAIN mods}

NewResults(mods) ==
    {[id |-> mods[i].id, at |-> mods[i].at] :
        i \in {j \in DOMAIN mods : mods[j].type = "Result" /\ IsLast(mods, j)}}

\* Mutant: a removal does not drop the result.
ResultsAfterNoRemoval(mods) ==
    {r \in results : r.id \notin Ids(NewResults(mods))} \cup NewResults(mods)

ResultsAfter(mods) == {r \in results : r.id \notin Mentioned(mods)} \cup NewResults(mods)

\* The journal of a query follows the last result about it; a removal leaves
\* it alone.
JournalOf(q, mods) ==
    LET about == {i \in DOMAIN mods : mods[i].type = "Result" /\ mods[i].id = q.id}
    IN  IF about = {} THEN q.journal ELSE mods[Max(about)].journal

\* Mutant: journals are not kept.
JournalsAfterNever(mods) == querySet

JournalsAfter(mods) == {[q EXCEPT !.journal = JournalOf(q, mods)] : q \in querySet}

\* Every subscriber of a changed query is handed its result, unless removed.
ViewsAfter(mods) ==
    LET fresh == UNION {Handed(s, NewResults(mods)) : s \in subs} IN
    {v \in views : \A f \in fresh : f.index # v.index} \cup fresh

\* ws_message() with a Transition that starts where the client is.
ApplyTransition(t) ==
    LET done == Deliverable(ongoing, t.end.ts) IN
    /\ linked
    /\ t.type = "Transition"
    /\ t.start = remoteVersion
    /\ results' = ResultsAfter(t.mods)
    /\ querySet' = JournalsAfter(t.mods)
    /\ outstanding' = outstanding \ Mentioned(t.mods)
    /\ views' = ViewsAfter(t.mods)
    /\ remoteVersion' = t.end
    /\ maxObserved' = Observed(t.end.ts)
    /\ ongoing' = ongoing \ done
    /\ Complete({OkAnswer(r) : r \in done})
    /\ Drain(outgoing)
    /\ UNCHANGED <<nextQueryId, nextIndex, querySetVersion, subs, nextRequestId,
                   identityVars, linkVars>>

-----------------------------------------------------------------------------
(* Responses.                                                              *)

\* A success with a timestamp is held until a Transition covers it; the
\* watermark may already do so.
HoldSuccess(m) ==
    \E r \in ongoing :
        LET held == (ongoing \ {r}) \cup {[r EXCEPT !.completed = TRUE, !.ts = m.ts]}
            done == Deliverable(held, remoteVersion.ts)
        IN  /\ r.id = m.id
            /\ m.ok
            /\ m.ts # NoTs
            /\ ongoing' = held \ done
            /\ maxObserved' = Observed(m.ts)
            /\ Complete({OkAnswer(x) : x \in done})

\* A success without a timestamp, a failure: the callback runs at once.
AnswerNow(m, outcome) ==
    \E r \in ongoing :
        /\ r.id = m.id
        /\ ongoing' = ongoing \ {r}
        /\ Complete({[id |-> m.id, outcome |-> outcome, ts |-> NoTs]})
        /\ UNCHANGED maxObserved

\* An answer to a request that is no longer known is dropped.
IgnoreResponse(m) ==
    /\ m.id \notin Ids(ongoing)
    /\ UNCHANGED <<ongoing, pending, answers, maxObserved>>

ReceiveMutationResponse(m) ==
    /\ linked
    /\ m.type = "MutationResponse"
    /\ \/ HoldSuccess(m)
       \/ m.ok /\ m.ts = NoTs /\ AnswerNow(m, "ok")
       \/ ~m.ok /\ AnswerNow(m, "error")
       \/ IgnoreResponse(m)
    /\ Drain(outgoing)
    /\ UNCHANGED <<queryVars, nextRequestId, remoteVersion, results, outstanding, views,
                   identityVars, linkVars>>

ReceiveActionResponse(m) ==
    /\ linked
    /\ m.type = "ActionResponse"
    /\ \/ m.ok /\ AnswerNow(m, "ok")
       \/ ~m.ok /\ AnswerNow(m, "error")
       \/ IgnoreResponse(m)
    /\ Drain(outgoing)
    /\ UNCHANGED <<queryVars, nextRequestId, remoteVersion, results, outstanding, views,
                   identityVars, linkVars>>

-----------------------------------------------------------------------------
(* Losing and opening a connection.                                        *)

\* Mutant: the requests are resent in any order.
AnyOrder(ids) ==
    {s \in UNION {[1..n -> ids] : n \in 0..nextRequestId} :
        /\ \A i, j \in DOMAIN s : i # j => s[i] # s[j]
        /\ \A x \in ids : \E i \in DOMAIN s : s[i] = x}

\* The strictly ascending enumerations of a set of request ids.
Ascending(ids) ==
    {s \in UNION {[1..n -> ids] : n \in 0..nextRequestId} :
        /\ \A i, j \in DOMAIN s : i < j => s[i] < s[j]
        /\ \A x \in ids : \E i \in DOMAIN s : s[i] = x}

\* Mutants: actions are resent like mutations; unsent actions are failed as
\* well; mutations are failed like actions.
LostNone(queue) == {}
LostAll(queue) == {r \in ongoing : r.kind = "Action"}
LostAnyKind(queue) == {r \in ongoing : r.id \notin ActionIds(queue)}

\* In-flight actions that left the queue may have run: they are not resent.
LostActions(queue) == {r \in ongoing : r.kind = "Action" /\ r.id \notin ActionIds(queue)}

KindOf(id) == (CHOOSE r \in ongoing : r.id = id).kind

AuthenticateFirst(token) == IF token = NoAuth THEN <<>> ELSE <<Authenticate(0, token)>>

\* Mutants: a query without a result is not restored; the version counter goes
\* on from the last connection.
RestoreAnswered ==
    LET answered == {q \in querySet : q.journal # NoJournal} IN
    IF answered = {} THEN <<>> ELSE <<ModifyQuerySet(0, {AddOf(q) : q \in answered}, {})>>
RestoreContinued ==
    IF querySet = {} THEN <<>>
    ELSE <<ModifyQuerySet(querySetVersion, {AddOf(q) : q \in querySet}, {})>>

RestoreQueries ==
    IF querySet = {} THEN <<>> ELSE <<ModifyQuerySet(0, {AddOf(q) : q \in querySet}, {})>>

Resend(s) == [i \in DOMAIN s |-> [type |-> KindOf(s[i]), id |-> s[i]]]

\* Mutant: the acknowledged version survives the connection.
RemoteAfterRestartKept == remoteVersion

RemoteAfterRestart == InitialVersion

\* begin_disconnect() and restart(refreshed): `token` is the identity after
\* it, the old one unless the fetcher returned another or auth was dropped.
Reconnect(token) ==
    LET lost == LostActions(outgoing) IN
    /\ linked' = FALSE
    /\ sent' = <<>>
    /\ auth' = token
    /\ identityVersion' = IF token = NoAuth THEN 0 ELSE 1
    /\ querySetVersion' = IF querySet = {} THEN 0 ELSE 1
    /\ remoteVersion' = RemoteAfterRestart
    /\ results' = {}
    /\ outstanding' = Ids(querySet)
    /\ ongoing' = ongoing \ lost
    /\ Complete({[id |-> r.id, outcome |-> "lost", ts |-> NoTs] : r \in lost})
    /\ \E s \in Ascending(Ids(ongoing \ lost)) :
           outgoing' = AuthenticateFirst(token) \o RestoreQueries \o Resend(s)
    /\ UNCHANGED <<nextQueryId, nextIndex, querySet, subs, nextRequestId, maxObserved, views,
                   connectionCount, transmitted>>

\* ws_close(), an inactive server, a failed connect, AuthError, FatalError or
\* a protocol error: none needs an open socket to have been seen.
Disconnect(token) == Reconnect(token)

\* ws_message() with a Transition that starts elsewhere: StartVersionMismatch.
RejectTransition(t, token) ==
    /\ linked
    /\ t.type = "Transition"
    /\ t.start # remoteVersion
    /\ Reconnect(token)

\* handle_open(): Connect goes out before whatever waited in the queue.
Open ==
    /\ ~linked
    /\ connectionCount < MaxConnections
    /\ linked' = TRUE
    /\ connectionCount' = connectionCount + 1
    /\ sent' = <<[type |-> "Connect", count |-> connectionCount, maxObserved |-> maxObserved]>>
               \o outgoing
    /\ outgoing' = <<>>
    /\ transmitted' = transmitted \cup ActionIds(outgoing)
    /\ UNCHANGED <<queryVars, requestVars, remoteVars, identityVars>>

-----------------------------------------------------------------------------
Init ==
    /\ nextQueryId = 0 /\ nextIndex = 0 /\ nextRequestId = 0
    /\ querySet = {} /\ querySetVersion = 0 /\ subs = {}
    /\ identityVersion = 0 /\ auth = NoAuth
    /\ remoteVersion = InitialVersion /\ results = {} /\ outstanding = {}
    /\ maxObserved = NoTs /\ views = {}
    /\ ongoing = {} /\ pending = {} /\ answers = {}
    /\ outgoing = <<>> /\ sent = <<>> /\ transmitted = {}
    /\ linked = FALSE /\ connectionCount = 0

User ==
    \/ \E q \in querySet : SubscribeShared(q)
    \/ \E t \in Tokens : SubscribeNew(t)
    \/ \E s \in subs : Unsubscribe(s)
    \/ \E kind \in {"Mutation", "Action"} : Request(kind)
    \/ \E token \in Identity : SetAuth(token)

Receive(m) ==
    \/ ApplyTransition(m)
    \/ \E token \in Identity : RejectTransition(m, token)
    \/ ReceiveMutationResponse(m)
    \/ ReceiveActionResponse(m)

Network ==
    \/ Open
    \/ \E token \in Identity : Disconnect(token)
    \/ \E m \in ServerMessages : Receive(m)

Next == User \/ Network

Spec == Init /\ [][Next]_vars

-----------------------------------------------------------------------------
(* Type invariant.                                                         *)

\* Every variable of the state machine and of its runtime has the type of the
\* C++ member it models, in every reachable state.
TypeOK ==
    /\ nextQueryId \in Nat /\ nextIndex \in Nat /\ nextRequestId \in Nat
    /\ querySet \subseteq LocalQuery
    /\ querySetVersion \in Nat /\ identityVersion \in Nat
    /\ auth \in Identity
    /\ remoteVersion \in StateVersion
    /\ results \subseteq [id : QueryId, at : Snapshot]
    /\ ongoing \subseteq PendingRequest
    /\ maxObserved \in Timestamp \cup {NoTs}
    /\ outstanding \subseteq QueryId
    /\ outgoing \in Seq(ClientMessage) /\ sent \in Seq(ClientMessage)
    /\ connectionCount \in Nat /\ linked \in BOOLEAN
    /\ subs \subseteq Subscription
    /\ pending \subseteq RequestId
    /\ transmitted \subseteq RequestId
    /\ views \subseteq [query : QueryId, index : Nat, at : Snapshot]
    /\ answers \subseteq Answer

-----------------------------------------------------------------------------
(* Queries and subscribers.                                                *)

SubscribersOf(q) == {s \in subs : s.query = q.id}

\* num_subscribers of base_client counts exactly the callbacks client_impl
\* holds for the query, over any order of subscribing, sharing, releasing and
\* reconnecting: no query is dropped under a subscriber and none outlives its
\* last one (base_client.cpp subscribe, unsubscribe; client.cpp do_subscribe).
RefCountExact ==
    /\ \A q \in querySet : q.num = Cardinality(SubscribersOf(q)) /\ q.num > 0
    /\ \A s \in subs : \E q \in querySet : q.id = s.query

\* What the client has told or is about to tell the server on the connection.
Script == sent \o outgoing

Modifies == {i \in DOMAIN Script : Script[i].type = "ModifyQuerySet"}

\* Replaying the ModifyQuerySet messages of a connection leaves the server
\* with exactly the client's query set, however subscribes, unsubscribes,
\* failed connection attempts and restarts are interleaved
\* (base_client.cpp restart, subscribe, unsubscribe).
ScriptYieldsQuerySet ==
    \A id \in 0..nextQueryId :
        id \in Ids(querySet) <=>
            /\ \E i \in Modifies : id \in Ids(Script[i].adds)
            /\ \A i \in Modifies : id \notin Script[i].removes

\* The ModifyQuerySet and Authenticate messages of a connection number their
\* versions 0, 1, 2, ... without a gap or a repeat and end at the client's own
\* version: the server refuses anything else (base_client.cpp restart resets
\* both counters, every sender bumps its own).
VersionChain ==
    /\ \A i \in Modifies :
          Script[i].base = Cardinality({j \in Modifies : j < i})
    /\ querySetVersion = Cardinality(Modifies)
    /\ LET auths == {i \in DOMAIN Script : Script[i].type = "Authenticate"} IN
          /\ \A i \in auths : Script[i].base = Cardinality({j \in auths : j < i})
          /\ identityVersion = Cardinality(auths)

-----------------------------------------------------------------------------
(* Requests.                                                               *)

\* Every request ever made is either still known to the state machine, with
\* its callback waiting, or has had its callback run exactly once: nobody
\* waits for a request that was forgotten and nobody is answered twice
\* (client.cpp pending against base_client.cpp ongoing_requests_).
Ledger ==
    /\ pending = Ids(ongoing)
    /\ pending \cap Ids(answers) = {}
    /\ pending \cup Ids(answers) = 0..(nextRequestId - 1)
    /\ \A a, b \in answers : a.id = b.id => a = b

\* A success is held only while the watermark has not reached it: nothing
\* that could be delivered is forgotten, in either order of the response and
\* the Transition (base_client.cpp flush_completed, both callers).
HeldBeyondWatermark ==
    \A r \in ongoing : r.completed => r.ts # NoTs /\ r.ts > remoteVersion.ts

\* An action is put on a wire at most once in the life of the client, over any
\* number of reconnects (base_client.cpp restart: "Actions are not idempotent:
\* fail them").
ActionsSentOnce ==
    [][\A i \in DOMAIN sent' \ DOMAIN sent :
          sent'[i].type = "Action" => sent'[i].id \notin transmitted]_vars

\* Only an action that was put on a wire is failed for a lost connection, and
\* the caller of a mutation never hears of one (base_client.cpp restart).
LostOnlyIfSent == \A a \in answers : a.outcome = "lost" => a.id \in transmitted
=============================================================================
