# A TLA+ model of convex-cpp

convex-cpp is a C++ client for a Convex deployment. A program subscribes to
queries and is called back with every new result, and requests mutations and
actions, over one websocket that the client reopens when it fails. This
directory models the parts of the client that keep state, checks them with TLC
on small instances, and proves some of the results with TLAPS for all instances.

Line numbers refer to files below `src/` of the repository; `map` in
`PROJECT.json` gives, for every definition, the lines it stands for.

## 1. Inventory

| Component | State | Operations | Interacts with |
|---|---|---|---|
| `base_client` (`src/base_client.cpp`) | query set with reference counts and journals, results, requests in flight or held, versions, identity, outgoing queue | `subscribe`, `unsubscribe`, `mutation`, `action`, `set_auth`, `receive_message`, `restart`, `make_connect_message`, `pop_next_message` | called by `client_impl` under `mu`; does no I/O |
| `client_impl` (`src/client.cpp`) | `mu`; connection, generation, timers, garbage, listeners, callbacks, event queue | public calls, transport callbacks, worker thread, `shutdown` | transport, `base_client`, user callbacks |
| `transition_chunk_assembler` (`src/protocol.cpp`) | parts of one split Transition | `feed`, `abandon` | `ws_message`, `begin_disconnect` |
| `paginated_query` (`src/paginated.cpp`) | pages, splits in flight, generation, arguments | `load_more`, `reset`, `set_args`, destruction, page results | subscriptions of `client` |
| authentication recovery (`client.cpp` 277-296, 498-505) | token, fetcher, count of consecutive AuthErrors | `do_set_auth`, AuthError, `begin_disconnect` | `base_client`, user's fetcher |
| event delivery (`client.cpp` 137-145, 298-351, 507-549) | event queue, events a thread has collected | `deliver`, `deliver_later`, `process_events` | all threads, user callbacks |
| one-shot query (`client.cpp` 615-635) | handle held by its own callback | `query` | subscriptions, event delivery |
| wire codec (`protocol.cpp`, `json_codec.cpp`, `value.cpp`) | none | encode, decode | strings |
| `http_client`, file storage | authorization header | one request, one callback | `http_transport` |
| bundled transport (`transports/ixwebsocket`) | a socket and its thread | `connect`, `send_text`, destruction | `websocket_observer` |
| sync server, network (external) | database, sessions, journals | reads requests, sends Transitions and responses | the client |

What is hard, and what makes each part right:

- **base_client** must survive any number of reconnects without forgetting,
  repeating or reordering what it must not: mutations are sent again in order,
  actions never, a mutation's success is held until its effect is visible, and
  the query set the server is told is exactly the live one.
- **client_impl** runs a worker, a transport thread per connection and the
  user's threads. It releases its lock around `connect()`, around deliveries and
  around the destruction of connections, so each of these can find the world
  changed. Late callbacks are told apart by a generation number.
- **event delivery** collects callbacks under the lock and runs them after it, on
  up to five threads: none may be lost or run twice, also while the client is
  destroyed, and a completion must not overtake the results it waited for.
- **authentication recovery** replaces tokens while answers about older ones are
  on their way; it must not hammer the server, nor give up in silence.
- **the wire codec** must read what was said, and end the connection over what
  was not said properly.
- **the assembler** must not join parts of different Transitions, nor refuse a
  good one because of what came before.
- **paginated_query** keeps a list without gaps or duplicates from pages that
  change independently, while pages are split, reset and dropped.

`PROJECT.json` lists every hazard at its line, with the properties that would
catch it or the reason none does yet.

## 2. The modules

| Module | Models | State and actions |
|---|---|---|
| `BaseClient` | `base_client`, with `subs`, `pending` and `drain_outgoing` of `client_impl` | one action per critical section of `client_impl`: a call of the state machine and the drain that follows it. The server is unconstrained: any message of `ServerMessages` may come at any time |
| `RequestPromise` | what `base_client` promises the callers of mutations and actions | open requests, answers, the horizon results have reached; no queues, no reconnects |
| `BaseClientPromise` | the refinement mapping from `BaseClient` to `RequestPromise` | |
| `MCBaseClient` | | the server messages of the two runs |
| `SyncSession` | `BaseClient` composed with a server and a network | each connection is an ordered channel each way; frames in flight when it is lost may still arrive; the server checks versions, runs a mutation once per id and answers from a database that is a clock |
| `ClientRuntime` | threads, connection life cycle and shutdown of `client_impl` | the worker's loop, transport callbacks in their start, critical section and delivery, `~client` in the steps between which others run |
| `EventDelivery` | results, completions and one-shot queries from the critical section that produces them to the thread that runs them | what each thread has in hand, the event queue, the handles; `~client` step by step |
| `AuthRecovery` | token, fetcher and AuthErrors over reconnects, with an external server | the client's calls and handlers, the server's judgement of each token |
| `TransitionChunks` | the assembler and its uses | one action per outcome of `feed`, one for other messages, one for the end of a connection |
| `WireBytes` | base64 and the integers written in it (`base64.cpp`, `json_codec.cpp`) | operators |
| `WireValues` | Convex values as JSON (`json_codec.cpp`) | recursive operators |
| `WireMessages` | messages in both directions (`protocol.cpp`), results of HTTP responses (`http_client.cpp`, `file_storage.cpp`) | operators: the checks of a decoder in their order, and what it reads if none fails. The codec of values is a constant of this module |
| `Wire` | `ws_message` from the frame to the assembler, composed of `TransitionChunks` and `WireMessages` | a frame received, a message sent, an HTTP answer |
| `MCWire` | | values and messages of the run, with `WireValues` for the codec |
| `PaginatedQuery` | `paginated_impl` with an external server | a page result, a call or a Transition per action; page results travel in the client's event queue |
| `BaseClient_proofs`, `BaseClientPromise_proofs`, `SyncSession_proofs`, `ClientRuntime_proofs`, `EventDelivery_proofs`, `AuthRecovery_proofs`, `PaginatedQuery_proofs`, `Wire_proofs` | | theorems about the modules they are named for; `Wire_proofs` has those about `TransitionChunks` too |

Abstractions worth knowing:

- Query paths with arguments are tokens; results are named by the execution
  that computed them; errors and values are both results.
- `QueryUpdated` and `QueryFailed` differ in the result only and are one
  modification, except in the wire modules. AuthError, FatalError, protocol
  errors, a close and inactivity all end in `Disconnect` of `BaseClient`.
- Integers of `BaseClient` are unbounded. The ids of the code have 32 bits.
- `ClientRuntime` leaves out what `BaseClient` does inside a critical section,
  except the state events. `mu` is a variable only because `shutdown` keeps it
  while it waits; all other critical sections are single actions. A connection's
  thread makes its callbacks one at a time, and destroying the connection waits
  for the one that runs, as `transport.h` demands and the bundled transport does.
  `silent` says that the inactivity threshold has passed, `due` that the backoff
  has.
- `EventDelivery` has one query whose results are numbered and forgets versions
  and reconnect timing. The thread of a connection and the worker each collect
  one batch of events at a time, and a thread that delivers takes no further
  step before it is done. Who destroys the one connection modelled is part of it:
  the worker, without `mu`; `~client` after the worker is joined, without `mu`
  if it is the connection in use and under `mu` if it is retired; each
  waits for the connection's thread. `blocked` says that this thread stands in
  `deliver()` and waits for `mu`. `overtaken` marks the subscribers for which the
  documented promise does not hold (section 6).
- `AuthRecovery` keeps the Authenticate messages that `set_auth` queues while there is
  no connection: they are sent behind the one a restart begins with. It leaves out the
  identity versions (they are `BaseClient`'s) and lets a fetcher return any token, none,
  or `nullopt`. Its server judges tokens in the order they come and sends no Transition
  on a connection before it has judged the token that came with Connect.
- The wire modules take a document to be a JSON tree: the text itself is
  nlohmann's. Words have 16 bits instead of 64 and ids count modulo `U32` = 4, so
  that signs, special doubles, padding and wrap-around all happen. The server is
  external: it writes the documents that the structs of `protocol.h` describe,
  with optional members absent or null, sends back values it was sent, and
  damages some documents by leaving out a required member or giving one a type
  it cannot have. An optional `baseVersion` with a fraction is not among them.
- `PaginatedQuery` has a list of positions; a cursor is a position and a page
  the positions between two cursors. That the server pins the end of a page once
  it was read (the journal) is taken from how `paginated.cpp` relies on it. It names
  the middle of a page as the place to split it if that is one of `SplitPoints`, and
  none otherwise: `paginated.h` 30-36 lets a page be incomplete without one. The
  results of one Transition come in any order.
  Arguments of different pages of a session differ, so `subscribe` never has a
  cached result to deliver inside the call; `on_update` is the last step of every
  operation, so what it calls is simply the next action.

## 3. The runs

| Run | Shows | Bounds |
|---|---|---|
| `base_queries` | reference counts, rebuilt query set, version chain | 2 queries, 3 subscriptions, 2 connections, 7 Transitions in and out of order |
| `base_requests` | `BaseClient` implements `RequestPromise`; ledger of requests, delivery against the watermark, actions sent once | 3 requests, 2 connections, answers with every relevant timestamp |
| `session_views` | client and server never disagree on the query set, versions, results or journals; views never go back; read your writes | 1 query, 2 subscriptions, a token, 1 request, 2 connections, clock to 2 |
| `session_requests` | commit order and truthful answers, with frames of lost connections still arriving | 3 requests, 2 connections |
| `session_liveness` | requests are answered, subscribers served | 1 query, 1 request, 2 connections |
| `runtime` | Connect once per connection, no missed deadline, nothing left after `~client`; the client gets connected, retired connections are destroyed | 3 attempts, both delivery modes, shutdown at any point |
| `delivery` | every request is answered once whatever the destructor interrupts; completions after the results they wait for; subscribers end with the latest result; one-shot queries leave; the destructor returns, unless it waits for a lock it holds (section 6) | 1 subscription, 1 one-shot query, 1 action, 2 results, both delivery modes, five threads |
| `auth` | the client keeps its token or says that it gave up, stops being rejected, and comes to agree with the server | 2 tokens, 3 calls of `set_auth`, 2 lost connections |
| `wire` | what is said is what is read, in both directions; the codec keeps values of every kind; malformed frames end the connection; only whole Transitions are assembled; one result per HTTP call | 2 split Transitions of up to 3 parts; the values and messages of `MCWire`, each with every required member missing or wrong |
| `pages` | seamless pages, list without holes; a split takes nothing from view; incomplete pages are repaired and the list leaves its loading states, unless the server names no place to split | 4 positions, the last filled at first; commits that fill or empty the first, the first two, or the second and third; read limit 2, splits recommended above 1, at the second or third position; 2 commits, or 1 and a failed query; 1 reset |

Two connections are enough for a frame, an answer or a callback to be late by
one; the third attempt of `ClientRuntime` lets a superseded attempt meet a
failing one. Three subscribers on two queries are the fewest with a shared query
next to another one. In `delivery` two results are enough for one to overtake the
other, and the one request is an action, which both an answer and a lost
connection can complete. In `auth` the third `set_auth` can meet the rejection of
the first while the second is on its way. With a read limit of 2 a page
outgrows it after one commit. If the commit filled the first two positions, the
server cannot split the page and the list waits until a second commit makes the page
smaller or moves its middle; if it filled the second and third, the page is split and
its second half, which begins inside the list, is split again.

In `wire`, sending and HTTP are bounded to the states in which nothing was
received, because they depend on nothing that was.

Deadlock is checked in `base_queries`, `base_requests`, `auth` and `wire`, where
some operation must always be possible. The other runs end where their bounds
do, or where the client is destroyed.

Two runs end in a counterexample to something the repository says; `findings`
in `PROJECT.json` quotes it.

| Run | What happens |
|---|---|
| `runtime_observer` | `garbage` destroys the observer before the connection that calls it |
| `runtime_shutdown` | `shutdown` destroys a connection under the lock its thread waits for |

## 4. The abstract specification

`RequestPromise` says what a caller may rely on: a request is answered once; a
success with a timestamp is told only when the results shown have reached it;
losing the connection fails exactly the open actions that were put on a wire.
`BaseClientPromise` maps `ongoing` to the open requests (held or not),
`transmitted` to the actions at risk, and the timestamp of `remoteVersion` to the
horizon. The mapping needs one assumption about the server, `ForwardAssumption`:
no Transition goes back in time. `KeepsPromise` is a property of
`base_requests`: every step of `BaseClient`, also a restart, is a step of the
promise or changes nothing of it.

## 5. Fairness

- `SyncSession`: weak fairness of opening a connection (the worker retries for
  ever), of delivering what the socket received, and of the server reading and
  answering. Losing a connection has no fairness and is bounded.
- `ClientRuntime`: weak fairness of the worker, of callbacks, of deliveries and
  of time; a dialing socket is opened or closed (`transport.h`: the observer
  "gets on_open() or on_close()"). Destroying a connection has strong fairness:
  its thread is between two callbacks infinitely often, and `stop()` lets it run
  no further then. The last attempt does not fail (`MayFail`): without this bound
  a network that never works would refute everything.
- `EventDelivery`: weak fairness of every thread that has begun to deliver or to
  subscribe, of `process_events`, of the worker's destruction of the connections it
  has collected, and of the destructor once it has begun. No
  fairness for messages, calls, or for destroying the client at all.
- `AuthRecovery`: weak fairness of opening a connection, of handling what was
  received and of the server judging tokens. No fairness for Transitions,
  expiring tokens, `set_auth` or lost connections.
- `PaginatedQuery`: weak fairness of Transitions and of delivering page results.

## 6. Where code and description differ

Besides the two findings, one more way in which `~client` does not return, although
`client.h` 80-84 says that it does. It destroys two things under `mu` whose destruction
needs `mu`. `garbage.clear()` destroys retired connections, whose threads may wait for
`mu` in a callback or in `deliver()`: that is the finding of `runtime_shutdown`.
`subs.clear()` (client.cpp 531) may destroy the last copy of a one-shot query's callback,
and the handle in it unsubscribes: a client destroyed while a `query()` is unanswered
locks itself out. In `EventDelivery` both can happen, in `BeginShutdown` and in `Drain`.
`DeliveryCompletes` excepts them by name (`Deadlocked`, `LockedOut`) and fails
without either exception: in every other case the destructor that has begun returns
and all that was produced is run.

What else was seen while modelling follows. Those with a property in brackets are
stated by it as an exception: in the run it holds in all other cases.

- A one-shot query answered before `subscribe()` has returned releases an empty
  handle and stays subscribed (`OneShotLeaves`).
- A cached result that `do_subscribe` delivers can be overtaken by a newer one;
  the subscriber is left with the older result (`QuietIsCurrent`).
- The detached dispatcher of a protocol error in immediate mode may run after
  the destructor has returned (`AnsweredOnce`).
- `errorData` that is no Convex value throws `codec_error`, though `protocol.h`
  202 names `protocol_error`; nothing in `ws_message` catches it
  (`MalformedEndsConnection`).
- `store_file` calls a callback that throws a second time (`OneHttpResult`).
- An AuthError about a token that `set_auth` has replaced counts against the new
  one. `HeldOrTold` allows it, since the listeners are told.
- The client accepts a Transition that the server computed before it had read
  the restored query set. With such a server a held mutation would be released
  while the views are older than its commit; the server of `SyncSession` reads
  the query set first (`Restored`).
- `base_client::unsubscribe` counts an id that was dropped before
  (`client::subscription` never drops one twice).
- `base64_decode` takes `"=AAA"` and `"A==="`, though `base64.h` says that it
  throws on malformed input; ids of messages are read modulo 2^32; a string that
  is not UTF-8 makes `dump()` throw in the middle of a handler.
- An incomplete page without a split cursor keeps the list loading until a later
  result replaces it. That is documented (`paginated.h` 30-36) and tested;
  `EventuallyLoaded` excepts it (`Waiting`).
- The status `loading_first_page` is also given when the first page has a result
  that cannot be shown yet.
- A callback of a subscription that was collected before `unsubscribe()` runs
  after it has returned.

## 7. What is proved

All theorems hold for every value of the constants that meets the named
assumptions of the modules. Where the server is not bound by a run's constants
(`AnyNext`), they hold for any messages it may send.

`BaseClient_proofs`:

- `TypeCorrect`: `TypeOK`, action by action. It rests on lemmas about
  what a drain, a delivery and a rebuilt queue return.
- `LedgerKept`, `NothingOverdue`: both follow from `RequestInv`, which adds to
  `Ledger` and `HeldBeyondWatermark` that no two open requests share an id.
  Without this, settling one request could settle another.
- `LostWasSent`: from `WireInv`: the actions in the queue are none of those
  transmitted, and every open action is in one of the two places, so the ones a
  restart fails are transmitted.
- `TransmittedOnce`: an action property; a step that puts an action on a wire
  takes it from the queue, and `WireInv` says that the queue holds no action that
  was transmitted.
- `CountsExact`: from `QueryInv`: ids of queries and subscriptions are handed out
  in order and never again, so no two share one and no count is taken for
  another's.
- `VersionsFollowOn`, `ServerLearnsQuerySet`: from `ScriptInv`, about the script of
  a connection: what was sent on it and what is queued. Its versions are a chain
  from 0 to the present ones, and what it adds and does not remove is the query
  set. This needs that an id that was removed never comes back, and `QueueInv`:
  an open connection leaves nothing in the queue.

`BaseClientPromise_proofs`: `PromiseKept`, the refinement `KeepsPromise`. Each
action is shown to be a step of `RequestPromise` or to leave its variables alone;
`RequestInv` and `WireInv` say which.

`SyncSession_proofs`, for any number of queries, requests, connections and late frames:

- `ServerContent`, `ClientInStep`: from `ServerInv` (what the server knows is what
  the first frames of the script say) and `StreamInv` (the Transitions in flight
  lead from the client's version to the server's).
- `ExactInStep`, `JournalsCurrent`: from `TalkInv` (each Transition in flight
  changes what the server has told to what the script says at its version) and
  `ResultInv` (the results are those of the query set the client's version
  acknowledges, each with the journal its query holds).
- `WritesAreRead`, `NeverBackInTime`: `FloorInv`, a server that has handled a frame
  sends nothing older than Connect demanded; `PresentInv`, once a Transition has
  come all results and snapshots are of its timestamp; `SeenInv`, what users have
  seen was observed, so every Connect demands it; `HandInv`, what two users have
  been told agrees.
- `CommitsInOrder`, `AnswersHappened`: from four invariants of the requests.
  `KindsInv`: a request keeps its kind wherever it is, so that the id of a
  mutation is never taken for that of an action. `RunsInv`: an action that waits
  at the server waits at one place and has not run. `TruthInv`: responses on their
  way, held successes and answers tell of what has run, with its outcome.
  `OrderInv`: the mutations not yet run come, wherever a connection holds them,
  after all that have, and the earlier in front of the later, also among the
  frames of connections that are gone.

`ClientRuntime_proofs`: `ConnectOnce`, `DeadlinesMet` and `DestructorComplete` from
`RuntimeInv`: only the newest attempt can have the current generation, and while it
has, the connection is in use, being attached, or scheduled to be replaced; Connect
follows the handling of `on_open`; whatever exists has somebody who will destroy it,
and a thread that may call back belongs to a connection that exists.

`EventDelivery_proofs`, for any number of subscriptions, requests and results:

- `AnsweredAlways`: from `ThreadInv` (what each thread can be in as `~client` goes on:
  the thread of a connection that is destroyed has nothing in hand) and `AnswerInv`: a
  request made is in exactly one place: it waits, is in the queue, in one thread's hand,
  or done, and each of them completes it once.
- `OneShotsLeave`: from `SubsInv` (entries of `subs` are of different listeners and
  go with the handle) and `OnceInv` (a one-shot callback that ran leaves the release
  of its handle behind).
- `EffectsBeforeSuccess`, `CurrentWhenQuiet`: from `OrderInv`. Its parts:
  `PlaceInv`, results of messages and successes travel only by the connection's
  thread, the queue and the thread that runs the queue, so they stay in order;
  `RisingInv`, along that way a subscription is told of newer and newer results,
  and a result that `subscribe` found is the oldest it is ever called with;
  `EffectInv`, before a success each subscription is told of a result as new, has
  been, or is never called with an older one (`Settled`: one that subscribed
  later); `LatestInv`, the latest result is on its way to every subscription or
  has come to it; `BoundInv`, nothing on its way is newer than the newest.

`Wire_proofs`, for any messages, damage, transitions and parts:

- Of the assembler, `Invariant` proves an inductive invariant that says of the parts
  held that they are the first of one Transition (`Held`), and that they are just
  what a correct server has sent (`InStep`). `OnlyWholeTransitions` needs the first,
  `CorrectServerAccepted` the second.
- `Base64RoundTrip`: every sequence of bytes is read back from its text, whatever
  padding it ends with; `IntegerRoundTrip`, and `WordRoundTrip` for timestamps and
  doubles, follow.
- `EverythingUnderstood` is the invariant of `WireSpec` that the next three rest on:
  what went over the wire last is a frame that was read as what it means or refused
  as its damage deserves (`FrameFine`), a message of the client, or an answer with
  its result (`AnswerFine`). Its proof is about the decoder. A list of checks throws
  what the first that fails throws (`OutcomePasses`), so a document is refused with
  `protocol_error` unless it is `Readable` (`MessageVerdict`). Each struct of
  `protocol.h` is written as a document that is readable and read as itself
  (`MessageRead`), and each member left out or replaced by garbage makes the document
  unreadable, at whatever depth it sits (`DamagedRefused`).
- `WhatIsSaidIsRead` (`SaidAndRead`) adds that no two messages of the client have the
  same text (`MessagesApart`). `DamageEndsConnection` is `MalformedEndsConnection`,
  `EveryCallAnsweredOnce` is `OneHttpResult`.
- `WireImplementsChunks`: `WireSpec` implements the `Spec` of `TransitionChunks`: what
  decoded frames do to the assembler is what that module allows. `FramesAssembled`
  carries the two properties of the assembler over.

The theorems about `WireSpec` rest on two named assumptions. `WireAssumption` says that
the messages are those of the structs of `protocol.h`. `CodecAssumption` says of the
codec of values that it reads what it wrote as the same value; the codec recurs over
values that nest to any depth, so the run `wire` supplies the one of `WireValues` and
evaluates the assumption for values of every kind, nested ones among them. What the
theorems add is all that `protocol.cpp`, `http_client.cpp` and `file_storage.cpp` make
of values.

`AuthRecovery_proofs`: `HeldOrToldAlways` and `NoHammeringAlways`, for any number
of connections, tokens and calls. `AuthInv` adds two facts to the properties:
once the listeners are told, no token is held or on the wire, no AuthError in the inbox
and no fetcher left, so nothing can be rejected again; and the rejections since
the last fresh start are the ones `consecutive_auth_errors` has counted, which
bounds them.

`PaginatedQuery_proofs`, for a list of any length and any number of loads, splits,
Transitions, commits and restarts:

- `PagesAreSeamless`: `Seamless`, from `SeamInv`. A page's place in the list is fixed
  by its cursor, the end its journal remembers and the cursors its results told, and
  a load or a split goes by a result that may be older than everything else. So
  `SeamInv` speaks of every copy of a result, the one a page holds (`PageOK`) and
  those still in the event queue (`QueueOK`): each `Fits` its page, its continue cursor
  is the end the server has for the page, and a split cursor it names lies inside. The
  rest could break this: keys are handed out once (`KeysUnique`, `KeysGiven`), the two
  halves of a split under way cover what one page of the list covers (`SplitsOK`), each
  page starts where the one before it ends (`SeamsOK`), and the server remembers an end
  for just the pages stored.
- `TheViewIsKept`: `SplitsKeepTheView`. The ends of the pages rise along the list, so a
  page has one place; halves take a page's place only when both hold a result, and the
  second ends where the page did. The list shown is cut nowhere by the exchange.
- `SnapshotIsPrefix`: `ListIsPrefix`. The library defines `FlattenSeq` by a recursive
  function inside a LET, which the proof replaces by an explicit witness;
  the positions of adjacent ranges, counted in order, are the positions of their
  union in order; and pages that meet and start at the first position make a prefix.

For these proofs the module states the order of a range of positions by counting
(`InOrder`) rather than by sorting, hands `Evaluate` its end as a parameter, and
binds what a Transition evaluates by quantifiers; the behaviours are those it had.
For those about the wire, base64 has a module of its own, apart from the recursive
operators, and the codec of values is a constant that the run replaces by them.

Only model-checked:

- The codec of values, `CodecAssumption`: values nest to any depth and are encoded,
  printed and read by the recursive operators of `WireValues`; what those return for
  every value is an induction over data, which the prover cannot do.
- Every liveness property: `[]<>` and `~>` under fairness need ENABLED.

## 8. What is not modelled

- JSON text and numbers as text (nlohmann), URLs and headers of requests,
  `canonicalize_udf_path`, the accessors and comparisons of `value`: they put
  together or take apart one string or one object and keep no state.
- `http_client::set_auth`, which stores one header; `as_future` and the other
  overloads that return a future, which fulfil a promise from a callback that is
  modelled.
- The lengths of backoff and inactivity intervals: only that they pass. Log
  listeners: they change nothing.
- Sockets and TLS of the bundled transport (ixwebsocket), of which only what
  `transport.h` asks of a transport is used.
- Examples, scripts, tests, generated and vendored code.

## 9. Plan

The plan of modules, runs and theorems is carried out. What would extend it:

1. The wire codec for every value. It needs the recursive operators of `WireValues`
   as functions on a set of values of bounded depth, and a prover that can apply the
   library's theorem of induction.
2. Several paginated queries of one client at once, which meet in the query set:
   `PaginatedQuery` has one, beside the queries of `SyncSession`.
3. The hazards that no property covers, for which `PROJECT.json` says why.
