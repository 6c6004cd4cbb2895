--------------------------- MODULE PaginatedQuery ---------------------------
(***************************************************************************)
(* paginated_impl: a growing list built from live page subscriptions, with *)
(* page splitting, resets and results that arrive late or for pages that   *)
(* are gone.                                                               *)
(*                                                                         *)
(* The list on the server is a set of positions, a cursor is a position,   *)
(* and a page covers the positions after its cursor up to its end.  The    *)
(* client's delivery of page results is a queue: an event that is in it    *)
(* fires even if its subscription is dropped meanwhile.  Every operation   *)
(* calls on_update last, so an operation that on_update calls is an action *)
(* that follows.  Calls to subscribe() deliver no cached result here: the  *)
(* arguments of every page of a session differ.                            *)
(***************************************************************************)
EXTENDS Integers, Sequences, FiniteSets, SequencesExt, FiniteSetsExt

CONSTANTS
    ListEnd,            \* the cursor behind the last position of the list
    FirstItems,         \* the items the list starts with
    initial_num_items,
    LoadSizes,          \* sizes load_more() is called with
    ReadLimit,          \* the server reads at most so many items of a page
    SplitLimit,         \* it recommends to split pages with more items
    SplitPoints,        \* the positions it can name as a place to split at
    Commits,            \* the items a commit inserts, or deletes if they exist
    MaxIncidents,       \* bound: commits of changes to the list and failed page
                        \* queries, together
    MaxFaults,          \* bound: failed page queries
    MaxResets           \* bound: calls of reset() and set_args()

ASSUME PaginationAssumption ==
    /\ ListEnd \in Nat \ {0, 1}
    /\ FirstItems \subseteq 1..(ListEnd - 1)
    /\ initial_num_items \in Nat \ {0}
    /\ Commits \subseteq (SUBSET (1..(ListEnd - 1))) \ {{}}
    /\ LoadSizes \subseteq Nat \ {0}
    /\ ReadLimit \in Nat \ {0} /\ SplitLimit \in Nat \ {0}
    /\ SplitPoints \subseteq 1..(ListEnd - 1)
    /\ {MaxIncidents, MaxFaults, MaxResets} \subseteq Nat

Positions == 1..(ListEnd - 1)
Cursors == 0..ListEnd   \* 0 stands for an absent cursor: the beginning
None == -1              \* an absent end cursor or split cursor
NoResult == [kind |-> "none"]

VARIABLES
    pages,        \* pages: the active pages in result order
    splits,       \* splits: the splits in flight
    next_key,
    generation,
    stopped,
    queue,        \* page results on their way to on_page_result()
    list,         \* server: the items
    served,       \* server: for each page query, the end of its range (its
                  \* journal) and the result sent last
    changes, faults, resets   \* counters for the bounds

session == <<pages, splits, next_key>>
server == <<list, served>>
counters == <<changes, faults, resets>>
vars == <<session, generation, stopped, queue, server, counters>>

-----------------------------------------------------------------------------
(* The server.                                                             *)

\* The members of a finite set of numbers in increasing order.
InOrder(S) ==
    [n \in 1..Cardinality(S) |-> CHOOSE i \in S : Cardinality({j \in S : j < i}) = n - 1]

ItemsIn(from, to) == {i \in list : from < i /\ i <= to}

\* The end of a page that has none yet: after `num` items, or the list's end.
FirstEnd(p) ==
    LET rest == InOrder(ItemsIn(p.cursor, ListEnd)) IN
    IF Len(rest) < p.num THEN ListEnd ELSE rest[p.num]

\* Where a page ends as far as it is known: its own end, or its journal's.
KnownEnd(p) == IF p.end_cursor # None THEN p.end_cursor ELSE served[p.key].end

RangeEnd(p) == IF KnownEnd(p) # None THEN KnownEnd(p) ELSE FirstEnd(p)

\* A page too large to read comes back incomplete.  The server names its middle
\* as the place to split it, or cannot name one.
Evaluate(p, end) ==
    LET items == InOrder(ItemsIn(p.cursor, end))
        n == Len(items)
    IN [kind |-> "page",
        items |-> ToSet(SubSeq(items, 1, Min({n, ReadLimit}))),
        is_done |-> end = ListEnd,
        continue_cursor |-> end,
        split_cursor |-> IF n >= 2 /\ items[n \div 2] \in SplitPoints THEN items[n \div 2]
                         ELSE None,
        split_required |-> n > ReadLimit,
        split_recommended |-> n <= ReadLimit /\ n > SplitLimit]

Failure(kind) == [kind |-> kind]

-----------------------------------------------------------------------------
(* The session: pages, splits and next_key as one value S.                 *)

Here == [pages |-> pages, splits |-> splits, next_key |-> next_key]

Halves(S) == UNION {{S.splits[i].first, S.splits[i].second} : i \in DOMAIN S.splits}
Stored(S) == ToSet(S.pages) \cup Halves(S)
Keys(S) == {p.key : p \in Stored(S)}

\* find_page().
FindPage(S, key) == CHOOSE p \in Stored(S) : p.key = key

\* split_of_half(): the splits `key` is a half of.
SplitOfHalf(S, key) ==
    {i \in DOMAIN S.splits : key \in {S.splits[i].first.key, S.splits[i].second.key}}

IsSplitting(S, key) == \E i \in DOMAIN S.splits : S.splits[i].original = key

\* Results a page can be read from, and results that are errors.
Parsed(r) == r.kind = "page"
Failed(r) == r.kind \in {"error", "invalid"}

\* A page as subscribe_page() asks for it.
NewPage(key, cursor, end_cursor, num) ==
    [key |-> key, cursor |-> cursor, end_cursor |-> end_cursor, num |-> num, result |-> NoResult]

AddPage(S, num, cursor) ==
    [S EXCEPT !.pages = Append(@, NewPage(S.next_key + 1, cursor, None, num)),
              !.next_key = @ + 1]

\* do_reset(): the pages of a fresh session.
ResetSession ==
    AddPage([pages |-> <<>>, splits |-> <<>>, next_key |-> next_key], initial_num_items, 0)

\* Mutant: the first half starts at the beginning of the query.
StartSplitFromStart(S, p) ==
    LET r == p.result
        num == initial_num_items
    IN [S EXCEPT
          !.splits = Append(@, [original |-> p.key,
                first |-> NewPage(S.next_key + 1, 0, r.split_cursor, num),
                second |-> NewPage(S.next_key + 2, r.split_cursor, r.continue_cursor, num)]),
          !.next_key = @ + 2]

\* start_split(): two halves of the page's range are subscribed.
StartSplit(S, p) ==
    LET r == p.result
        num == initial_num_items
    IN [S EXCEPT
          !.splits = Append(@, [original |-> p.key,
                first |-> NewPage(S.next_key + 1, p.cursor, r.split_cursor, num),
                second |-> NewPage(S.next_key + 2, r.split_cursor, r.continue_cursor, num)]),
          !.next_key = @ + 2]

\* Mutant: only the size of a page counts.
WantsSplitLarge(S, p) ==
    /\ Parsed(p.result)
    /\ ~IsSplitting(S, p.key)
    /\ p.result.split_cursor # None
    /\ Cardinality(p.result.items) > 2 * initial_num_items

\* consider_split(): is the page to be split?
WantsSplit(S, p) ==
    /\ Parsed(p.result)
    /\ ~IsSplitting(S, p.key)
    /\ p.result.split_cursor # None
    /\ \/ p.result.split_required \/ p.result.split_recommended
       \/ Cardinality(p.result.items) > 2 * initial_num_items

ConsiderSplit(S, key) ==
    LET p == FindPage(S, key) IN IF WantsSplit(S, p) THEN StartSplit(S, p) ELSE S

\* The pages with page `original` replaced by two.
Swapped(ps, original, first, second) ==
    LET at == CHOOSE i \in DOMAIN ps : ps[i].key = original IN
    SubSeq(ps, 1, at - 1) \o <<first, second>> \o SubSeq(ps, at + 1, Len(ps))

\* Mutant: the halves replace the page as soon as one of them has loaded.
AdvanceSplitEarly(S, i) ==
    LET s == S.splits[i]
        rest == [S EXCEPT !.splits = RemoveAt(@, i)]
    IN IF Failed(s.first.result) \/ Failed(s.second.result) THEN rest
       ELSE [rest EXCEPT !.pages = Swapped(@, s.original, s.first, s.second)]

\* advance_split(): a failed half gives the split up; two loaded halves
\* replace the page, and may be split in their turn.
AdvanceSplit(S, i) ==
    LET s == S.splits[i]
        rest == [S EXCEPT !.splits = RemoveAt(@, i)]
        swapped == [rest EXCEPT !.pages = Swapped(@, s.original, s.first, s.second)]
    IN IF Failed(s.first.result) \/ Failed(s.second.result) THEN rest
       ELSE IF NoResult \in {s.first.result, s.second.result} THEN S
       ELSE ConsiderSplit(ConsiderSplit(swapped, s.first.key), s.second.key)

\* p->result = r.
WithResult(S, key, r) ==
    LET Put(p) == IF p.key = key THEN [p EXCEPT !.result = r] ELSE p
        PutHalves(s) == [s EXCEPT !.first = Put(@), !.second = Put(@)]
    IN [S EXCEPT !.pages = [i \in DOMAIN @ |-> Put(@[i])],
                 !.splits = [i \in DOMAIN @ |-> PutHalves(@[i])]]

-----------------------------------------------------------------------------
(* compute_snapshot().                                                     *)

\* Mutant: an incomplete page is shown as far as it goes.
ShowableIncomplete(p) == Parsed(p.result)

\* A page the snapshot goes past.
Showable(p) == Parsed(p.result) /\ ~p.result.split_required

\* How many pages the snapshot shows.
Shown == Max({k \in 0..Len(pages) : \A i \in 1..k : Showable(pages[i])})

Results == FlattenSeq([i \in 1..Shown |-> InOrder(pages[i].result.items)])

Status ==
    IF Shown = Len(pages)
    THEN IF pages # <<>> /\ Last(pages).result.is_done THEN "exhausted" ELSE "can_load_more"
    ELSE LET r == pages[Shown + 1].result IN
         IF r.kind \notin {"page", "none"} THEN "error"
         ELSE IF Results = <<>> THEN "loading_first_page"
         ELSE "loading_more"

-----------------------------------------------------------------------------
(* Operations.                                                             *)

\* The session becomes S: what is new is subscribed, what is gone dropped.
Become(S) ==
    /\ pages' = S.pages /\ splits' = S.splits /\ next_key' = S.next_key
    /\ served' = [k \in Keys(S) |-> IF k \in DOMAIN served THEN served[k]
                                    ELSE [end |-> None, told |-> NoResult]]

\* load_more().
LoadMore(num) ==
    /\ ~stopped
    /\ Status = "can_load_more"
    /\ Become(AddPage(Here, num, Last(pages).result.continue_cursor))
    /\ UNCHANGED <<generation, stopped, queue, list, counters>>

\* reset(), or set_args() with other arguments than before.
Reset ==
    /\ ~stopped
    /\ resets < MaxResets
    /\ generation' = generation + 1
    /\ Become(ResetSession)
    /\ resets' = resets + 1
    /\ UNCHANGED <<stopped, queue, list, changes, faults>>

\* stop(): the helper is destroyed.
Stop ==
    /\ ~stopped
    /\ stopped' = TRUE
    /\ Become([pages |-> <<>>, splits |-> <<>>, next_key |-> next_key])
    /\ UNCHANGED <<generation, queue, list, counters>>

\* on_page_result() of a page that is gone.
IgnoreResult ==
    LET e == Head(queue) IN
    /\ stopped \/ e.generation # generation \/ e.key \notin Keys(Here)
    /\ UNCHANGED <<session, generation, served>>

\* on_page_result() with InvalidCursor.
ResetOnResult ==
    LET e == Head(queue) IN
    /\ ~stopped /\ e.generation = generation /\ e.key \in Keys(Here)
    /\ e.result.kind = "invalid"
    /\ generation' = generation + 1
    /\ Become(ResetSession)

\* on_page_result(): the result is stored and may advance or start a split.
StoreResult ==
    LET e == Head(queue)
        half == SplitOfHalf(Here, e.key)
    IN /\ ~stopped /\ e.generation = generation /\ e.key \in Keys(Here)
       /\ e.result.kind # "invalid"
       /\ \E S \in {WithResult(Here, e.key, e.result)} :
             \/ half = {} /\ \E T \in {ConsiderSplit(S, e.key)} : Become(T)
             \/ \E T \in {AdvanceSplit(S, i) : i \in half} : Become(T)
       /\ UNCHANGED generation

OnPageResult ==
    /\ queue # <<>>
    /\ IgnoreResult \/ ResetOnResult \/ StoreResult
    /\ queue' = Tail(queue)
    /\ UNCHANGED <<stopped, list, counters>>

-----------------------------------------------------------------------------
(* The server's part.                                                      *)

Event(key, result) == [generation |-> generation, key |-> key, result |-> result]

\* A Transition: the queries the server knows are brought up to date, and some
\* of the new ones are answered for the first time, in any order.  now[k] is what
\* the query of page k evaluates to, up to end[k].
Transition ==
    LET new == {k \in DOMAIN served : served[k].told = NoResult} IN
    \E page \in {[k \in DOMAIN served |-> FindPage(Here, k)]} :
    \E end \in {[k \in DOMAIN served |-> RangeEnd(page[k])]} :
    \E now \in {[k \in DOMAIN served |-> Evaluate(page[k], end[k])]} :
    \E first \in SUBSET new :
    \E sent \in {{k \in DOMAIN served \ new : served[k].told # now[k]} \cup first} :
    \E order \in SetToSeqs(sent) :
        /\ sent # {}
        /\ queue' = queue \o [i \in DOMAIN order |-> Event(order[i], now[order[i]])]
        /\ served' = [k \in DOMAIN served |->
                        IF k \in sent THEN [end |-> now[k].continue_cursor, told |-> now[k]]
                        ELSE served[k]]
        /\ UNCHANGED <<session, generation, stopped, list, counters>>

\* A page query fails, or returns something that is no PaginationResult.
Fault(k, kind) ==
    /\ faults < MaxFaults /\ changes + faults < MaxIncidents
    /\ queue' = Append(queue, Event(k, Failure(kind)))
    /\ served' = [served EXCEPT ![k].told = Failure(kind)]
    /\ faults' = faults + 1
    /\ UNCHANGED <<session, generation, stopped, list, changes, resets>>

\* Somebody inserts and deletes items, in one commit.
Change(items) ==
    /\ changes + faults < MaxIncidents
    /\ list' = SymDiff(list, items)
    /\ changes' = changes + 1
    /\ UNCHANGED <<session, generation, stopped, queue, served, faults, resets>>

-----------------------------------------------------------------------------
Init ==
    /\ pages = <<NewPage(1, 0, None, initial_num_items)>>
    /\ splits = <<>>
    /\ next_key = 1
    /\ generation = 0
    /\ stopped = FALSE
    /\ queue = <<>>
    /\ list = FirstItems
    /\ served = [k \in {1} |-> [end |-> None, told |-> NoResult]]
    /\ changes = 0 /\ faults = 0 /\ resets = 0

Next ==
    \/ \E num \in LoadSizes : LoadMore(num)
    \/ Reset
    \/ Stop
    \/ OnPageResult
    \/ Transition
    \/ \E k \in DOMAIN served, kind \in {"error", "invalid", "malformed"} : Fault(k, kind)
    \/ \E items \in Commits : Change(items)

Spec == Init /\ [][Next]_vars

\* The server brings queries up to date and the client delivers what came.
FairSpec == Spec /\ WF_vars(Transition) /\ WF_vars(OnPageResult)

-----------------------------------------------------------------------------
\* The list is gapless and duplicate-free at every moment: each page starts
\* where the one before it ends, through loads, splits and late results.
Seamless ==
    \A i \in DOMAIN pages :
        IF i = 1 THEN pages[i].cursor = 0
        ELSE KnownEnd(pages[i - 1]) = pages[i].cursor

\* The position up to which the snapshot shows the list.
ShownEnd == IF Shown = 0 THEN 0 ELSE pages[Shown].result.continue_cursor

\* The snapshot has no hole: once the pages it shows are up to date, it holds
\* every item up to where it ends, in order.
ListIsPrefix ==
    (\A i \in 1..Shown : pages[i].result = Evaluate(pages[i], RangeEnd(pages[i]))) =>
        Results = InOrder(ItemsIn(0, ShownEnd))

\* What is on display stays there: only a reset, an error or a page that
\* became incomplete makes the shown part of the list shorter, never a split.
SplitsKeepTheView ==
    [][/\ generation' = generation /\ ~stopped'
       /\ \A p \in ToSet(pages') : p.result = NoResult \/ Showable(p)
       => ShownEnd' >= ShownEnd]_vars

\* The snapshot ends before a page too large to read which the server cannot
\* split: the list goes on loading until a later result replaces it.
Waiting ==
    /\ Shown < Len(pages)
    /\ LET r == pages[Shown + 1].result IN
           Parsed(r) /\ r.split_required /\ r.split_cursor = None

\* While page queries succeed, the list gets out of every loading state, but for
\* a page it can only wait for (paginated.h).  (A page whose half failed stays as
\* it is until its query changes again.)
EventuallyLoaded ==
    <>[](stopped \/ faults > 0 \/ Waiting \/ Status \in {"can_load_more", "exhausted"})
=============================================================================
