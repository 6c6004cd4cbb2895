------------------------ MODULE PaginatedQuery_proofs ------------------------
(***************************************************************************)
(* What holds of a paginated query for every value of the constants: any   *)
(* list and any changes to it, any limits of the server, any number of     *)
(* pages, splits, resets and failures, results as late as they may be.     *)
(***************************************************************************)
EXTENDS PaginatedQuery, TLAPS, SequenceTheorems, FiniteSetTheorems, FunctionTheorems,
        WellFoundedInduction

Ends == Cursors \cup {None}

\* What comes back for a page, as on_page_result() tells results apart.
GoodResult ==
    [kind : {"page"}, items : SUBSET Positions, is_done : BOOLEAN,
     continue_cursor : Cursors, split_cursor : Ends,
     split_required : BOOLEAN, split_recommended : BOOLEAN]

PageAnswer == GoodResult \cup [kind : {"error", "invalid", "malformed"}]
PageResult == PageAnswer \cup {NoResult}

Page ==
    [key : Nat, cursor : Cursors, end_cursor : Ends, num : Nat \ {0}, result : PageResult]

PendingSplit == [original : Nat, first : Page, second : Page]

Session == [pages : Seq(Page), splits : Seq(PendingSplit), next_key : Nat]

PageEvent == [generation : Nat, key : Nat, result : PageAnswer]

Journal == [end : Ends, told : PageResult]

-----------------------------------------------------------------------------
(* The inductive invariant.  sv stands for the journals of the server.     *)

\* Where a page ends: KnownEnd() with the journals as a parameter.
EndIn(sv, p) == IF p.end_cursor # None THEN p.end_cursor ELSE sv[p.key].end

\* A result of page p goes with its journal: once the page has an end, every
\* result ends there, and is cut inside the page.
Fits(sv, p, r) ==
    Parsed(r) =>
        /\ r.continue_cursor = EndIn(sv, p)
        /\ r.split_cursor # None =>
              p.cursor <= r.split_cursor /\ r.split_cursor <= r.continue_cursor

\* A page that is subscribed: the server has a journal for it if it needs one.
PageOK(sv, p) ==
    /\ p.end_cursor = None => p.key \in DOMAIN sv
    /\ EndIn(sv, p) \in Ends
    /\ EndIn(sv, p) # None => p.cursor <= EndIn(sv, p)
    /\ Fits(sv, p, p.result)

\* The halves of a split cover what page q covers.
Covers(sv, s, q) ==
    /\ s.original = q.key
    /\ s.first.cursor = q.cursor
    /\ s.first.end_cursor = s.second.cursor
    /\ s.second.end_cursor = EndIn(sv, q)
    /\ s.second.end_cursor # None

\* A key is a page's for ever.
KeysUnique(S) == \A p, q \in Stored(S) : p.key = q.key => p = q

KeysGiven(S) == \A p \in Stored(S) : p.key <= S.next_key

\* A split replaces a page of the list, and no page is split twice at a time.
SplitsOK(S, sv) ==
    /\ \A i \in DOMAIN S.splits : \E q \in ToSet(S.pages) : Covers(sv, S.splits[i], q)
    /\ \A i, j \in DOMAIN S.splits : S.splits[i].original = S.splits[j].original => i = j

\* Each page starts where the one before it ends.
SeamsOK(ps, sv) ==
    \A i \in DOMAIN ps :
        IF i = 1 THEN ps[i].cursor = 0 ELSE EndIn(sv, ps[i - 1]) = ps[i].cursor

SessionOK(S, sv) ==
    /\ S \in Session
    /\ KeysUnique(S) /\ KeysGiven(S)
    /\ \A p \in Stored(S) : PageOK(sv, p)
    /\ SplitsOK(S, sv)
    /\ SeamsOK(S.pages, sv)

\* Results on their way fit the pages they are for.
QueueOK ==
    \A i \in DOMAIN queue :
        /\ queue[i].key <= next_key
        /\ \A p \in Stored(Here) :
              p.key = queue[i].key => Fits(served, p, queue[i].result)

ServerOK ==
    /\ list \subseteq Positions
    /\ served \in [Keys(Here) -> Journal]

TypeOK ==
    /\ generation \in Nat /\ stopped \in BOOLEAN
    /\ queue \in Seq(PageEvent)
    /\ changes \in Nat /\ faults \in Nat /\ resets \in Nat

SeamInv ==
    /\ TypeOK
    /\ SessionOK(Here, served)
    /\ QueueOK
    /\ ServerOK
    /\ ~stopped => pages # <<>>

-----------------------------------------------------------------------------
(* Numbers in order.                                                       *)

\* The elements of a finite set of integers below one of them.
Below(S, i) == {j \in S : j < i}

\* Counting them numbers the set in its order, from 0 and without a gap.
LEMMA Ranks ==
    ASSUME NEW S \in SUBSET Int, IsFiniteSet(S), NEW n, n = Cardinality(S)
    PROVE  /\ n \in Nat
           /\ \A i \in S : Cardinality(Below(S, i)) \in 0..(n - 1)
           /\ \A i, j \in S : i < j => Cardinality(Below(S, i)) < Cardinality(Below(S, j))
           /\ \A k \in 0..(n - 1) : \E i \in S : Cardinality(Below(S, i)) = k
<1>1. n \in Nat
    BY FS_CardinalityType
<1>2. ASSUME NEW T, IsFiniteSet(T), NEW i \in T, NEW R \in SUBSET T, i \notin R
      PROVE  Cardinality(R) \in Nat /\ Cardinality(T) \in Nat /\ Cardinality(R) < Cardinality(T)
    <2>1. /\ IsFiniteSet(T \ {i}) /\ Cardinality(T \ {i}) = Cardinality(T) - 1
          /\ Cardinality(T) \in Nat
        BY <1>2, FS_RemoveElement, FS_CardinalityType
    <2>2. R \in SUBSET (T \ {i})
        BY <1>2
    <2>3. IsFiniteSet(R) /\ Cardinality(R) <= Cardinality(T \ {i})
        BY <2>1, <2>2, FS_Subset
    <2> QED
        BY <2>1, <2>3, FS_CardinalityType
<1>3. ASSUME NEW i \in S PROVE Cardinality(Below(S, i)) \in 0..(n - 1)
    <2>1. Below(S, i) \in SUBSET S /\ i \notin Below(S, i)
        BY DEF Below
    <2> QED
        BY <1>1, <1>2, <2>1
<1>4. ASSUME NEW i \in S, NEW j \in S, i < j
      PROVE  Cardinality(Below(S, i)) < Cardinality(Below(S, j))
    <2>0. i \in Int /\ j \in Int /\ ~(i < i) /\ \A x \in S : x < i => x < j
        BY <1>4
    <2>1. /\ Below(S, i) \in SUBSET Below(S, j) /\ i \in Below(S, j) /\ i \notin Below(S, i)
          /\ Below(S, j) \in SUBSET S
        BY <1>4, <2>0 DEF Below
    <2>2. IsFiniteSet(Below(S, j))
        BY <2>1, FS_Subset
    <2> QED
        BY <1>2, <2>1, <2>2
<1> DEFINE r == [i \in S |-> Cardinality(Below(S, i))]
<1>5. r \in Injection(S, 0..(n - 1))
    <2>1. r \in [S -> 0..(n - 1)]
        BY <1>3
    <2>2. \A i, j \in S : r[i] = r[j] => i = j
        BY <1>3, <1>4
    <2> HIDE DEF r
    <2> QED
        BY <2>1, <2>2 DEF Injection, IsInjective
<1>6. r \in Surjection(S, 0..(n - 1))
    <2>0. n - 1 \in Int /\ (0 > n - 1 => n = 0) /\ (n - 1) - 0 + 1 = n
        BY <1>1
    <2>1. IsFiniteSet(0..(n - 1)) /\ Cardinality(0..(n - 1)) = n
        BY ONLY <2>0, FS_Interval
    <2> HIDE DEF r
    <2> QED
        BY <1>5, <2>1, FS_Injection
<1> QED
    BY <1>1, <1>3, <1>4, <1>6 DEF Surjection

\* The n-th number of a set in order has n - 1 below it, and no other number has.
LEMMA InOrderRanks ==
    ASSUME NEW S \in SUBSET Nat, IsFiniteSet(S)
    PROVE  /\ Cardinality(S) \in Nat
           /\ DOMAIN InOrder(S) = 1..Cardinality(S)
           /\ \A k \in 1..Cardinality(S) :
                 InOrder(S)[k] \in S /\ Cardinality(Below(S, InOrder(S)[k])) = k - 1
           /\ \A k \in 1..Cardinality(S), i \in S :
                 Cardinality(Below(S, i)) = k - 1 => InOrder(S)[k] = i
<1>0. S \in SUBSET Int
    OBVIOUS
<1> PICK n \in Nat : n = Cardinality(S)
    BY FS_CardinalityType
<1> PICK s : s = InOrder(S)
    OBVIOUS
<1>1. s = [k \in 1..n |-> CHOOSE i \in S : Cardinality(Below(S, i)) = k - 1]
    BY DEF InOrder, Below
<1>2. /\ \A i \in S : Cardinality(Below(S, i)) \in 0..(n - 1)
      /\ \A i, j \in S : i < j => Cardinality(Below(S, i)) < Cardinality(Below(S, j))
      /\ \A k \in 0..(n - 1) : \E i \in S : Cardinality(Below(S, i)) = k
    BY <1>0, Ranks
<1>3. ASSUME NEW k \in 1..n
      PROVE  s[k] \in S /\ Cardinality(Below(S, s[k])) = k - 1
    <2>1. k - 1 \in 0..(n - 1)
        OBVIOUS
    <2>2. \E i \in S : Cardinality(Below(S, i)) = k - 1
        BY <1>2, <2>1
    <2>3. s[k] = CHOOSE i \in S : Cardinality(Below(S, i)) = k - 1
        BY <1>1
    <2> QED
        BY <2>2, <2>3
<1>4. ASSUME NEW k \in 1..n, NEW i \in S, Cardinality(Below(S, i)) = k - 1 PROVE s[k] = i
    <2>1. PICK j : j = s[k]
        OBVIOUS
    <2>2. j \in S /\ Cardinality(Below(S, j)) = k - 1
        BY <1>3, <2>1
    <2>3. Cardinality(Below(S, i)) \in Int /\ Cardinality(Below(S, j)) = Cardinality(Below(S, i))
        BY <1>4, <2>2
    <2>4. ~(j < i) /\ ~(i < j)
        BY <1>2, <2>2, <2>3
    <2>5. i \in Int /\ j \in Int
        BY <2>2
    <2> QED
        BY <2>1, <2>4, <2>5
<1> QED
    BY <1>1, <1>3, <1>4

\* A set in order: each element once.
LEMMA InOrderProperties ==
    ASSUME NEW S \in SUBSET Nat, IsFiniteSet(S)
    PROVE  /\ Cardinality(S) \in Nat
           /\ InOrder(S) \in Seq(S) /\ InOrder(S) \in Seq(Nat)
           /\ Len(InOrder(S)) = Cardinality(S)
           /\ DOMAIN InOrder(S) = 1..Cardinality(S)
           /\ \A k \in 1..Cardinality(S) : InOrder(S)[k] \in S
           /\ \A i \in S : \E k \in 1..Cardinality(S) : InOrder(S)[k] = i
<1>0. S \in SUBSET Int
    OBVIOUS
<1> PICK n \in Nat : n = Cardinality(S)
    BY FS_CardinalityType
<1> PICK s : s = InOrder(S)
    OBVIOUS
<1>1. /\ DOMAIN s = 1..n
      /\ \A k \in 1..n : s[k] \in S
      /\ \A k \in 1..n, i \in S : Cardinality(Below(S, i)) = k - 1 => s[k] = i
    BY InOrderRanks
<1>2. ASSUME NEW i \in S PROVE \E k \in 1..n : s[k] = i
    <2>1. Cardinality(Below(S, i)) \in 0..(n - 1)
        BY <1>0, Ranks
    <2>2. PICK k \in 1..n : k = Cardinality(Below(S, i)) + 1
        BY <2>1
    <2>3. Cardinality(Below(S, i)) = k - 1
        BY <2>1, <2>2
    <2> QED
        BY <1>1, <2>3
<1>3. s = [k \in 1..n |-> CHOOSE i \in S : Cardinality({j \in S : j < i}) = k - 1]
    BY DEF InOrder
<1>4. s \in [1..n -> S]
    BY <1>1, <1>3
<1>5. s \in Seq(S) /\ Len(s) = n /\ s \in Seq(Nat)
    <2>1. s \in [1..n -> Nat]
        BY <1>4
    <2> QED
        BY <1>4, <2>1, SeqDef, LenProperties
<1> QED
    BY <1>1, <1>2, <1>5

AllBelow(A, B) == \A x \in A, y \in B : x < y

\* Numbers that are all below some others come before them.
LEMMA InOrderConcat ==
    ASSUME NEW A \in SUBSET Nat, IsFiniteSet(A), NEW B \in SUBSET Nat, IsFiniteSet(B),
           AllBelow(A, B)
    PROVE  InOrder(A \cup B) = InOrder(A) \o InOrder(B)
<1>a. PICK U \in SUBSET Nat : U = A \cup B
    OBVIOUS
<1>1. A \cap B = {}
    <2>1. \A x \in A : x \in Nat /\ ~(x < x)
        OBVIOUS
    <2> QED
        BY <2>1 DEF AllBelow
<1>b. PICK m \in Nat : m = Cardinality(A)
    BY FS_CardinalityType
<1>c. PICK n \in Nat : n = Cardinality(B)
    BY FS_CardinalityType
<1>2. /\ IsFiniteSet(U) /\ Cardinality(U) = m + n
      /\ \A R \in SUBSET B : IsFiniteSet(R) /\ Cardinality(A \cup R) = m + Cardinality(R)
    <2>1. ASSUME NEW R \in SUBSET B
          PROVE  /\ IsFiniteSet(R) /\ IsFiniteSet(A \cup R)
                 /\ Cardinality(A \cup R) = m + Cardinality(R)
        <3>1. IsFiniteSet(R) /\ Cardinality(R) \in Nat
            BY FS_Subset, FS_CardinalityType
        <3>2. A \cap R = {} /\ Cardinality({}) = 0
            BY <1>1, FS_EmptySet
        <3>3. /\ IsFiniteSet(A \cup R)
              /\ Cardinality(A \cup R) = Cardinality(A) + Cardinality(R) - Cardinality(A \cap R)
            BY <3>1, FS_Union
        <3>4. Cardinality(A \cup R) = m + Cardinality(R) - 0
            BY <1>b, <3>2, <3>3
        <3> QED
            BY <3>1, <3>3, <3>4
    <2> QED
        BY <1>a, <1>c, <2>1
<1>3. ASSUME NEW i \in A PROVE Below(U, i) = Below(A, i)
    <2>1. \A y \in B : i < y /\ i \in Nat /\ y \in Nat
        BY DEF AllBelow
    <2>2. \A y \in B : ~(y < i)
        BY <2>1
    <2> QED
        BY <1>a, <2>2 DEF Below
<1>4. ASSUME NEW i \in B
      PROVE  /\ Cardinality(Below(B, i)) \in Nat
             /\ Cardinality(Below(U, i)) = m + Cardinality(Below(B, i))
    <2>1. Below(U, i) = A \cup Below(B, i) /\ Below(B, i) \in SUBSET B
        BY <1>a DEF Below, AllBelow
    <2> QED
        BY <1>2, <2>1, FS_CardinalityType
<1>d. PICK a : a = InOrder(A)
    OBVIOUS
<1>e. PICK b : b = InOrder(B)
    OBVIOUS
<1>f. PICK u : u = InOrder(U)
    OBVIOUS
<1>5. /\ a \in Seq(Nat) /\ Len(a) = m /\ DOMAIN a = 1..m
      /\ \A k \in 1..m : a[k] \in A /\ Cardinality(Below(A, a[k])) = k - 1
    BY <1>b, <1>d, InOrderProperties, InOrderRanks
<1>6. /\ b \in Seq(Nat) /\ Len(b) = n /\ DOMAIN b = 1..n
      /\ \A k \in 1..n : b[k] \in B /\ Cardinality(Below(B, b[k])) = k - 1
    BY <1>c, <1>e, InOrderProperties, InOrderRanks
<1>7. /\ u \in Seq(Nat) /\ Len(u) = m + n /\ DOMAIN u = 1..(m + n)
      /\ \A k \in 1..(m + n), i \in U : Cardinality(Below(U, i)) = k - 1 => u[k] = i
    BY <1>a, <1>b, <1>c, <1>2, <1>f, InOrderProperties, InOrderRanks
<1>8. ASSUME NEW k \in 1..m PROVE u[k] = a[k]
    <2>1. PICK i \in A : i = a[k]
        BY <1>5
    <2>2. Cardinality(Below(A, i)) = k - 1
        BY <1>5, <2>1
    <2>3. Cardinality(Below(U, i)) = k - 1 /\ i \in U
        BY <1>a, <1>3, <2>1, <2>2
    <2>4. k \in 1..(m + n)
        BY <1>b, <1>c
    <2> QED
        BY <1>7, <2>1, <2>3, <2>4
<1>9. ASSUME NEW k \in 1..n PROVE u[m + k] = b[k]
    <2>1. PICK i \in B : i = b[k]
        BY <1>6
    <2>2. Cardinality(Below(B, i)) = k - 1
        BY <1>6, <2>1
    <2>3. Cardinality(Below(U, i)) = m + (k - 1) /\ i \in U
        BY <1>a, <1>4, <2>1, <2>2
    <2>4. m + k \in 1..(m + n) /\ m + (k - 1) = (m + k) - 1
        BY <1>b, <1>c
    <2> QED
        BY <1>7, <2>1, <2>3, <2>4
<1>g. PICK c : c = a \o b
    OBVIOUS
<1>10. /\ c \in Seq(Nat) /\ Len(c) = m + n
       /\ \A k \in 1..(m + n) : c[k] = IF k <= m THEN a[k] ELSE b[k - m]
    BY <1>5, <1>6, <1>g, ConcatProperties
<1>11. ASSUME NEW k \in 1..(m + n) PROVE u[k] = c[k]
    <2>1. CASE k <= m
        BY <1>8, <1>10, <2>1
    <2>2. CASE ~(k <= m)
        <3>1. PICK j \in 1..n : j = k - m /\ k = m + j
            BY <2>2
        <3> QED
            BY <1>9, <1>10, <2>2, <3>1
    <2> QED
        BY <2>1, <2>2
<1> QED
    BY <1>a, <1>d, <1>e, <1>f, <1>g, <1>7, <1>10, <1>11, SeqEqual

-----------------------------------------------------------------------------
(* What the server makes of a page.                                        *)

\* The items of a range are finitely many positions.
LEMMA ItemsOK ==
    ASSUME list \subseteq Positions, NEW from \in Cursors, NEW to \in Cursors
    PROVE  /\ ItemsIn(from, to) \in SUBSET Nat /\ IsFiniteSet(ItemsIn(from, to))
           /\ ItemsIn(from, to) \subseteq Positions
           /\ \A i \in ItemsIn(from, to) : i \in Cursors /\ from <= i /\ i <= to
<1>1. ListEnd \in Nat
    BY PaginationAssumption
<1>2. ItemsIn(from, to) \in SUBSET Positions
    BY DEF ItemsIn
<1>3. IsFiniteSet(Positions)
    BY <1>1, FS_Interval DEF Positions
<1>4. \A i \in Positions : i \in Nat /\ i \in Cursors
    BY <1>1 DEF Positions, Cursors
<1>5. \A i \in ItemsIn(from, to) : i \in Nat /\ from <= i /\ i <= to
    BY <1>1, <1>2, <1>4 DEF ItemsIn, Cursors
<1> QED
    BY <1>2, <1>3, <1>4, <1>5, FS_Subset

\* A page that has no end gets one at or behind its start.
LEMMA FirstEndOK ==
    ASSUME list \subseteq Positions, NEW p \in Page
    PROVE  FirstEnd(p) \in Cursors /\ p.cursor <= FirstEnd(p)
<1>1. ListEnd \in Cursors /\ p.cursor \in Cursors /\ p.cursor <= ListEnd /\ p.num \in Nat \ {0}
    BY PaginationAssumption DEF Cursors, Page
<1>2. PICK S : S = ItemsIn(p.cursor, ListEnd)
    OBVIOUS
<1>3. /\ S \in SUBSET Nat /\ IsFiniteSet(S)
      /\ \A i \in S : i \in Cursors /\ p.cursor <= i
    BY <1>1, <1>2, ItemsOK
<1>4. PICK rest : rest = InOrder(S)
    OBVIOUS
<1>5. /\ Len(rest) \in Nat
      /\ \A k \in 1..Len(rest) : rest[k] \in S
    BY <1>3, <1>4, InOrderProperties
<1>6. FirstEnd(p) = IF Len(rest) < p.num THEN ListEnd ELSE rest[p.num]
    BY <1>2, <1>4 DEF FirstEnd
<1>7. CASE Len(rest) < p.num
    BY <1>1, <1>6, <1>7
<1>8. CASE ~(Len(rest) < p.num)
    <2>1. p.num \in 1..Len(rest)
        BY <1>1, <1>5, <1>8
    <2> QED
        BY <1>3, <1>5, <1>6, <1>8, <2>1
<1> QED
    BY <1>7, <1>8

\* An evaluation ends where the page ends: at the end it has, or at a first one.
LEMMA RangeEndOK ==
    ASSUME list \subseteq Positions, NEW p \in Page, PageOK(served, p)
    PROVE  /\ RangeEnd(p) \in Cursors /\ p.cursor <= RangeEnd(p)
           /\ EndIn(served, p) # None => RangeEnd(p) = EndIn(served, p)
<1>1. KnownEnd(p) = EndIn(served, p)
    BY DEF KnownEnd, EndIn
<1>2. EndIn(served, p) \in Ends /\ (EndIn(served, p) # None => p.cursor <= EndIn(served, p))
    BY DEF PageOK
<1>3. FirstEnd(p) \in Cursors /\ p.cursor <= FirstEnd(p)
    BY FirstEndOK
<1> QED
    BY <1>1, <1>2, <1>3 DEF RangeEnd, Ends

\* The smaller of two numbers.
LEMMA MinOfTwo ==
    ASSUME NEW m \in Nat, NEW n \in Nat
    PROVE  Min({m, n}) = IF m <= n THEN m ELSE n
<1> DEFINE S == {m, n}
<1>1. PICK x \in S : \A y \in S : x =< y
    <2>1. m <= n \/ n <= m
        OBVIOUS
    <2> QED
        BY <2>1
<1>2. Min(S) \in S /\ \A y \in S : Min(S) =< y
    BY <1>1 DEF Min
<1> QED
    BY <1>2

\* A page comes back as it is up to the limit, and is cut inside its range.
LEMMA EvaluateOK ==
    ASSUME list \subseteq Positions, NEW p \in Page, NEW end \in Cursors, NEW r,
           r = Evaluate(p, end)
    PROVE  /\ r \in GoodResult /\ Parsed(r)
           /\ r.continue_cursor = end
           /\ r.split_cursor # None => p.cursor <= r.split_cursor /\ r.split_cursor <= end
           /\ ~r.split_required => r.items = ItemsIn(p.cursor, end)
<1>1. PICK S : S = ItemsIn(p.cursor, end)
    OBVIOUS
<1>2. /\ S \in SUBSET Nat /\ IsFiniteSet(S) /\ S \subseteq Positions
      /\ \A i \in S : i \in Cursors /\ p.cursor <= i /\ i <= end
    BY <1>1, ItemsOK DEF Page
<1>3. PICK items : items = InOrder(S)
    OBVIOUS
<1>4. PICK n \in Nat : n = Len(items)
    BY <1>2, <1>3, InOrderProperties
<1>5. /\ \A k \in 1..n : items[k] \in S
      /\ \A i \in S : \E k \in 1..n : items[k] = i
    BY <1>2, <1>3, <1>4, InOrderProperties
<1>6. PICK m \in 0..n : m = Min({n, ReadLimit}) /\ (n <= ReadLimit => m = n)
    <2>1. ReadLimit \in Nat
        BY PaginationAssumption
    <2> QED
        BY <1>4, <2>1, MinOfTwo
<1>7. PICK part : part = SubSeq(items, 1, m)
    OBVIOUS
<1>8. /\ DOMAIN part = 1..m /\ \A k \in 1..m : part[k] = items[k] /\ items[k] \in S
    <2>1. m \in Int /\ 1 \in Int /\ \A k \in 1..m : k \in 1..n
        BY <1>6
    <2>2. \A k \in 1..m : items[k] \in S
        BY <1>5, <2>1
    <2>3. /\ part \in Seq(S)
          /\ Len(part) = IF 1 <= m THEN m - 1 + 1 ELSE 0
          /\ \A k \in 1..(m - 1 + 1) : part[k] = items[1 + k - 1]
        BY <1>7, <2>1, <2>2, SubSeqProperties
    <2>4. Len(part) = m
        BY <1>6, <2>3
    <2> QED
        BY <2>1, <2>2, <2>3, <2>4, LenProperties
<1>9. PICK I : I = ToSet(part)
    OBVIOUS
<1>10. I \in SUBSET S /\ (n <= ReadLimit => I = S)
    <2>1. I = {part[k] : k \in 1..m}
        BY <1>8, <1>9 DEF ToSet
    <2>2. I \in SUBSET S
        BY <1>8, <2>1
    <2>3. ASSUME m = n, NEW i \in S PROVE i \in I
        <3>1. PICK k \in 1..n : items[k] = i
            BY <1>5
        <3> QED
            BY <1>8, <2>1, <2>3, <3>1
    <2> QED
        BY <1>6, <2>2, <2>3
<1>11. r = [kind |-> "page",
            items |-> I,
            is_done |-> end = ListEnd,
            continue_cursor |-> end,
            split_cursor |-> IF n >= 2 /\ items[n \div 2] \in SplitPoints
                             THEN items[n \div 2] ELSE None,
            split_required |-> n > ReadLimit,
            split_recommended |-> n <= ReadLimit /\ n > SplitLimit]
    BY <1>1, <1>3, <1>4, <1>6, <1>7, <1>9 DEF Evaluate
<1>12. r.split_cursor \in Ends
       /\ (r.split_cursor # None => p.cursor <= r.split_cursor /\ r.split_cursor <= end)
    <2>1. CASE n >= 2 /\ items[n \div 2] \in SplitPoints
        <3>1. n \div 2 \in 1..n
            BY <2>1
        <3>2. items[n \div 2] \in S
            BY <1>5, <3>1
        <3>3. r.split_cursor = items[n \div 2]
            BY <1>11, <2>1
        <3> QED
            BY <1>2, <3>2, <3>3 DEF Ends
    <2>2. CASE ~(n >= 2 /\ items[n \div 2] \in SplitPoints)
        <3>1. r.split_cursor = None
            BY <1>11, <2>2
        <3> QED
            BY <3>1 DEF Ends
    <2> QED
        BY <2>1, <2>2
<1>13. r.items \in SUBSET Positions
    BY <1>2, <1>10, <1>11
<1>14. r \in GoodResult /\ Parsed(r) /\ r.continue_cursor = end
    <2>1. (end = ListEnd) \in BOOLEAN /\ (n > ReadLimit) \in BOOLEAN
          /\ (n <= ReadLimit /\ n > SplitLimit) \in BOOLEAN
        OBVIOUS
    <2> QED
        BY <1>11, <1>12, <1>13, <2>1 DEF GoodResult, Parsed
<1>15. ~r.split_required => r.items = S
    <2>1. ReadLimit \in Nat
        BY PaginationAssumption
    <2>2. r.split_required = (n > ReadLimit) /\ r.items = I
        BY <1>11
    <2>3. ASSUME ~r.split_required PROVE n <= ReadLimit
        <3>1. ~(n > ReadLimit)
            BY <2>2, <2>3
        <3> QED
            BY <1>4, <2>1, <3>1
    <2> QED
        BY <1>10, <2>2, <2>3
<1> QED
    BY <1>1, <1>12, <1>14, <1>15

-----------------------------------------------------------------------------
(* Sessions.                                                               *)

\* What find_page() can find: the pages and the halves of splits.
LEMMA StoredIs ==
    ASSUME NEW S, NEW p
    PROVE  p \in Stored(S) <=>
              \/ \E i \in DOMAIN S.pages : p = S.pages[i]
              \/ \E i \in DOMAIN S.splits : p = S.splits[i].first \/ p = S.splits[i].second
<1>1. p \in ToSet(S.pages) <=> \E i \in DOMAIN S.pages : p = S.pages[i]
    BY DEF ToSet
<1>2. p \in Halves(S)
      <=> \E i \in DOMAIN S.splits : p = S.splits[i].first \/ p = S.splits[i].second
    BY DEF Halves
<1> QED
    BY <1>1, <1>2 DEF Stored

\* Pages and splits of a session are well-formed.
LEMMA SessionTypes ==
    ASSUME NEW S \in Session
    PROVE  /\ Len(S.pages) \in Nat /\ DOMAIN S.pages = 1..Len(S.pages)
           /\ Len(S.splits) \in Nat /\ DOMAIN S.splits = 1..Len(S.splits)
           /\ S.pages \in Seq(Page) /\ S.splits \in Seq(PendingSplit) /\ S.next_key \in Nat
           /\ \A i \in DOMAIN S.pages : S.pages[i] \in Page /\ S.pages[i] \in Stored(S)
           /\ \A i \in DOMAIN S.splits :
                 /\ S.splits[i] \in PendingSplit
                 /\ S.splits[i].first \in Page /\ S.splits[i].first \in Stored(S)
                 /\ S.splits[i].second \in Page /\ S.splits[i].second \in Stored(S)
           /\ \A p \in Stored(S) : p \in Page
<1>1. S.pages \in Seq(Page) /\ S.splits \in Seq(PendingSplit) /\ S.next_key \in Nat
    BY DEF Session
<1>2. /\ Len(S.pages) \in Nat /\ DOMAIN S.pages = 1..Len(S.pages)
      /\ Len(S.splits) \in Nat /\ DOMAIN S.splits = 1..Len(S.splits)
    BY <1>1, LenProperties
<1>3. \A i \in DOMAIN S.pages : S.pages[i] \in Page /\ S.pages[i] \in Stored(S)
    BY <1>1, <1>2, ElementOfSeq, StoredIs
<1>4. \A i \in DOMAIN S.splits :
         /\ S.splits[i] \in PendingSplit
         /\ S.splits[i].first \in Page /\ S.splits[i].first \in Stored(S)
         /\ S.splits[i].second \in Page /\ S.splits[i].second \in Stored(S)
    <2> TAKE i \in DOMAIN S.splits
    <2>1. S.splits[i] \in PendingSplit
        BY <1>1, <1>2, ElementOfSeq
    <2> QED
        BY <2>1, StoredIs DEF PendingSplit
<1>5. \A p \in Stored(S) : p \in Page
    BY <1>3, <1>4, StoredIs
<1> QED
    BY <1>1, <1>2, <1>3, <1>4, <1>5

\* Two pages of one range.
SameRange(p, q) == p.key = q.key /\ p.cursor = q.cursor /\ p.end_cursor = q.end_cursor

\* How ends become known: a page that has one keeps it.
Grown(S, sv, sw) ==
    \A q \in Stored(S) :
        /\ q.end_cursor = None => q.key \in DOMAIN sw
        /\ EndIn(sw, q) \in Ends
        /\ EndIn(sw, q) # None => q.cursor <= EndIn(sw, q)
        /\ EndIn(sv, q) # None => EndIn(sw, q) = EndIn(sv, q)

\* A result that fits its page's journal fits it ever after.
LEMMA FitsGrown ==
    ASSUME NEW sv, NEW sw, NEW p, NEW r \in PageResult, Fits(sv, p, r),
           EndIn(sv, p) # None => EndIn(sw, p) = EndIn(sv, p)
    PROVE  Fits(sw, p, r)
<1> SUFFICES ASSUME Parsed(r) PROVE Fits(sw, p, r)
    BY DEF Fits
<1>1. r \in GoodResult
    BY DEF PageResult, PageAnswer, Parsed, NoResult
<1>2. r.continue_cursor # None
    BY <1>1, PaginationAssumption DEF GoodResult, Cursors, None
<1> QED
    BY <1>2 DEF Fits

\* A session that fits the journals fits them when more pages have ends.
LEMMA SessionGrown ==
    ASSUME NEW S, NEW sv, NEW sw, SessionOK(S, sv), Grown(S, sv, sw)
    PROVE  SessionOK(S, sw)
<1>1. S \in Session /\ KeysUnique(S) /\ KeysGiven(S)
    BY DEF SessionOK
<1>2. ASSUME NEW p \in Stored(S) PROVE PageOK(sw, p)
    <2>1. PageOK(sv, p) /\ p \in Page
        BY <1>1, <1>2, SessionTypes DEF SessionOK
    <2>2. Fits(sw, p, p.result)
        BY <1>2, <2>1, FitsGrown DEF PageOK, Grown, Page
    <2> QED
        BY <1>2, <2>2 DEF PageOK, Grown
<1>3. SplitsOK(S, sw)
    <2>1. ASSUME NEW i \in DOMAIN S.splits
          PROVE  \E q \in ToSet(S.pages) : Covers(sw, S.splits[i], q)
        <3>1. PICK q \in ToSet(S.pages) : Covers(sv, S.splits[i], q)
            BY <2>1 DEF SessionOK, SplitsOK
        <3>2. q \in Stored(S)
            BY <3>1 DEF Stored
        <3>3. EndIn(sv, q) # None /\ EndIn(sw, q) = EndIn(sv, q)
            BY <3>1, <3>2 DEF Covers, Grown
        <3>4. Covers(sw, S.splits[i], q)
            BY <3>1, <3>3 DEF Covers
        <3> QED
            BY <3>1, <3>4
    <2> QED
        BY <2>1 DEF SessionOK, SplitsOK
<1>4. SeamsOK(S.pages, sw)
    <2>1. ASSUME NEW i \in DOMAIN S.pages, i # 1
          PROVE  EndIn(sw, S.pages[i - 1]) = S.pages[i].cursor
        <3>1. i - 1 \in DOMAIN S.pages
            BY <1>1, <2>1, SessionTypes
        <3>2. S.pages[i] \in Page /\ S.pages[i - 1] \in Stored(S)
            BY <1>1, <2>1, <3>1, SessionTypes
        <3>3. EndIn(sv, S.pages[i - 1]) = S.pages[i].cursor
            BY <2>1 DEF SessionOK, SeamsOK
        <3>4. EndIn(sv, S.pages[i - 1]) # None
            BY <3>2, <3>3, PaginationAssumption DEF Page, Cursors, None
        <3> QED
            BY <3>2, <3>3, <3>4 DEF Grown
    <2> QED
        BY <2>1 DEF SessionOK, SeamsOK
<1> QED
    BY <1>1, <1>2, <1>3, <1>4 DEF SessionOK

\* A session that came of S: its pages are pages of S, or new ones.
Follows(S, T) ==
    /\ S.next_key <= T.next_key
    /\ \A q \in Stored(T) :
          \/ \E p \in Stored(S) : SameRange(p, q)
          \/ q.key > S.next_key

\* Coming of is transitive.
LEMMA FollowsOn ==
    ASSUME NEW R \in Session, NEW S \in Session, NEW T \in Session, Follows(R, S), Follows(S, T)
    PROVE  Follows(R, T)
<1>1. R.next_key \in Nat /\ S.next_key \in Nat /\ T.next_key \in Nat
    BY SessionTypes
<1>2. R.next_key <= T.next_key
    BY <1>1 DEF Follows
<1>3. ASSUME NEW q \in Stored(T)
      PROVE  \/ \E p \in Stored(R) : SameRange(p, q)
             \/ q.key > R.next_key
    <2>1. q.key \in Nat
        BY <1>3, SessionTypes DEF Page
    <2>2. CASE q.key > S.next_key
        BY <1>1, <2>1, <2>2 DEF Follows
    <2>3. CASE \E p \in Stored(S) : SameRange(p, q)
        <3>1. PICK p \in Stored(S) : SameRange(p, q)
            BY <2>3
        <3>2. CASE p.key > R.next_key
            BY <3>1, <3>2 DEF SameRange
        <3>3. CASE \E o \in Stored(R) : SameRange(o, p)
            BY <3>1, <3>3 DEF SameRange
        <3> QED
            BY <3>2, <3>3 DEF Follows
    <2> QED
        BY <1>3, <2>2, <2>3 DEF Follows
<1> QED
    BY <1>2, <1>3 DEF Follows

\* A page that was found has the key it was looked for.
LEMMA FindPageIs ==
    ASSUME NEW S, KeysUnique(S), NEW p \in Stored(S)
    PROVE  FindPage(S, p.key) = p
<1>1. \E q \in Stored(S) : q.key = p.key
    OBVIOUS
<1>2. FindPage(S, p.key) \in Stored(S) /\ FindPage(S, p.key).key = p.key
    BY <1>1 DEF FindPage
<1> QED
    BY <1>2 DEF KeysUnique

\* A split in flight more, and two keys given.
MoreSplits(S, s) == [S EXCEPT !.splits = Append(@, s), !.next_key = @ + 2]

\* Its halves are stored with what was stored.
LEMMA SplitMore ==
    ASSUME NEW S \in Session, NEW s \in PendingSplit, NEW T, T = MoreSplits(S, s)
    PROVE  /\ T \in Session /\ T.pages = S.pages /\ T.next_key = S.next_key + 2
           /\ DOMAIN T.splits = 1..(Len(S.splits) + 1)
           /\ \A i \in DOMAIN S.splits : T.splits[i] = S.splits[i]
           /\ T.splits[Len(S.splits) + 1] = s
           /\ \A q : q \in Stored(T) <=> q \in Stored(S) \/ q = s.first \/ q = s.second
<1>1. /\ S.pages \in Seq(Page) /\ S.splits \in Seq(PendingSplit) /\ S.next_key \in Nat
      /\ Len(S.splits) \in Nat /\ DOMAIN S.splits = 1..Len(S.splits)
    BY SessionTypes
<1>2. PICK a : a = Append(S.splits, s)
    OBVIOUS
<1>3. /\ a \in Seq(PendingSplit) /\ Len(a) = Len(S.splits) + 1
      /\ \A i \in 1..Len(S.splits) : a[i] = S.splits[i]
      /\ a[Len(S.splits) + 1] = s
    BY <1>1, <1>2, AppendProperties
<1>4. T = [pages |-> S.pages, splits |-> a, next_key |-> S.next_key + 2]
    BY <1>2 DEF Session, MoreSplits
<1>5. T \in Session /\ T.pages = S.pages /\ T.splits = a /\ T.next_key = S.next_key + 2
    BY <1>1, <1>3, <1>4 DEF Session
<1>6. DOMAIN a = 1..(Len(S.splits) + 1)
    BY <1>3, LenProperties
<1>7. ASSUME NEW q
      PROVE  q \in Stored(T) <=> q \in Stored(S) \/ q = s.first \/ q = s.second
    <2>1. ASSUME NEW i \in DOMAIN a PROVE i \in DOMAIN S.splits \/ i = Len(S.splits) + 1
        BY <1>1, <1>6
    <2>2. \A i \in DOMAIN S.splits : i \in DOMAIN a
        BY <1>1, <1>6
    <2>3. Len(S.splits) + 1 \in DOMAIN a
        BY <1>1, <1>6
    <2>4. \A i \in DOMAIN S.splits : a[i] = S.splits[i]
        BY <1>1, <1>3
    <2>5. q \in Stored(T) <=>
             \/ \E i \in DOMAIN S.pages : q = S.pages[i]
             \/ \E i \in DOMAIN a : q = a[i].first \/ q = a[i].second
        BY <1>5, StoredIs
    <2>6. q \in Stored(S) <=>
             \/ \E i \in DOMAIN S.pages : q = S.pages[i]
             \/ \E i \in DOMAIN S.splits : q = S.splits[i].first \/ q = S.splits[i].second
        BY StoredIs
    <2>7. (\E i \in DOMAIN a : q = a[i].first \/ q = a[i].second)
          <=> \/ \E i \in DOMAIN S.splits : q = S.splits[i].first \/ q = S.splits[i].second
              \/ q = s.first \/ q = s.second
        BY <1>3, <2>1, <2>2, <2>3, <2>4
    <2> QED
        BY <2>5, <2>6, <2>7
<1> QED
    BY <1>1, <1>3, <1>5, <1>6, <1>7

\* A page is split inside its range.
LEMMA StartSplitOK ==
    ASSUME NEW S, NEW sv, SessionOK(S, sv), NEW p \in ToSet(S.pages), WantsSplit(S, p),
           NEW T, T = StartSplit(S, p)
    PROVE  SessionOK(T, sv) /\ Follows(S, T) /\ T.pages = S.pages
<1>1. S \in Session /\ p \in Stored(S) /\ p \in Page
    BY SessionTypes DEF SessionOK, Stored
<1>2. PICK k \in Nat : k = S.next_key
    BY <1>1, SessionTypes
<1>3. PICK r \in GoodResult : r = p.result
    BY <1>1 DEF WantsSplit, Parsed, Page, PageResult, PageAnswer, NoResult
<1>4. PICK c \in Cursors : c = r.split_cursor
    BY <1>3 DEF WantsSplit, GoodResult, Ends
<1>5. PICK e \in Cursors : e = r.continue_cursor
    BY <1>3 DEF GoodResult
<1>6. PICK f : f = NewPage(k + 1, p.cursor, c, initial_num_items)
    OBVIOUS
<1>7. PICK g : g = NewPage(k + 2, c, e, initial_num_items)
    OBVIOUS
<1>8. PICK s : s = [original |-> p.key, first |-> f, second |-> g]
    OBVIOUS
<1>9. initial_num_items \in Nat \ {0} /\ NoResult \in PageResult /\ \A x \in Cursors : x # None /\ x \in Ends /\ x \in Nat
    BY PaginationAssumption DEF PageResult, Cursors, None, Ends
<1>10. /\ f \in Page /\ f.key = k + 1 /\ f.cursor = p.cursor /\ f.end_cursor = c
       /\ f.result = NoResult
    BY <1>1, <1>6, <1>9 DEF NewPage, Page
<1>11. /\ g \in Page /\ g.key = k + 2 /\ g.cursor = c /\ g.end_cursor = e
       /\ g.result = NoResult
    BY <1>7, <1>9 DEF NewPage, Page
<1>12. /\ s \in PendingSplit /\ s.original = p.key /\ s.first = f /\ s.second = g
    BY <1>1, <1>8, <1>10, <1>11 DEF PendingSplit, Page
<1>13. T = MoreSplits(S, s)
    BY <1>2, <1>3, <1>4, <1>5, <1>6, <1>7, <1>8 DEF StartSplit, MoreSplits
<1>14. /\ T \in Session /\ T.pages = S.pages /\ T.next_key = k + 2
       /\ DOMAIN T.splits = 1..(Len(S.splits) + 1)
       /\ \A i \in DOMAIN S.splits : T.splits[i] = S.splits[i]
       /\ T.splits[Len(S.splits) + 1] = s
       /\ \A q : q \in Stored(T) <=> q \in Stored(S) \/ q = f \/ q = g
    <2>1. S \in Session /\ s \in PendingSplit
        BY <1>1, <1>12
    <2>3. /\ T \in Session /\ T.pages = S.pages /\ T.next_key = S.next_key + 2
          /\ DOMAIN T.splits = 1..(Len(S.splits) + 1)
          /\ \A i \in DOMAIN S.splits : T.splits[i] = S.splits[i]
          /\ T.splits[Len(S.splits) + 1] = s
          /\ \A q : q \in Stored(T) <=> q \in Stored(S) \/ q = s.first \/ q = s.second
        BY <1>13, <2>1, SplitMore
    <2>4. T.next_key = k + 2
        BY <1>2, <2>3
    <2>5. \A q : q \in Stored(T) <=> q \in Stored(S) \/ q = f \/ q = g
        BY <1>12, <2>3
    <2> QED
        BY <2>3, <2>4, <2>5
<1>15. /\ PageOK(sv, p) /\ EndIn(sv, p) = e
       /\ p.cursor <= c /\ c <= e
    BY <1>1, <1>3, <1>4, <1>5, <1>9 DEF SessionOK, PageOK, Fits, WantsSplit
<1>16. \A q \in Stored(S) : q.key \in Nat /\ q.key <= k
    BY <1>1, <1>2, SessionTypes DEF SessionOK, KeysGiven, Page
<1>17. KeysUnique(T)
    BY <1>10, <1>11, <1>14, <1>16 DEF SessionOK, KeysUnique
<1>18. KeysGiven(T)
    BY <1>10, <1>11, <1>14, <1>16 DEF KeysGiven
<1>19. PageOK(sv, f)
    BY <1>4, <1>9, <1>10, <1>15 DEF PageOK, EndIn, Fits, Parsed, NoResult
<1>20. PageOK(sv, g)
    BY <1>5, <1>9, <1>11, <1>15 DEF PageOK, EndIn, Fits, Parsed, NoResult
<1>21. \A q \in Stored(T) : PageOK(sv, q)
    BY <1>14, <1>19, <1>20 DEF SessionOK
<1>22. SplitsOK(T, sv)
    <2>1. PICK n \in Nat : n = Len(S.splits) /\ DOMAIN S.splits = 1..n /\ DOMAIN T.splits = 1..(n + 1)
        BY <1>1, <1>14, SessionTypes
    <2>2. \A i \in DOMAIN T.splits : i # n + 1 => i \in DOMAIN S.splits /\ T.splits[i] = S.splits[i]
        BY <1>14, <2>1
    <2>3. T.splits[n + 1] = s
        BY <1>14, <2>1
    <2>4. Covers(sv, s, p)
        BY <1>9, <1>10, <1>11, <1>12, <1>15 DEF Covers
    <2>5. \A i \in DOMAIN S.splits : S.splits[i].original # p.key
        BY DEF WantsSplit, IsSplitting
    <2>6. ASSUME NEW i \in DOMAIN T.splits
          PROVE  \E q \in ToSet(T.pages) : Covers(sv, T.splits[i], q)
        BY <1>14, <2>2, <2>3, <2>4, <2>6 DEF SessionOK, SplitsOK
    <2>7. ASSUME NEW i \in DOMAIN T.splits, NEW j \in DOMAIN T.splits,
                 T.splits[i].original = T.splits[j].original
          PROVE  i = j
        <3>1. CASE i = n + 1 /\ j # n + 1
            BY <1>12, <2>2, <2>3, <2>5, <2>7, <3>1
        <3>2. CASE i # n + 1 /\ j = n + 1
            BY <1>12, <2>2, <2>3, <2>5, <2>7, <3>2
        <3>3. CASE i # n + 1 /\ j # n + 1
            BY <2>2, <2>7, <3>3 DEF SessionOK, SplitsOK
        <3> QED
            BY <3>1, <3>2, <3>3
    <2> QED
        BY <2>6, <2>7 DEF SplitsOK
<1>23. SessionOK(T, sv)
    BY <1>14, <1>17, <1>18, <1>21, <1>22 DEF SessionOK
<1>24. Follows(S, T)
    BY <1>2, <1>9, <1>10, <1>11, <1>14 DEF Follows, SameRange
<1> QED
    BY <1>14, <1>23, <1>24

\* A session comes of itself.
LEMMA FollowsItself ==
    ASSUME NEW S \in Session
    PROVE  Follows(S, S)
BY SessionTypes DEF Follows, SameRange

\* A page of the list is split, or not.
LEMMA ConsiderSplitOK ==
    ASSUME NEW S, NEW sv, SessionOK(S, sv), NEW p \in ToSet(S.pages),
           NEW T, T = ConsiderSplit(S, p.key)
    PROVE  SessionOK(T, sv) /\ Follows(S, T) /\ T.pages = S.pages
<1>1. S \in Session /\ p \in Stored(S) /\ KeysUnique(S)
    BY DEF SessionOK, Stored
<1>2. FindPage(S, p.key) = p
    BY <1>1, FindPageIs
<1>3. T = IF WantsSplit(S, p) THEN StartSplit(S, p) ELSE S
    BY <1>2 DEF ConsiderSplit
<1>4. ASSUME WantsSplit(S, p) PROVE SessionOK(T, sv) /\ Follows(S, T) /\ T.pages = S.pages
    BY <1>3, <1>4, StartSplitOK
<1>5. ASSUME ~WantsSplit(S, p) PROVE SessionOK(T, sv) /\ Follows(S, T) /\ T.pages = S.pages
    BY <1>1, <1>3, <1>5, FollowsItself
<1> QED
    BY <1>4, <1>5

-----------------------------------------------------------------------------
(* The list of pages.                                                      *)

\* What is left of a sequence without the element at one position.
LEMMA RemoveAtIs ==
    ASSUME NEW S, NEW s \in Seq(S), NEW i \in DOMAIN s, NEW w, w = RemoveAt(s, i)
    PROVE  /\ Len(s) \in Nat \ {0} /\ DOMAIN s = 1..Len(s)
           /\ w \in Seq(S) /\ DOMAIN w = 1..(Len(s) - 1)
           /\ \A j \in DOMAIN w : w[j] = IF j < i THEN s[j] ELSE s[j + 1]
<1>1. Len(s) \in Nat /\ DOMAIN s = 1..Len(s) /\ \A j \in 1..Len(s) : s[j] \in S
    BY LenProperties, ElementOfSeq
<1> PICK n \in Nat : n = Len(s)
    BY <1>1
<1>2. i \in 1..n
    BY <1>1
<1>3. PICK a : a = SubSeq(s, 1, i - 1)
    OBVIOUS
<1>4. PICK b : b = SubSeq(s, i + 1, n)
    OBVIOUS
<1>5. /\ a \in Seq(S) /\ Len(a) = i - 1
      /\ \A j \in 1..(i - 1) : a[j] = s[j]
    <2>1. 1 \in Int /\ i - 1 \in Int /\ (\A j \in 1..(i - 1) : j \in 1..n)
        BY <1>2
    <2>2. \A j \in 1..(i - 1) : s[j] \in S
        BY <1>1, <2>1
    <2>3. /\ a \in Seq(S)
          /\ Len(a) = IF 1 <= i - 1 THEN (i - 1) - 1 + 1 ELSE 0
          /\ \A j \in 1..((i - 1) - 1 + 1) : a[j] = s[1 + j - 1]
        BY <1>3, <2>1, <2>2, SubSeqProperties
    <2> QED
        BY <1>2, <2>3
<1>6. /\ b \in Seq(S) /\ Len(b) = n - i
      /\ \A j \in 1..(n - i) : b[j] = s[i + j]
    <2>1. i + 1 \in Int /\ n \in Int /\ (\A j \in (i + 1)..n : j \in 1..n)
        BY <1>2
    <2>2. \A j \in (i + 1)..n : s[j] \in S
        BY <1>1, <2>1
    <2>3. /\ b \in Seq(S)
          /\ Len(b) = IF i + 1 <= n THEN n - (i + 1) + 1 ELSE 0
          /\ \A j \in 1..(n - (i + 1) + 1) : b[j] = s[(i + 1) + j - 1]
        BY <1>4, <2>1, <2>2, SubSeqProperties
    <2>4. n - (i + 1) + 1 = n - i /\ \A j \in 1..(n - i) : (i + 1) + j - 1 = i + j
        BY <1>2
    <2>5. Len(b) = n - i
        BY <1>2, <2>3
    <2> QED
        BY <2>3, <2>4, <2>5
<1>7. w = a \o b
    BY <1>3, <1>4 DEF RemoveAt
<1>8. /\ w \in Seq(S) /\ Len(w) = Len(a) + Len(b)
      /\ \A j \in 1..(Len(a) + Len(b)) : w[j] = IF j <= Len(a) THEN a[j] ELSE b[j - Len(a)]
    <2>1. a \in Seq(S) /\ b \in Seq(S)
        BY <1>5, <1>6
    <2> QED
        BY <1>7, <2>1, ConcatProperties
<1>9. DOMAIN w = 1..(n - 1)
    BY <1>2, <1>5, <1>6, <1>8, LenProperties
<1>10. ASSUME NEW j \in 1..(n - 1) PROVE w[j] = IF j < i THEN s[j] ELSE s[j + 1]
    <2>1. w[j] = IF j <= i - 1 THEN a[j] ELSE b[j - (i - 1)]
        BY <1>2, <1>5, <1>6, <1>8
    <2>2. CASE j < i
        <3>1. j <= i - 1 /\ j \in 1..(i - 1)
            BY <1>2, <2>2
        <3> QED
            BY <1>5, <2>1, <2>2, <3>1
    <2>3. CASE ~(j < i)
        <3>1. ~(j <= i - 1) /\ j - (i - 1) \in 1..(n - i) /\ i + (j - (i - 1)) = j + 1
            BY <1>2, <2>3
        <3> QED
            BY <1>6, <2>1, <2>3, <3>1
    <2> QED
        BY <2>2, <2>3
<1> QED
    BY <1>1, <1>2, <1>8, <1>9, <1>10

\* The element at one position replaced by two.
Exchange(s, at, f, g) == SubSeq(s, 1, at - 1) \o <<f, g>> \o SubSeq(s, at + 1, Len(s))

\* Where the elements are then.
Exchanged(w, s, i, f, g) ==
    /\ DOMAIN w = 1..(Len(s) + 1)
    /\ \A j \in 1..(i - 1) : w[j] = s[j]
    /\ w[i] = f /\ w[i + 1] = g
    /\ \A j \in (i + 2)..(Len(s) + 1) : w[j] = s[j - 1]

\* Each element has its place.
LEMMA ExchangeIs ==
    ASSUME NEW S, NEW s \in Seq(S), NEW i \in DOMAIN s, NEW f \in S, NEW g \in S
    PROVE  /\ Exchange(s, i, f, g) \in Seq(S)
           /\ Exchanged(Exchange(s, i, f, g), s, i, f, g)
<1> PICK w : w = Exchange(s, i, f, g)
    OBVIOUS
<1>1. Len(s) \in Nat /\ DOMAIN s = 1..Len(s) /\ \A j \in 1..Len(s) : s[j] \in S
    BY LenProperties, ElementOfSeq
<1> PICK n \in Nat : n = Len(s)
    BY <1>1
<1>2. i \in 1..n
    BY <1>1
<1>3. PICK a : a = SubSeq(s, 1, i - 1)
    OBVIOUS
<1>4. PICK b : b = SubSeq(s, i + 1, n)
    OBVIOUS
<1>5. /\ a \in Seq(S) /\ Len(a) = i - 1
      /\ \A j \in 1..(i - 1) : a[j] = s[j]
    <2>1. 1 \in Int /\ i - 1 \in Int /\ (\A j \in 1..(i - 1) : j \in 1..n)
        BY <1>2
    <2>2. \A j \in 1..(i - 1) : s[j] \in S
        BY <1>1, <2>1
    <2>3. /\ a \in Seq(S)
          /\ Len(a) = IF 1 <= i - 1 THEN (i - 1) - 1 + 1 ELSE 0
          /\ \A j \in 1..((i - 1) - 1 + 1) : a[j] = s[1 + j - 1]
        BY <1>3, <2>1, <2>2, SubSeqProperties
    <2> QED
        BY <1>2, <2>3
<1>6. /\ b \in Seq(S) /\ Len(b) = n - i
      /\ \A j \in 1..(n - i) : b[j] = s[i + j]
    <2>1. i + 1 \in Int /\ n \in Int /\ (\A j \in (i + 1)..n : j \in 1..n)
        BY <1>2
    <2>2. \A j \in (i + 1)..n : s[j] \in S
        BY <1>1, <2>1
    <2>3. /\ b \in Seq(S)
          /\ Len(b) = IF i + 1 <= n THEN n - (i + 1) + 1 ELSE 0
          /\ \A j \in 1..(n - (i + 1) + 1) : b[j] = s[(i + 1) + j - 1]
        BY <1>4, <2>1, <2>2, SubSeqProperties
    <2>4. n - (i + 1) + 1 = n - i /\ \A j \in 1..(n - i) : (i + 1) + j - 1 = i + j
        BY <1>2
    <2>5. Len(b) = n - i
        BY <1>2, <2>3
    <2> QED
        BY <2>3, <2>4, <2>5
<1>7. PICK m : m = <<f, g>>
    OBVIOUS
<1>8. m \in Seq(S) /\ Len(m) = 2 /\ m[1] = f /\ m[2] = g
    BY <1>7
<1>9. PICK x : x = a \o m
    OBVIOUS
<1>10. /\ x \in Seq(S) /\ Len(x) = i + 1
       /\ \A j \in 1..(i + 1) : x[j] = IF j <= i - 1 THEN a[j] ELSE m[j - (i - 1)]
    <2>1. /\ x \in Seq(S) /\ Len(x) = Len(a) + Len(m)
          /\ \A j \in 1..(Len(a) + Len(m)) :
                x[j] = IF j <= Len(a) THEN a[j] ELSE m[j - Len(a)]
        BY <1>5, <1>8, <1>9, ConcatProperties
    <2>2. Len(a) + Len(m) = i + 1
        BY <1>2, <1>5, <1>8
    <2> QED
        BY <1>5, <2>1, <2>2
<1>11. w = x \o b
    BY <1>3, <1>4, <1>7, <1>9 DEF Exchange
<1>12. /\ w \in Seq(S) /\ Len(w) = n + 1
       /\ \A j \in 1..(n + 1) : w[j] = IF j <= i + 1 THEN x[j] ELSE b[j - (i + 1)]
    <2>0. x \in Seq(S) /\ Len(x) = i + 1 /\ b \in Seq(S) /\ Len(b) = n - i
        BY <1>6, <1>10
    <2>1. /\ w \in Seq(S) /\ Len(w) = Len(x) + Len(b)
          /\ \A j \in 1..(Len(x) + Len(b)) :
                w[j] = IF j <= Len(x) THEN x[j] ELSE b[j - Len(x)]
        <3>1. x \in Seq(S) /\ b \in Seq(S)
            BY <2>0
        <3> QED
            BY <1>11, <3>1, ConcatProperties
    <2>2. Len(x) + Len(b) = n + 1
        BY <1>2, <2>0, SMTT(30)
    <2> QED
        BY <1>10, <2>1, <2>2
<1>13. ASSUME NEW j \in 1..(i - 1) PROVE w[j] = s[j]
    <2>1. j \in 1..(n + 1) /\ j <= i + 1 /\ j \in 1..(i + 1) /\ j <= i - 1
        BY <1>2
    <2> QED
        BY <1>5, <1>10, <1>12, <2>1
<1>14. w[i] = f
    <2>1. i \in 1..(n + 1) /\ i <= i + 1 /\ i \in 1..(i + 1) /\ ~(i <= i - 1) /\ i - (i - 1) = 1
        BY <1>2
    <2> QED
        BY <1>8, <1>10, <1>12, <2>1
<1>15. w[i + 1] = g
    <2>1. /\ i + 1 \in 1..(n + 1) /\ i + 1 <= i + 1 /\ i + 1 \in 1..(i + 1)
          /\ ~(i + 1 <= i - 1) /\ (i + 1) - (i - 1) = 2
        BY <1>2
    <2> QED
        BY <1>8, <1>10, <1>12, <2>1
<1>16. ASSUME NEW j \in (i + 2)..(n + 1) PROVE w[j] = s[j - 1]
    <2>1. /\ j \in 1..(n + 1) /\ ~(j <= i + 1) /\ j - (i + 1) \in 1..(n - i)
          /\ i + (j - (i + 1)) = j - 1
        BY <1>2
    <2> QED
        BY <1>6, <1>12, <2>1
<1>17. DOMAIN w = 1..(n + 1)
    BY <1>12, LenProperties
<1> QED
    BY <1>1, <1>2, <1>12, <1>13, <1>14, <1>15, <1>16, <1>17 DEF Exchanged

-----------------------------------------------------------------------------
(* advance_split().                                                        *)

\* A session with fewer pages stored, as far as pages are concerned.
LEMMA StoredLess ==
    ASSUME NEW S, NEW sv, SessionOK(S, sv), NEW T \in Session, T.next_key = S.next_key,
           Stored(T) \subseteq Stored(S)
    PROVE  /\ KeysUnique(T) /\ KeysGiven(T) /\ (\A p \in Stored(T) : PageOK(sv, p))
           /\ Follows(S, T)
<1>1. S.next_key \in Nat /\ S.next_key <= T.next_key
    BY SessionTypes DEF SessionOK
<1>2. \A q \in Stored(T) : q \in Stored(S) /\ SameRange(q, q)
    BY DEF SameRange
<1>3. Follows(S, T)
    BY <1>1, <1>2 DEF Follows
<1>4. KeysUnique(T) /\ KeysGiven(T)
    BY DEF SessionOK, KeysUnique, KeysGiven
<1>5. \A p \in Stored(T) : PageOK(sv, p)
    BY DEF SessionOK
<1> QED
    BY <1>3, <1>4, <1>5

\* A split that is over.
WithoutSplit(S, i) == [S EXCEPT !.splits = RemoveAt(@, i)]

\* The other splits stay.
LEMMA WithoutSplitOK ==
    ASSUME NEW S, NEW sv, SessionOK(S, sv), NEW i \in DOMAIN S.splits,
           NEW R, R = WithoutSplit(S, i)
    PROVE  /\ SessionOK(R, sv) /\ R.pages = S.pages /\ R.next_key = S.next_key
           /\ Stored(R) \subseteq Stored(S)
           /\ \A j \in DOMAIN R.splits : R.splits[j].original # S.splits[i].original
<1>1. S \in Session
    BY DEF SessionOK
<1>2. /\ S.pages \in Seq(Page) /\ S.splits \in Seq(PendingSplit) /\ S.next_key \in Nat
      /\ Len(S.splits) \in Nat /\ DOMAIN S.splits = 1..Len(S.splits)
    BY <1>1, SessionTypes
<1>3. PICK w : w = RemoveAt(S.splits, i)
    OBVIOUS
<1>4. PICK n \in Nat : n = Len(S.splits)
    BY <1>2
<1>5. /\ w \in Seq(PendingSplit) /\ DOMAIN w = 1..(n - 1)
      /\ \A j \in DOMAIN w : w[j] = IF j < i THEN S.splits[j] ELSE S.splits[j + 1]
    BY <1>2, <1>3, <1>4, RemoveAtIs, SMTT(30)
<1>6. R = [pages |-> S.pages, splits |-> w, next_key |-> S.next_key]
    BY <1>1, <1>3 DEF WithoutSplit, Session
<1>7. R \in Session /\ R.pages = S.pages /\ R.splits = w /\ R.next_key = S.next_key
    BY <1>2, <1>5, <1>6 DEF Session
<1> DEFINE at(j) == IF j < i THEN j ELSE j + 1
<1>8. ASSUME NEW j \in DOMAIN w
      PROVE  /\ at(j) \in DOMAIN S.splits /\ at(j) # i /\ w[j] = S.splits[at(j)]
    <2>1. j \in 1..(n - 1) /\ i \in 1..n
        BY <1>2, <1>4, <1>5
    <2>2. at(j) \in 1..n /\ at(j) # i
        BY <1>4, <2>1
    <2> QED
        BY <1>2, <1>4, <1>5, <2>2
<1>9. ASSUME NEW j \in DOMAIN w, NEW k \in DOMAIN w, at(j) = at(k) PROVE j = k
    <2>1. j \in Int /\ k \in Int /\ i \in Int
        BY <1>2, <1>4, <1>5
    <2> QED
        BY <1>9, <2>1
<1>10. PICK f : \A j \in DOMAIN w : /\ f[j] \in DOMAIN S.splits /\ f[j] # i
                                   /\ w[j] = S.splits[f[j]]
                                   /\ \A k \in DOMAIN w : f[j] = f[k] => j = k
    <2> DEFINE g == [j \in DOMAIN w |-> at(j)]
    <2>1. \A j \in DOMAIN w : g[j] = at(j)
        OBVIOUS
    <2> HIDE DEF g, at
    <2> QED
        BY <1>8, <1>9, <2>1
<1> HIDE DEF at
<1>11. Stored(R) \subseteq Stored(S)
    <2> SUFFICES ASSUME NEW q \in Stored(R) PROVE q \in Stored(S)
        OBVIOUS
    <2>1. CASE \E j \in DOMAIN S.pages : q = S.pages[j]
        BY <2>1, StoredIs
    <2>2. CASE \E j \in DOMAIN w : q = w[j].first \/ q = w[j].second
        <3>1. PICK j \in DOMAIN w : q = w[j].first \/ q = w[j].second
            BY <2>2
        <3>2. f[j] \in DOMAIN S.splits /\ w[j] = S.splits[f[j]]
            BY <1>10
        <3> QED
            BY <3>1, <3>2, StoredIs
    <2> QED
        BY <1>7, <2>1, <2>2, StoredIs
<1>12. /\ KeysUnique(R) /\ KeysGiven(R) /\ (\A p \in Stored(R) : PageOK(sv, p))
    BY <1>7, <1>11, StoredLess
<1>13. SplitsOK(R, sv)
    <2>1. ASSUME NEW j \in DOMAIN w PROVE \E q \in ToSet(S.pages) : Covers(sv, w[j], q)
        BY <1>10 DEF SessionOK, SplitsOK
    <2>2. ASSUME NEW j \in DOMAIN w, NEW k \in DOMAIN w, w[j].original = w[k].original
          PROVE  j = k
        <3>1. /\ f[j] \in DOMAIN S.splits /\ w[j] = S.splits[f[j]]
              /\ f[k] \in DOMAIN S.splits /\ w[k] = S.splits[f[k]]
            BY <1>10
        <3>2. f[j] = f[k]
            BY <2>2, <3>1 DEF SessionOK, SplitsOK
        <3> QED
            BY <1>10, <3>2
    <2> QED
        BY <1>7, <2>1, <2>2 DEF SplitsOK
<1>14. ASSUME NEW j \in DOMAIN w PROVE w[j].original # S.splits[i].original
    <2>1. f[j] \in DOMAIN S.splits /\ f[j] # i /\ w[j] = S.splits[f[j]]
        BY <1>10
    <2> QED
        BY <2>1 DEF SessionOK, SplitsOK
<1>15. SeamsOK(R.pages, sv)
    BY <1>7 DEF SessionOK
<1> QED
    BY <1>7, <1>11, <1>12, <1>13, <1>14, <1>15 DEF SessionOK

\* A page replaced by pages that cover its range, which no split is for.
LEMMA ExchangeOK ==
    ASSUME NEW S, NEW sv, SessionOK(S, sv), NEW at \in DOMAIN S.pages,
           NEW s \in PendingSplit, Covers(sv, s, S.pages[at]),
           \A j \in DOMAIN S.splits : S.splits[j].original # s.original,
           NEW T \in Session, T.splits = S.splits,
           T.pages = Exchange(S.pages, at, s.first, s.second)
    PROVE  SplitsOK(T, sv) /\ SeamsOK(T.pages, sv)
<1>1. S \in Session /\ S.pages \in Seq(Page)
    BY SessionTypes DEF SessionOK
<1>2. PICK f \in Page : f = s.first
    BY DEF PendingSplit
<1>3. PICK g \in Page : g = s.second
    BY DEF PendingSplit
<1>4. PICK n \in Nat \ {0} : n = Len(S.pages) /\ DOMAIN S.pages = 1..n
    BY <1>1, SessionTypes
<1>5. PICK w : w = T.pages
    OBVIOUS
<1>6. /\ DOMAIN w = 1..(n + 1)
      /\ \A j \in 1..(at - 1) : w[j] = S.pages[j]
      /\ w[at] = f /\ w[at + 1] = g
      /\ \A j \in (at + 2)..(n + 1) : w[j] = S.pages[j - 1]
    <2>1. PICK ps : ps = S.pages
        OBVIOUS
    <2>2. ps \in Seq(Page) /\ at \in DOMAIN ps /\ w = Exchange(ps, at, f, g) /\ f \in Page /\ g \in Page
        BY <1>1, <1>2, <1>3, <1>5, <2>1
    <2>3. Exchanged(w, ps, at, f, g)
        BY <2>2, ExchangeIs
    <2> QED
        BY <1>4, <2>1, <2>3 DEF Exchanged
<1>7. at \in 1..n
    BY <1>4
<1>8. ASSUME NEW k \in 1..n, k # at PROVE \E j \in DOMAIN w : w[j] = S.pages[k]
    <2>1. CASE k < at
        <3>1. k \in 1..(at - 1) /\ k \in DOMAIN w
            BY <1>4, <1>6, <1>7, <2>1
        <3> QED
            BY <1>6, <3>1
    <2>2. CASE ~(k < at)
        <3>1. k + 1 \in (at + 2)..(n + 1) /\ k + 1 \in DOMAIN w /\ (k + 1) - 1 = k
            BY <1>4, <1>6, <1>7, <1>8, <2>2
        <3> QED
            BY <1>6, <3>1
    <2> QED
        BY <2>1, <2>2
<1>9. SplitsOK(T, sv)
    <2>1. ASSUME NEW i \in DOMAIN S.splits
          PROVE  \E q \in ToSet(w) : Covers(sv, S.splits[i], q)
        <3>1. PICK q \in ToSet(S.pages) : Covers(sv, S.splits[i], q)
            BY DEF SessionOK, SplitsOK
        <3>2. PICK k \in 1..n : q = S.pages[k]
            BY <1>4, <3>1 DEF ToSet
        <3>3. k # at
            BY <3>1, <3>2 DEF Covers
        <3>4. q \in ToSet(w)
            BY <1>8, <3>2, <3>3 DEF ToSet
        <3> QED
            BY <3>1, <3>4
    <2> QED
        BY <1>5, <2>1 DEF SessionOK, SplitsOK
<1>10. /\ f.cursor = S.pages[at].cursor /\ g.cursor = EndIn(sv, f)
       /\ EndIn(sv, g) = EndIn(sv, S.pages[at])
    <2>1. g.cursor # None
        BY <1>3, PaginationAssumption DEF Page, Cursors, None
    <2> QED
        BY <1>2, <1>3, <2>1 DEF Covers, EndIn
<1>11. \A i \in 1..n :
          IF i = 1 THEN S.pages[i].cursor = 0 ELSE EndIn(sv, S.pages[i - 1]) = S.pages[i].cursor
    BY <1>4 DEF SessionOK, SeamsOK
<1>12. ASSUME NEW i \in DOMAIN w
       PROVE  IF i = 1 THEN w[i].cursor = 0 ELSE EndIn(sv, w[i - 1]) = w[i].cursor
    <2>0. i \in 1..(n + 1)
        BY <1>6
    <2>1. CASE i < at
        <3>1. i \in 1..(at - 1) /\ i \in 1..n /\ (i # 1 => i - 1 \in 1..(at - 1))
            BY <1>4, <1>7, <2>0, <2>1
        <3> QED
            BY <1>6, <1>11, <3>1
    <2>2. CASE i = at
        <3>1. i # 1 => i - 1 \in 1..(at - 1)
            BY <1>4, <1>7, <2>0, <2>2
        <3> QED
            BY <1>6, <1>7, <1>10, <1>11, <2>2, <3>1
    <2>3. CASE i = at + 1
        <3>1. i # 1 /\ i - 1 = at
            BY <1>7, <2>3
        <3> QED
            BY <1>6, <1>10, <2>3, <3>1
    <2>4. CASE i = at + 2
        <3>1. i # 1 /\ i - 1 = at + 1 /\ i \in (at + 2)..(n + 1) /\ at + 1 \in 1..n /\ at + 1 # 1
              /\ (at + 1) - 1 = at
            BY <1>4, <1>7, <2>0, <2>4
        <3>2. w[i] = S.pages[at + 1] /\ w[i - 1] = g
            BY <1>6, <3>1
        <3>3. EndIn(sv, S.pages[at]) = S.pages[at + 1].cursor
            BY <1>11, <3>1
        <3> QED
            BY <1>10, <3>1, <3>2, <3>3
    <2>5. CASE i > at + 2
        <3>1. /\ i # 1 /\ i \in (at + 2)..(n + 1) /\ i - 1 \in (at + 2)..(n + 1)
              /\ i - 1 \in 1..n /\ i - 1 # 1
            BY <1>4, <1>7, <2>0, <2>5
        <3>2. w[i] = S.pages[i - 1] /\ w[i - 1] = S.pages[(i - 1) - 1]
            BY <1>6, <3>1
        <3> QED
            BY <1>11, <3>1, <3>2
    <2> QED
        BY <1>7, <2>0, <2>1, <2>2, <2>3, <2>4, <2>5
<1> QED
    BY <1>5, <1>9, <1>12 DEF SeamsOK

\* The list of pages is as it was, or two halves that have a result replace a
\* page and end where it ends.
Refined(sv, ps, qs) ==
    \/ qs = ps
    \/ \E at \in DOMAIN ps, f \in Page, g \in Page :
          /\ Exchanged(qs, ps, at, f, g)
          /\ f.result # NoResult /\ g.result # NoResult
          /\ g.end_cursor # None /\ g.end_cursor = EndIn(sv, ps[at])

\* A split that comes to its end leaves a list without gaps.
LEMMA AdvanceSplitOK ==
    ASSUME NEW S, NEW sv, SessionOK(S, sv), NEW i \in DOMAIN S.splits,
           NEW T, T = AdvanceSplit(S, i)
    PROVE  SessionOK(T, sv) /\ Follows(S, T) /\ Refined(sv, S.pages, T.pages)
<1>1. S \in Session
    BY DEF SessionOK
<1>2. PICK s \in PendingSplit : s = S.splits[i]
    BY <1>1, SessionTypes
<1>3. PICK f \in Page : f = s.first /\ f \in Stored(S)
    BY <1>1, <1>2, SessionTypes
<1>4. PICK g \in Page : g = s.second /\ g \in Stored(S)
    BY <1>1, <1>2, SessionTypes
<1>5. PICK R : R = WithoutSplit(S, i)
    OBVIOUS
<1>6. /\ SessionOK(R, sv) /\ R.pages = S.pages /\ R.next_key = S.next_key
      /\ Stored(R) \subseteq Stored(S)
      /\ \A j \in DOMAIN R.splits : R.splits[j].original # s.original
    BY <1>2, <1>5, WithoutSplitOK
<1>7. R \in Session
    BY <1>6 DEF SessionOK
<1>8. Follows(S, R)
    BY <1>6, <1>7, StoredLess
<1>9. PICK at \in DOMAIN S.pages : at = CHOOSE j \in DOMAIN S.pages : S.pages[j].key = s.original
    <2>1. PICK q \in ToSet(S.pages) : Covers(sv, s, q)
        BY <1>2 DEF SessionOK, SplitsOK
    <2>2. \E j \in DOMAIN S.pages : S.pages[j].key = s.original
        BY <2>1 DEF ToSet, Covers
    <2> QED
        BY <2>2
<1>10. S.pages[at] \in Stored(S) /\ Covers(sv, s, S.pages[at])
    <2>1. PICK q \in ToSet(S.pages) : Covers(sv, s, q)
        BY <1>2 DEF SessionOK, SplitsOK
    <2>2. \E j \in DOMAIN S.pages : S.pages[j].key = s.original
        BY <2>1 DEF ToSet, Covers
    <2>3. S.pages[at].key = s.original
        BY <1>9, <2>2
    <2>4. S.pages[at] \in Stored(S) /\ q \in Stored(S)
        BY <1>1, <2>1, SessionTypes DEF Stored
    <2>5. S.pages[at] = q
        BY <2>1, <2>3, <2>4 DEF SessionOK, KeysUnique, Covers
    <2> QED
        BY <2>1, <2>4, <2>5
<1>11. PICK ps \in Seq(Page) : ps = S.pages
    BY <1>1, SessionTypes
<1>12. PICK w : w = Exchange(ps, at, f, g)
    OBVIOUS
<1>13. w \in Seq(Page) /\ Exchanged(w, ps, at, f, g)
    BY <1>9, <1>11, <1>12, ExchangeIs
<1>14. Swapped(ps, s.original, f, g) = w
    BY <1>9, <1>11, <1>12 DEF Swapped, Exchange
<1>15. PICK W : W = [R EXCEPT !.pages = w]
    OBVIOUS
<1>16. W \in Session /\ W.pages = w /\ W.splits = R.splits /\ W.next_key = R.next_key
    BY <1>7, <1>13, <1>15 DEF Session
<1>17. ASSUME NEW q \in ToSet(w) PROVE q \in Stored(S)
    <2>1. PICK n \in Nat : n = Len(ps) /\ DOMAIN ps = 1..n
        BY <1>11, LenProperties
    <2>2. PICK j \in 1..(n + 1) : q = w[j]
        BY <1>13, <1>17, <2>1 DEF ToSet, Exchanged
    <2>3. at \in 1..n
        BY <1>11, <2>1
    <2>4. \A k \in 1..n : ps[k] \in Stored(S)
        BY <1>1, <1>11, <2>1, SessionTypes
    <2>5. CASE j < at
        <3>1. j \in 1..(at - 1) /\ j \in 1..n
            BY <2>1, <2>2, <2>3, <2>5
        <3> QED
            BY <1>13, <2>2, <2>4, <3>1 DEF Exchanged
    <2>6. CASE j = at \/ j = at + 1
        BY <1>3, <1>4, <1>13, <2>2, <2>6 DEF Exchanged
    <2>7. CASE j > at + 1
        <3>1. j \in (at + 2)..(n + 1) /\ j - 1 \in 1..n
            BY <2>1, <2>2, <2>3, <2>7
        <3> QED
            BY <1>13, <2>1, <2>2, <2>4, <3>1 DEF Exchanged
    <2>8. j < at \/ j = at \/ j = at + 1 \/ j > at + 1
        BY <2>2, <2>3
    <2> QED
        BY <2>5, <2>6, <2>7, <2>8
<1>18. Stored(W) \subseteq Stored(S)
    <2>1. \A q \in Stored(W) : q \in ToSet(w) \/ q \in Halves(R)
        BY <1>16 DEF Stored, Halves
    <2>2. \A q \in Halves(R) : q \in Stored(R)
        BY DEF Stored
    <2> QED
        BY <1>6, <1>17, <2>1, <2>2
<1>19. /\ KeysUnique(W) /\ KeysGiven(W) /\ (\A p \in Stored(W) : PageOK(sv, p))
       /\ Follows(S, W)
    BY <1>6, <1>16, <1>18, StoredLess
<1>20. SplitsOK(W, sv) /\ SeamsOK(W.pages, sv)
    <2>1. at \in DOMAIN R.pages /\ Covers(sv, s, R.pages[at])
        BY <1>6, <1>10
    <2>2. W.pages = Exchange(R.pages, at, s.first, s.second)
        BY <1>3, <1>4, <1>6, <1>11, <1>12, <1>16
    <2> QED
        BY <1>6, <1>16, <2>1, <2>2, ExchangeOK
<1>21. SessionOK(W, sv)
    BY <1>16, <1>19, <1>20 DEF SessionOK
<1>22. T = IF Failed(f.result) \/ Failed(g.result) THEN R
           ELSE IF NoResult \in {f.result, g.result} THEN S
           ELSE ConsiderSplit(ConsiderSplit(W, f.key), g.key)
    <2>1. W = [R EXCEPT !.pages = Swapped(R.pages, S.splits[i].original, f, g)]
        BY <1>2, <1>6, <1>11, <1>14, <1>15
    <2>2. R = [S EXCEPT !.splits = RemoveAt(S.splits, i)]
        BY <1>5 DEF WithoutSplit
    <2>3. f = S.splits[i].first /\ g = S.splits[i].second
        BY <1>2, <1>3, <1>4
    <2> QED
        BY <2>1, <2>2, <2>3 DEF AdvanceSplit
<1>23. ASSUME Failed(f.result) \/ Failed(g.result)
       PROVE  SessionOK(T, sv) /\ Follows(S, T) /\ Refined(sv, S.pages, T.pages)
    BY <1>6, <1>8, <1>22, <1>23 DEF Refined
<1>24. ASSUME ~(Failed(f.result) \/ Failed(g.result)), NoResult \in {f.result, g.result}
       PROVE  SessionOK(T, sv) /\ Follows(S, T) /\ Refined(sv, S.pages, T.pages)
    BY <1>1, <1>22, <1>24, FollowsItself DEF Refined
<1>25. ASSUME ~(Failed(f.result) \/ Failed(g.result)), NoResult \notin {f.result, g.result}
       PROVE  SessionOK(T, sv) /\ Follows(S, T) /\ Refined(sv, S.pages, T.pages)
    <2>1. f \in ToSet(w) /\ g \in ToSet(w)
        <3>1. at \in DOMAIN w /\ at + 1 \in DOMAIN w /\ w[at] = f /\ w[at + 1] = g
            <4>1. PICK n \in Nat : n = Len(ps) /\ DOMAIN ps = 1..n
                BY <1>11, LenProperties
            <4>2. at \in 1..(n + 1) /\ at + 1 \in 1..(n + 1)
                BY <1>11, <4>1
            <4> QED
                BY <1>13, <4>1, <4>2 DEF Exchanged
        <3> QED
            BY <3>1 DEF ToSet
    <2>2. PICK V : V = ConsiderSplit(W, f.key)
        OBVIOUS
    <2>3. SessionOK(V, sv) /\ Follows(W, V) /\ V.pages = w
        BY <1>16, <1>21, <2>1, <2>2, ConsiderSplitOK
    <2>4. T = ConsiderSplit(V, g.key)
        BY <1>22, <1>25, <2>2
    <2>5. SessionOK(T, sv) /\ Follows(V, T) /\ T.pages = w
        BY <2>1, <2>3, <2>4, ConsiderSplitOK
    <2>6. V \in Session /\ T \in Session
        BY <2>3, <2>5 DEF SessionOK
    <2>7. Follows(S, V)
        BY <1>1, <1>16, <1>19, <2>3, <2>6, FollowsOn
    <2>8. Follows(S, T)
        BY <1>1, <2>5, <2>6, <2>7, FollowsOn
    <2>9. Refined(sv, S.pages, T.pages)
        BY <1>3, <1>4, <1>10, <1>11, <1>13, <1>25, <2>5 DEF Refined, Covers
    <2> QED
        BY <2>5, <2>8, <2>9
<1> QED
    BY <1>23, <1>24, <1>25

-----------------------------------------------------------------------------
(* on_page_result().                                                       *)

\* A page with its new result, if it is the one of `key`.
Put(p, key, r) == IF p.key = key THEN [p EXCEPT !.result = r] ELSE p

\* It is the same page.
LEMMA PutIs ==
    ASSUME NEW p \in Page, NEW key, NEW r \in PageResult
    PROVE  /\ Put(p, key, r) \in Page /\ SameRange(p, Put(p, key, r))
           /\ Put(p, key, r).result = IF p.key = key THEN r ELSE p.result
<1>1. CASE p.key = key
    <2>1. Put(p, key, r) = [p EXCEPT !.result = r]
        BY <1>1 DEF Put
    <2> QED
        BY <1>1, <2>1 DEF Page, SameRange
<1>2. CASE p.key # key
    BY <1>2 DEF Put, SameRange
<1> QED
    BY <1>1, <1>2

\* A split with the new result in its halves.
PutSplit(s, key, r) ==
    [original |-> s.original, first |-> Put(s.first, key, r), second |-> Put(s.second, key, r)]

\* Its parts.
LEMMA PutSplitIs ==
    ASSUME NEW s, NEW key, NEW r
    PROVE  /\ PutSplit(s, key, r).original = s.original
           /\ PutSplit(s, key, r).first = Put(s.first, key, r)
           /\ PutSplit(s, key, r).second = Put(s.second, key, r)
<1>1. PICK a : a = Put(s.first, key, r)
    OBVIOUS
<1>2. PICK b : b = Put(s.second, key, r)
    OBVIOUS
<1>3. PutSplit(s, key, r) = [original |-> s.original, first |-> a, second |-> b]
    BY <1>1, <1>2 DEF PutSplit
<1> QED
    BY <1>1, <1>2, <1>3

\* Every page with the key is given the result, wherever it is stored.
LEMMA WithResultIs ==
    ASSUME NEW S \in Session, NEW key, NEW r \in PageResult, NEW T, T = WithResult(S, key, r)
    PROVE  /\ T \in Session /\ T.next_key = S.next_key
           /\ DOMAIN T.pages = DOMAIN S.pages
           /\ \A i \in DOMAIN S.pages : T.pages[i] = Put(S.pages[i], key, r)
           /\ DOMAIN T.splits = DOMAIN S.splits
           /\ \A i \in DOMAIN S.splits : T.splits[i] = PutSplit(S.splits[i], key, r)
<1>1. PICK ps \in Seq(Page) : ps = S.pages
    BY SessionTypes
<1>2. PICK ss \in Seq(PendingSplit) : ss = S.splits
    BY SessionTypes
<1>3. PICK k \in Nat : k = S.next_key
    BY SessionTypes
<1>4. S = [pages |-> ps, splits |-> ss, next_key |-> k]
    BY <1>1, <1>2, <1>3 DEF Session
<1>5. /\ Len(ps) \in Nat /\ DOMAIN ps = 1..Len(ps) /\ \A i \in DOMAIN ps : ps[i] \in Page
      /\ Len(ss) \in Nat /\ DOMAIN ss = 1..Len(ss)
      /\ \A i \in DOMAIN ss : ss[i] \in PendingSplit
    BY LenProperties, ElementOfSeq
<1>6. PICK qs : qs = [i \in DOMAIN ps |-> Put(ps[i], key, r)]
    OBVIOUS
<1>7. PICK ts : ts = [i \in DOMAIN ss |-> PutSplit(ss[i], key, r)]
    OBVIOUS
<1>8. qs \in Seq(Page)
    <2>1. qs \in [1..Len(ps) -> Page]
        BY <1>5, <1>6, PutIs
    <2> QED
        BY <1>5, <2>1, SeqDef
<1>9. ts \in Seq(PendingSplit)
    <2>1. \A i \in DOMAIN ss : PutSplit(ss[i], key, r) \in PendingSplit
        BY <1>5, PutIs DEF PutSplit, PendingSplit
    <2>2. ts \in [1..Len(ss) -> PendingSplit]
        BY <1>5, <1>7, <2>1
    <2> QED
        BY <1>5, <2>2, SeqDef
<1>10. T = [pages |-> qs, splits |-> ts, next_key |-> k]
    <2>1. ts = [i \in DOMAIN ss |->
                  [ss[i] EXCEPT !.first = Put(ss[i].first, key, r),
                                !.second = Put(ss[i].second, key, r)]]
        <3>1. ASSUME NEW i \in DOMAIN ss
              PROVE  PutSplit(ss[i], key, r)
                       = [ss[i] EXCEPT !.first = Put(ss[i].first, key, r),
                                       !.second = Put(ss[i].second, key, r)]
            <4>1. PICK x \in PendingSplit : x = ss[i]
                BY <1>5, <3>1
            <4>2. PICK a : a = Put(x.first, key, r)
                OBVIOUS
            <4>3. PICK b : b = Put(x.second, key, r)
                OBVIOUS
            <4>4. [x EXCEPT !.first = a, !.second = b]
                    = [original |-> x.original, first |-> a, second |-> b]
                <5>1. PICK y : y = [x EXCEPT !.first = a, !.second = b]
                    OBVIOUS
                <5>2. y \in [original : {x.original}, first : {a}, second : {b}]
                    BY <5>1 DEF PendingSplit
                <5> QED
                    BY <5>1, <5>2
            <4>5. PutSplit(x, key, r)
                    = [x EXCEPT !.first = Put(x.first, key, r), !.second = Put(x.second, key, r)]
                BY <4>2, <4>3, <4>4 DEF PutSplit
            <4> QED
                BY <4>1, <4>5
        <3> QED
            BY <1>7, <3>1
    <2>2. T = [S EXCEPT !.pages = qs, !.splits = ts]
        BY <1>1, <1>2, <1>6, <2>1 DEF WithResult, Put
    <2> QED
        BY <1>4, <2>2
<1> QED
    BY <1>1, <1>2, <1>3, <1>6, <1>7, <1>8, <1>9, <1>10 DEF Session

\* A stored page of it is a page of S with or without the new result.
LEMMA WithResultStored ==
    ASSUME NEW S \in Session, NEW key, NEW r \in PageResult, NEW T, T = WithResult(S, key, r)
    PROVE  /\ \A q \in Stored(T) : \E p \in Stored(S) : q = Put(p, key, r)
           /\ \A p \in Stored(S) : Put(p, key, r) \in Stored(T)
<1>1. /\ DOMAIN T.pages = DOMAIN S.pages
      /\ \A i \in DOMAIN S.pages : T.pages[i] = Put(S.pages[i], key, r)
      /\ DOMAIN T.splits = DOMAIN S.splits
      /\ \A i \in DOMAIN S.splits : T.splits[i] = PutSplit(S.splits[i], key, r)
    BY WithResultIs
<1>2. \A i \in DOMAIN S.splits : /\ T.splits[i].first = Put(S.splits[i].first, key, r)
                                 /\ T.splits[i].second = Put(S.splits[i].second, key, r)
    BY <1>1, PutSplitIs
<1>3. ASSUME NEW q \in Stored(T) PROVE \E p \in Stored(S) : q = Put(p, key, r)
    <2>1. CASE \E i \in DOMAIN T.pages : q = T.pages[i]
        BY <1>1, <2>1, StoredIs
    <2>2. CASE \E i \in DOMAIN T.splits : q = T.splits[i].first \/ q = T.splits[i].second
        BY <1>1, <1>2, <2>2, StoredIs
    <2> QED
        BY <1>3, <2>1, <2>2, StoredIs
<1>4. ASSUME NEW p \in Stored(S) PROVE Put(p, key, r) \in Stored(T)
    <2>1. CASE \E i \in DOMAIN S.pages : p = S.pages[i]
        BY <1>1, <2>1, StoredIs
    <2>2. CASE \E i \in DOMAIN S.splits : p = S.splits[i].first \/ p = S.splits[i].second
        BY <1>1, <1>2, <2>2, StoredIs
    <2> QED
        BY <1>4, <2>1, <2>2, StoredIs
<1> QED
    BY <1>3, <1>4

\* A result that fits the page it is for leaves the session as it was.
LEMMA WithResultOK ==
    ASSUME NEW S, NEW sv, SessionOK(S, sv), NEW key, NEW r \in PageResult,
           \A p \in Stored(S) : p.key = key => Fits(sv, p, r),
           NEW T, T = WithResult(S, key, r)
    PROVE  SessionOK(T, sv) /\ Follows(S, T)
<1>1. S \in Session
    BY DEF SessionOK
<1>2. /\ T \in Session /\ T.next_key = S.next_key
      /\ DOMAIN T.pages = DOMAIN S.pages
      /\ \A i \in DOMAIN S.pages : T.pages[i] = Put(S.pages[i], key, r)
      /\ DOMAIN T.splits = DOMAIN S.splits
      /\ \A i \in DOMAIN S.splits : T.splits[i] = PutSplit(S.splits[i], key, r)
    BY <1>1, WithResultIs
<1>3. ASSUME NEW q \in Stored(T)
      PROVE  \E p \in Stored(S) : q = Put(p, key, r)
    BY <1>1, <1>3, WithResultStored
<1>4. \A p \in Stored(S) :
         /\ p \in Page /\ SameRange(p, Put(p, key, r))
         /\ Put(p, key, r).result = IF p.key = key THEN r ELSE p.result
    BY <1>1, SessionTypes, PutIs
<1>5. ASSUME NEW p, NEW q, SameRange(p, q) PROVE EndIn(sv, q) = EndIn(sv, p)
    BY <1>5 DEF SameRange, EndIn
<1>6. KeysUnique(T)
    <2>1. ASSUME NEW p \in Stored(T), NEW q \in Stored(T), p.key = q.key PROVE p = q
        <3>1. PICK o \in Stored(S) : p = Put(o, key, r)
            BY <1>3, <2>1
        <3>2. PICK n \in Stored(S) : q = Put(n, key, r)
            BY <1>3, <2>1
        <3>3. o.key = n.key
            BY <1>4, <2>1, <3>1, <3>2 DEF SameRange
        <3>4. o = n
            BY <3>3 DEF SessionOK, KeysUnique
        <3> QED
            BY <3>1, <3>2, <3>4
    <2> QED
        BY <2>1 DEF KeysUnique
<1>7. KeysGiven(T)
    <2>1. ASSUME NEW q \in Stored(T) PROVE q.key <= T.next_key
        <3>1. PICK p \in Stored(S) : q = Put(p, key, r)
            BY <1>3, <2>1
        <3> QED
            BY <1>2, <1>4, <3>1 DEF SessionOK, KeysGiven, SameRange
    <2> QED
        BY <2>1 DEF KeysGiven
<1>8. ASSUME NEW q \in Stored(T) PROVE PageOK(sv, q)
    <2>1. PICK p \in Stored(S) : q = Put(p, key, r)
        BY <1>3, <1>8
    <2>2. /\ p \in Page /\ SameRange(p, q) /\ q.result = IF p.key = key THEN r ELSE p.result
          /\ EndIn(sv, q) = EndIn(sv, p)
        BY <1>4, <1>5, <2>1
    <2>3. PageOK(sv, p)
        BY DEF SessionOK
    <2>4. Fits(sv, p, q.result)
        BY <2>2, <2>3 DEF PageOK
    <2>5. Fits(sv, q, q.result)
        BY <2>2, <2>4 DEF Fits, SameRange
    <2> QED
        BY <2>2, <2>3, <2>5 DEF PageOK, SameRange
<1>9. SplitsOK(T, sv)
    <2>1. ASSUME NEW i \in DOMAIN T.splits
          PROVE  \E q \in ToSet(T.pages) : Covers(sv, T.splits[i], q)
        <3>1. PICK o \in ToSet(S.pages) : Covers(sv, S.splits[i], o)
            BY <1>2, <2>1 DEF SessionOK, SplitsOK
        <3>2. PICK j \in DOMAIN S.pages : o = S.pages[j]
            BY <3>1 DEF ToSet
        <3>3. PICK q : q = Put(o, key, r)
            OBVIOUS
        <3>4. q \in ToSet(T.pages)
            BY <1>2, <3>2, <3>3 DEF ToSet
        <3>5. o \in Stored(S) /\ S.splits[i].first \in Stored(S) /\ S.splits[i].second \in Stored(S)
            BY <1>1, <1>2, <2>1, <3>2, SessionTypes
        <3>6. SameRange(o, q) /\ EndIn(sv, q) = EndIn(sv, o)
            BY <1>4, <1>5, <3>3, <3>5
        <3>7. /\ T.splits[i].original = S.splits[i].original
              /\ SameRange(S.splits[i].first, T.splits[i].first)
              /\ SameRange(S.splits[i].second, T.splits[i].second)
            BY <1>2, <1>4, <2>1, <3>5, PutSplitIs
        <3>8. Covers(sv, T.splits[i], q)
            BY <3>1, <3>6, <3>7 DEF Covers, SameRange
        <3> QED
            BY <3>4, <3>8
    <2>2. \A i \in DOMAIN T.splits : T.splits[i].original = S.splits[i].original
        BY <1>2, PutSplitIs
    <2>3. \A i, j \in DOMAIN T.splits : T.splits[i].original = T.splits[j].original => i = j
        BY <1>2, <2>2 DEF SessionOK, SplitsOK
    <2> QED
        BY <2>1, <2>3 DEF SplitsOK
<1>10. SeamsOK(T.pages, sv)
    <2>1. \A i \in DOMAIN S.pages : SameRange(S.pages[i], T.pages[i])
                                    /\ EndIn(sv, T.pages[i]) = EndIn(sv, S.pages[i])
        BY <1>1, <1>2, <1>4, <1>5, SessionTypes
    <2>2. \A i \in DOMAIN S.pages : i # 1 => i - 1 \in DOMAIN S.pages
        BY <1>1, SessionTypes
    <2>3. SeamsOK(S.pages, sv)
        BY DEF SessionOK
    <2> QED
        BY <1>2, <2>1, <2>2, <2>3 DEF SeamsOK, SameRange
<1>11. Follows(S, T)
    <2>1. S.next_key <= T.next_key
        BY <1>1, <1>2, SessionTypes
    <2>2. \A q \in Stored(T) : \E p \in Stored(S) : SameRange(p, q)
        BY <1>3, <1>4
    <2> QED
        BY <2>1, <2>2 DEF Follows
<1> QED
    BY <1>2, <1>6, <1>7, <1>8, <1>9, <1>10, <1>11 DEF SessionOK

-----------------------------------------------------------------------------
(* Sessions that are subscribed.                                           *)

\* What is stored with a new page p behind the last one.
Added(T, S, cursor, p) ==
    /\ p \in Page /\ p.key = S.next_key + 1 /\ p.cursor = cursor
    /\ p.end_cursor = None /\ p.result = NoResult
    /\ T \in Session /\ T.next_key = S.next_key + 1 /\ T.splits = S.splits
    /\ DOMAIN T.pages = 1..(Len(S.pages) + 1)
    /\ \A i \in 1..Len(S.pages) : T.pages[i] = S.pages[i]
    /\ T.pages[Len(S.pages) + 1] = p
    /\ T.pages # <<>>
    /\ \A q : q \in Stored(T) <=> q \in Stored(S) \/ q = p

\* The page is added with a key of its own.
LEMMA AddPageIs ==
    ASSUME NEW S \in Session, NEW num \in Nat \ {0}, NEW cursor \in Cursors,
           NEW T, T = AddPage(S, num, cursor),
           NEW p, p = NewPage(S.next_key + 1, cursor, None, num)
    PROVE  Added(T, S, cursor, p)
<1>2. PICK ps \in Seq(Page) : ps = S.pages
    BY SessionTypes
<1>3. PICK ss \in Seq(PendingSplit) : ss = S.splits
    BY SessionTypes
<1>4. PICK k \in Nat : k = S.next_key
    BY SessionTypes
<1>5. PICK n \in Nat : n = Len(ps) /\ DOMAIN ps = 1..n
    BY <1>2, LenProperties
<1>6. p = NewPage(k + 1, cursor, None, num)
    BY <1>4
<1>7. /\ p \in Page /\ p.key = k + 1 /\ p.cursor = cursor /\ p.end_cursor = None
      /\ p.result = NoResult
    <2>1. NoResult \in PageResult /\ None \in Ends
        BY DEF PageResult, Ends
    <2> QED
        BY <1>4, <1>6, <2>1 DEF NewPage, Page
<1>8. PICK w : w = Append(ps, p)
    OBVIOUS
<1>9. /\ w \in Seq(Page) /\ Len(w) = n + 1 /\ DOMAIN w = 1..(n + 1)
      /\ \A i \in 1..n : w[i] = ps[i]
      /\ w[n + 1] = p
    <2>1. /\ w \in Seq(Page) /\ Len(w) = Len(ps) + 1
          /\ \A i \in 1..Len(ps) : w[i] = ps[i]
          /\ w[Len(ps) + 1] = p
        BY <1>2, <1>7, <1>8, AppendProperties
    <2> QED
        BY <1>5, <2>1, LenProperties
<1>10. T = [pages |-> w, splits |-> ss, next_key |-> k + 1]
    <2>1. S = [pages |-> ps, splits |-> ss, next_key |-> k]
        BY <1>2, <1>3, <1>4 DEF Session
    <2>2. T = [S EXCEPT !.pages = w, !.next_key = k + 1]
        BY <1>2, <1>4, <1>6, <1>8 DEF AddPage
    <2> QED
        BY <2>1, <2>2
<1>11. /\ T \in Session /\ T.pages = w /\ T.splits = ss /\ T.next_key = k + 1
    BY <1>3, <1>4, <1>9, <1>10 DEF Session
<1>12. ASSUME NEW q PROVE q \in Stored(T) <=> q \in Stored(S) \/ q = p
    <2>1. ASSUME NEW i \in DOMAIN w
          PROVE  (i \in DOMAIN ps /\ w[i] = ps[i]) \/ (i = n + 1 /\ w[i] = p)
        <3>1. CASE i \in 1..n
            BY <1>5, <1>9, <3>1
        <3>2. CASE i = n + 1
            BY <1>9, <3>2
        <3> QED
            BY <1>5, <1>9, <2>1, <3>1, <3>2
    <2>2. \A i \in DOMAIN ps : i \in DOMAIN w /\ w[i] = ps[i]
        BY <1>5, <1>9
    <2>3. n + 1 \in DOMAIN w
        BY <1>5, <1>9
    <2>4. (\E i \in DOMAIN w : q = w[i]) <=> (\E i \in DOMAIN ps : q = ps[i]) \/ q = p
        BY <1>9, <2>1, <2>2, <2>3
    <2> QED
        BY <1>2, <1>3, <1>11, <2>4, StoredIs
<1> QED
    BY <1>2, <1>3, <1>4, <1>5, <1>7, <1>9, <1>11, <1>12 DEF Added

\* A page behind the last one, or the only one: it has no end yet.
LEMMA AddPageOK ==
    ASSUME NEW S, NEW sv, SessionOK(S, sv), NEW num \in Nat \ {0}, NEW cursor \in Cursors,
           S.next_key + 1 \in DOMAIN sv, sv[S.next_key + 1].end = None,
           IF S.pages = <<>> THEN cursor = 0 ELSE EndIn(sv, S.pages[Len(S.pages)]) = cursor,
           NEW T, T = AddPage(S, num, cursor)
    PROVE  SessionOK(T, sv) /\ Follows(S, T)
<1>1. S \in Session
    BY DEF SessionOK
<1>2. PICK ps \in Seq(Page) : ps = S.pages
    BY <1>1, SessionTypes
<1>4. PICK k \in Nat : k = S.next_key
    BY <1>1, SessionTypes
<1>5. PICK n \in Nat : n = Len(ps) /\ DOMAIN ps = 1..n
    BY <1>2, LenProperties
<1>6. PICK p : p = NewPage(S.next_key + 1, cursor, None, num)
    OBVIOUS
<1>7. PICK w : w = T.pages
    OBVIOUS
<1>a. Added(T, S, cursor, p)
    BY <1>1, <1>6, AddPageIs
<1>8. /\ p \in Page /\ p.key = k + 1 /\ p.cursor = cursor /\ p.end_cursor = None
      /\ p.result = NoResult
      /\ T \in Session /\ T.next_key = k + 1 /\ T.splits = S.splits
      /\ \A q : q \in Stored(T) <=> q \in Stored(S) \/ q = p
    BY <1>4, <1>a DEF Added
<1>9. /\ DOMAIN w = 1..(n + 1)
      /\ \A i \in 1..n : w[i] = ps[i]
      /\ w[n + 1] = p
    BY <1>2, <1>5, <1>7, <1>a DEF Added
<1>13. \A q \in Stored(S) : q \in Page /\ q.key \in Nat /\ q.key <= k
    BY <1>1, <1>4, SessionTypes DEF SessionOK, KeysGiven, Page
<1>14. KeysUnique(T)
    BY <1>4, <1>8, <1>13 DEF SessionOK, KeysUnique
<1>15. KeysGiven(T)
    BY <1>4, <1>8, <1>13 DEF KeysGiven
<1>16. PageOK(sv, p)
    <2>1. EndIn(sv, p) = None
        BY <1>4, <1>8 DEF EndIn
    <2> QED
        BY <1>4, <1>8, <2>1 DEF PageOK, Ends, Fits, Parsed, NoResult
<1>17. \A q \in Stored(T) : PageOK(sv, q)
    BY <1>8, <1>16 DEF SessionOK
<1>18. SplitsOK(T, sv)
    <2>1. \A q \in ToSet(ps) : q \in ToSet(w)
        <3>1. \A i \in DOMAIN ps : i \in DOMAIN w /\ w[i] = ps[i]
            BY <1>5, <1>9
        <3> QED
            BY <3>1 DEF ToSet
    <2>2. SplitsOK(S, sv)
        BY DEF SessionOK
    <2> QED
        BY <1>2, <1>7, <1>8, <2>1, <2>2 DEF SplitsOK
<1>19. SeamsOK(w, sv)
    <2>1. ASSUME NEW i \in DOMAIN w
          PROVE  IF i = 1 THEN w[i].cursor = 0 ELSE EndIn(sv, w[i - 1]) = w[i].cursor
        <3>1. CASE i \in DOMAIN ps
            <4>1. i # 1 => i - 1 \in 1..n
                BY <1>5, <3>1
            <4>2. SeamsOK(ps, sv)
                BY <1>2 DEF SessionOK
            <4> QED
                BY <1>5, <1>9, <3>1, <4>1, <4>2 DEF SeamsOK
        <3>2. CASE i = n + 1 /\ n = 0
            <4>1. S.pages = <<>>
                BY <1>2, <1>5, <3>2, EmptySeq
            <4> QED
                BY <1>8, <1>9, <3>2, <4>1
        <3>3. CASE i = n + 1 /\ n # 0
            <4>1. S.pages # <<>> /\ i # 1 /\ i - 1 = n /\ n \in 1..n
                BY <1>2, <1>5, <3>3
            <4>2. EndIn(sv, ps[n]) = cursor
                BY <1>2, <1>5, <4>1
            <4>3. w[n] = ps[n] /\ w[i] = p
                BY <1>9, <3>3, <4>1
            <4> QED
                BY <1>8, <4>1, <4>2, <4>3
        <3> QED
            BY <1>5, <1>9, <2>1, <3>1, <3>2, <3>3
    <2> QED
        BY <2>1 DEF SeamsOK
<1>20. SessionOK(T, sv)
    BY <1>7, <1>8, <1>14, <1>15, <1>17, <1>18, <1>19 DEF SessionOK
<1>21. Follows(S, T)
    BY <1>4, <1>8 DEF Follows, SameRange
<1> QED
    BY <1>20, <1>21

\* The journals after a step to session T: those of pages that stay.
Kept(T) ==
    [k \in Keys(T) |-> IF k \in DOMAIN served THEN served[k] ELSE [end |-> None, told |-> NoResult]]

\* A page that was there keeps its end.
LEMMA KeptGrown ==
    ASSUME NEW S, SessionOK(S, served), NEW T, NEW sw, sw = Kept(T),
           \A q \in Stored(S) : q.key \in Keys(T)
    PROVE  Grown(S, served, sw)
<1>1. ASSUME NEW q \in Stored(S)
      PROVE  /\ q.end_cursor = None => q.key \in DOMAIN sw
             /\ EndIn(sw, q) = EndIn(served, q)
    <2>1. PageOK(served, q)
        BY DEF SessionOK
    <2>2. q.key \in DOMAIN sw
        BY DEF Kept
    <2>3. q.end_cursor = None => sw[q.key] = served[q.key]
        BY <2>1, <2>2 DEF PageOK, Kept
    <2> QED
        BY <2>2, <2>3 DEF EndIn
<1> QED
    BY <1>1 DEF SessionOK, PageOK, Grown

\* The queue and the journals still fit when the session becomes T.
LEMMA BecomeOK ==
    ASSUME SessionOK(Here, served), QueueOK, ServerOK, NEW T, Become(T), Follows(Here, T),
           SessionOK(T, Kept(T)), list' = list,
           queue' = queue \/ (queue # <<>> /\ queue' = Tail(queue)), TypeOK
    PROVE  SessionOK(Here, served)' /\ QueueOK' /\ ServerOK'
<1>1. T \in Session
    BY DEF SessionOK
<1>2. served' = Kept(T)
    BY DEF Become, Kept
<1>3. Here' = T
    <2>1. pages' = T.pages /\ splits' = T.splits /\ next_key' = T.next_key
        BY DEF Become
    <2> QED
        BY <1>1, <2>1 DEF Here, Session
<1>4. SessionOK(Here, served)'
    <2>1. SessionOK(T, served')
        BY <1>2
    <2>2. SessionOK(Here', served')
        BY <1>3, <2>1
    <2> QED
        BY <2>2
<1>5. Here.next_key = next_key /\ next_key' = T.next_key
    BY DEF Here, Become
<1>6. next_key \in Nat /\ T.next_key \in Nat /\ next_key <= next_key'
    <2>1. Here \in Session
        BY DEF SessionOK
    <2>2. Here.next_key \in Nat /\ T.next_key \in Nat
        BY <1>1, <2>1, SessionTypes
    <2> QED
        BY <1>5, <2>2 DEF Follows
<1>7. ASSUME NEW i \in DOMAIN queue, NEW q \in Stored(T), q.key = queue[i].key
      PROVE  Fits(served', q, queue[i].result)
    <2>1. queue[i].key <= next_key /\ queue[i].key \in Nat /\ queue[i].result \in PageResult
        <3>1. queue[i] \in PageEvent
            BY ElementOfSeq, LenProperties DEF TypeOK
        <3> QED
            BY <3>1 DEF QueueOK, PageEvent, PageResult
    <2>2. PICK p \in Stored(Here) : SameRange(p, q)
        <3>1. ~(q.key > Here.next_key)
            BY <1>5, <1>6, <1>7, <2>1
        <3> QED
            BY <1>7, <3>1 DEF Follows
    <2>3. Fits(served, p, queue[i].result)
        BY <1>7, <2>2 DEF QueueOK, SameRange
    <2>4. PageOK(served, p) /\ p.key \in Keys(T)
        BY <1>7, <2>2 DEF SessionOK, SameRange, Keys
    <2>5. p.end_cursor = None => served'[p.key] = served[p.key]
        BY <1>2, <2>4 DEF PageOK, Kept
    <2>6. EndIn(served', q) = EndIn(served, p) /\ q.cursor = p.cursor
        BY <2>2, <2>5 DEF EndIn, SameRange
    <2> QED
        BY <2>3, <2>6 DEF Fits
<1>8. QueueOK'
    <2>1. ASSUME NEW i \in DOMAIN queue'
          PROVE  \E j \in DOMAIN queue : queue'[i] = queue[j]
        <3>1. CASE queue' = queue
            BY <2>1, <3>1
        <3>2. CASE queue # <<>> /\ queue' = Tail(queue)
            <4>1. PICK Q \in Seq(PageEvent) : Q = queue
                BY DEF TypeOK
            <4>2. PICK n \in Nat \ {0} : n = Len(Q) /\ DOMAIN Q = 1..n
                BY <3>2, <4>1, LenProperties, EmptySeq
            <4>3. /\ Tail(Q) \in Seq(PageEvent) /\ Len(Tail(Q)) = n - 1
                  /\ \A j \in 1..(n - 1) : Tail(Q)[j] = Q[j + 1]
                <5>1. /\ Tail(Q) \in Seq(PageEvent) /\ Len(Tail(Q)) = Len(Q) - 1
                      /\ \A j \in 1..Len(Tail(Q)) : Tail(Q)[j] = Q[j + 1]
                    BY <3>2, <4>1, HeadTailProperties
                <5> QED
                    BY <4>2, <5>1
            <4>4. i \in 1..(n - 1)
                BY <2>1, <3>2, <4>1, <4>3, LenProperties
            <4>5. i + 1 \in 1..n
                BY <4>2, <4>4
            <4> QED
                BY <3>2, <4>1, <4>2, <4>3, <4>4, <4>5
        <3> QED
            BY <3>1, <3>2
    <2>2. \A j \in DOMAIN queue : queue[j].key <= next_key'
        <3>1. \A j \in DOMAIN queue : queue[j].key \in Nat /\ queue[j].key <= next_key
            <4>1. \A j \in DOMAIN queue : queue[j] \in PageEvent
                BY ElementOfSeq, LenProperties DEF TypeOK
            <4> QED
                BY <4>1 DEF QueueOK, PageEvent
        <3> QED
            BY <1>5, <1>6, <3>1
    <2>3. \A i \in DOMAIN queue' :
             /\ queue'[i].key <= next_key'
             /\ \A p \in Stored(T) : p.key = queue'[i].key => Fits(served', p, queue'[i].result)
        BY <1>7, <2>1, <2>2
    <2>4. \A i \in DOMAIN queue' :
             /\ queue'[i].key <= next_key'
             /\ \A p \in Stored(Here') :
                   p.key = queue'[i].key => Fits(served', p, queue'[i].result)
        BY <1>3, <2>3
    <2> QED
        BY <2>4 DEF QueueOK
<1>9. ServerOK'
    <2>1. served' \in [Keys(T) -> Journal]
        <3>1. [end |-> None, told |-> NoResult] \in Journal
            BY DEF Journal, Ends, PageResult
        <3>2. \A k \in DOMAIN served : served[k] \in Journal
            BY DEF ServerOK
        <3> QED
            BY <1>2, <3>1, <3>2 DEF Kept
    <2>2. served' \in [Keys(Here') -> Journal]
        BY <1>3, <2>1
    <2> QED
        BY <2>2 DEF ServerOK
<1> QED
    BY <1>4, <1>8, <1>9

-----------------------------------------------------------------------------
(* compute_snapshot().                                                     *)

\* The greatest of some numbers up to n.
LEMMA MaxUpTo ==
    ASSUME NEW n \in Nat, NEW S \in SUBSET (0..n), S # {}
    PROVE  Max(S) \in S /\ \A y \in S : Max(S) >= y
<1> DEFINE T == {n - i : i \in S}
<1>1. T \subseteq Nat /\ T # {}
    <2>1. \A i \in S : i \in 0..n /\ n - i \in Nat
        OBVIOUS
    <2>2. PICK i \in S : TRUE
        OBVIOUS
    <2>3. n - i \in T
        OBVIOUS
    <2> QED
        BY <2>1, <2>3
<1>2. PICK x \in T : \A y \in T : ~ (<<y, x>> \in OpToRel(<, Nat))
    BY <1>1, NatLessThanWellFounded, WFMin
<1>3. \A y \in T : ~ (y < x)
    BY <1>1, <1>2 DEF OpToRel
<1>4. PICK i \in S : x = n - i
    BY <1>2
<1>5. \A j \in S : i >= j
    <2> TAKE j \in S
    <2>1. n - j \in T
        OBVIOUS
    <2>2. i \in 0..n /\ j \in 0..n /\ ~(n - j < n - i)
        BY <2>1, <1>3, <1>4
    <2> QED
        BY <2>2
<1> QED
    BY <1>5 DEF Max

\* How many pages of a list the snapshot shows.
ShownOf(ps) == Max({k \in 0..Len(ps) : \A i \in 1..k : Showable(ps[i])})

\* They are the pages before the first one that cannot be shown.
LEMMA ShownIs ==
    ASSUME NEW ps, NEW n \in Nat, n = Len(ps)
    PROVE  /\ ShownOf(ps) \in 0..n
           /\ \A i \in 1..ShownOf(ps) : Showable(ps[i])
           /\ \A k \in 0..n : (\A i \in 1..k : Showable(ps[i])) => k <= ShownOf(ps)
<1>1. PICK S : S = {k \in 0..n : \A i \in 1..k : Showable(ps[i])}
    OBVIOUS
<1>2. 0 \in S /\ S \in SUBSET (0..n)
    BY <1>1
<1>3. ShownOf(ps) = Max(S)
    BY <1>1 DEF ShownOf
<1>4. Max(S) \in S /\ \A y \in S : Max(S) >= y
    BY <1>2, MaxUpTo
<1>5. PICK m \in 0..n : m = ShownOf(ps) /\ m \in S /\ \A y \in S : m >= y
    BY <1>1, <1>3, <1>4
<1>6. \A k \in 0..n : (\A i \in 1..k : Showable(ps[i])) => k <= m
    BY <1>1, <1>5
<1> QED
    BY <1>1, <1>5, <1>6

\* load_more() finds a list that has been loaded to its last page.
LEMMA CanLoadMore ==
    ASSUME NEW n \in Nat \ {0}, n = Len(pages), pages # <<>>, Status = "can_load_more"
    PROVE  ShownOf(pages) = n /\ Showable(pages[n])
<1>1. Shown = ShownOf(pages)
    BY DEF Shown, ShownOf
<1>2. Shown = n
    <2>1. CASE Shown # Len(pages)
        <3>1. Status \in {"error", "loading_first_page", "loading_more"}
            BY <2>1 DEF Status
        <3> QED
            BY <3>1
    <2> QED
        BY <2>1
<1>3. n \in 1..ShownOf(pages)
    BY <1>1, <1>2
<1> QED
    BY <1>1, <1>2, <1>3, ShownIs

-----------------------------------------------------------------------------
(* The operations.                                                         *)

\* What the pages of a session have to do with what the server is asked.
LEMMA HereIs ==
    ASSUME SeamInv
    PROVE  /\ Here \in Session /\ Here.pages = pages /\ Here.splits = splits
           /\ Here.next_key = next_key
           /\ pages \in Seq(Page) /\ splits \in Seq(PendingSplit) /\ next_key \in Nat
           /\ \A p \in Stored(Here) : p \in Page /\ p.key \in Keys(Here) /\ PageOK(served, p)
           /\ DOMAIN served = Keys(Here)
           /\ \A k \in DOMAIN served : k \in Nat /\ k <= next_key
<1>1. Here \in Session
    BY DEF SeamInv, SessionOK
<1>2. Here.pages = pages /\ Here.splits = splits /\ Here.next_key = next_key
    BY DEF Here
<1>3. pages \in Seq(Page) /\ splits \in Seq(PendingSplit) /\ next_key \in Nat
    <2>1. Here.pages \in Seq(Page) /\ Here.splits \in Seq(PendingSplit) /\ Here.next_key \in Nat
        BY <1>1, SessionTypes
    <2> QED
        BY <1>2, <2>1
<1>4. \A p \in Stored(Here) : p \in Page /\ p.key \in Keys(Here) /\ PageOK(served, p)
    BY <1>1, SessionTypes DEF SeamInv, SessionOK, Keys
<1>5. DOMAIN served = Keys(Here)
    BY DEF SeamInv, ServerOK
<1>6. \A k \in DOMAIN served : k \in Nat /\ k <= next_key
    BY <1>2, <1>4, <1>5 DEF Keys, SeamInv, SessionOK, KeysGiven, Page
<1> QED
    BY <1>1, <1>2, <1>3, <1>4, <1>5, <1>6

\* What a step of the session keeps.
SessionStep == SessionOK(Here, served)' /\ QueueOK' /\ ServerOK'

\* A session that fits the journals fits those that are kept.
LEMMA StepOK ==
    ASSUME SeamInv, NEW T, SessionOK(T, served), Follows(Here, T), Become(T), list' = list,
           queue' = queue \/ (queue # <<>> /\ queue' = Tail(queue))
    PROVE  SessionStep
<1>1. \A q \in Stored(T) : q.key \in Keys(T)
    BY DEF Keys
<1>2. PICK sw : sw = Kept(T)
    OBVIOUS
<1>3. Grown(T, served, sw)
    BY <1>1, <1>2, KeptGrown
<1>4. SessionOK(T, sw)
    BY <1>3, SessionGrown
<1> QED
    BY <1>2, <1>4, BecomeOK DEF SeamInv, SessionStep

\* A page is asked for behind a session that fits the journals.
LEMMA NewPageOK ==
    ASSUME SeamInv, NEW S, SessionOK(S, served), Follows(Here, S), S.next_key = next_key,
           NEW num \in Nat \ {0}, NEW cursor \in Cursors,
           IF S.pages = <<>> THEN cursor = 0
           ELSE EndIn(served, S.pages[Len(S.pages)]) = cursor,
           NEW T, T = AddPage(S, num, cursor)
    PROVE  SessionOK(T, Kept(T)) /\ Follows(Here, T) /\ T.pages # <<>>
<1>1. S \in Session /\ Here \in Session /\ next_key \in Nat
    BY HereIs DEF SessionOK
<1>2. PICK p : p = NewPage(S.next_key + 1, cursor, None, num)
    OBVIOUS
<1>3. Added(T, S, cursor, p)
    BY <1>1, <1>2, AddPageIs
<1>4. PICK sw : sw = Kept(T)
    OBVIOUS
<1>5. \A q \in Stored(S) : q.key \in Keys(T)
    BY <1>3 DEF Added, Keys
<1>6. Grown(S, served, sw)
    BY <1>4, <1>5, KeptGrown
<1>7. SessionOK(S, sw)
    BY <1>6, SessionGrown
<1>8. S.next_key + 1 \in DOMAIN sw /\ sw[S.next_key + 1].end = None
    <2>1. S.next_key + 1 \in Keys(T)
        BY <1>3 DEF Added, Keys
    <2>2. S.next_key + 1 \notin DOMAIN served
        BY <1>1, HereIs
    <2> QED
        BY <1>4, <2>1, <2>2 DEF Kept
<1>9. IF S.pages = <<>> THEN cursor = 0 ELSE EndIn(sw, S.pages[Len(S.pages)]) = cursor
    <2>1. CASE S.pages = <<>>
        BY <2>1
    <2>2. CASE S.pages # <<>>
        <3>1. Len(S.pages) \in DOMAIN S.pages
            <4>1. S.pages \in Seq(Page)
                BY <1>1, SessionTypes
            <4> QED
                BY <2>2, <4>1, EmptySeq, LenProperties
        <3>2. S.pages[Len(S.pages)] \in Stored(S)
            BY <3>1, StoredIs
        <3>3. cursor # None
            BY PaginationAssumption DEF Cursors, None
        <3> QED
            BY <1>6, <2>2, <3>2, <3>3 DEF Grown
    <2> QED
        BY <2>1, <2>2
<1>10. SessionOK(T, sw) /\ Follows(S, T)
    BY <1>7, <1>8, <1>9, AddPageOK
<1>11. T \in Session /\ T.pages # <<>>
    BY <1>3 DEF Added
<1> QED
    BY <1>1, <1>4, <1>10, <1>11, FollowsOn

\* A session without pages.
Empty == [pages |-> <<>>, splits |-> <<>>, next_key |-> next_key]

\* It fits any journals, and comes of the session there is.
LEMMA EmptyOK ==
    ASSUME next_key \in Nat, Here.next_key = next_key, NEW sv
    PROVE  SessionOK(Empty, sv) /\ Follows(Here, Empty)
<1>1. Empty \in Session /\ Empty.pages = <<>> /\ Empty.splits = <<>> /\ Empty.next_key = next_key
    BY DEF Empty, Session
<1>2. DOMAIN <<>> = {}
    OBVIOUS
<1>3. \A q : q \notin Stored(Empty)
    BY <1>1, <1>2, StoredIs
<1>4. KeysUnique(Empty) /\ KeysGiven(Empty) /\ \A q \in Stored(Empty) : PageOK(sv, q)
    BY <1>3 DEF KeysUnique, KeysGiven
<1>5. SplitsOK(Empty, sv) /\ SeamsOK(Empty.pages, sv)
    BY <1>1, <1>2 DEF SplitsOK, SeamsOK
<1>6. SessionOK(Empty, sv)
    BY <1>1, <1>4, <1>5 DEF SessionOK
<1>7. Follows(Here, Empty)
    BY <1>1, <1>3 DEF Follows
<1> QED
    BY <1>6, <1>7

\* load_more() asks for the page behind the last one.
LEMMA LoadMoreOK ==
    ASSUME SeamInv, NEW num \in LoadSizes, LoadMore(num)
    PROVE  SessionStep /\ pages' # <<>>
<1>1. /\ pages \in Seq(Page) /\ next_key \in Nat /\ pages # <<>>
      /\ Here.pages = pages /\ Here.next_key = next_key
    BY HereIs DEF SeamInv, LoadMore
<1>2. PICK n \in Nat \ {0} : n = Len(pages) /\ DOMAIN pages = 1..n
    BY <1>1, LenProperties, EmptySeq
<1>3. PICK p \in Page : p = pages[n] /\ p \in Stored(Here) /\ PageOK(served, p)
    <2>1. pages[n] \in Page
        BY <1>1, <1>2, ElementOfSeq
    <2>2. pages[n] \in Stored(Here)
        BY <1>1, <1>2, StoredIs
    <2> QED
        BY <2>1, <2>2, HereIs
<1>4. PICK cursor : cursor = p.result.continue_cursor
    OBVIOUS
<1>5. cursor \in Cursors /\ EndIn(served, p) = cursor
    <2>1. Parsed(p.result)
        BY <1>1, <1>2, <1>3, CanLoadMore DEF LoadMore, Showable
    <2>2. p.result \in GoodResult
        BY <1>3, <2>1 DEF Parsed, Page, PageResult, PageAnswer, NoResult
    <2> QED
        BY <1>3, <1>4, <2>1, <2>2 DEF GoodResult, PageOK, Fits
<1>6. PICK T : T = AddPage(Here, num, cursor)
    OBVIOUS
<1>7. Become(T) /\ list' = list /\ queue' = queue
    <2>1. Last(pages) = p
        BY <1>2, <1>3 DEF Last
    <2> QED
        BY <1>4, <1>6, <2>1 DEF LoadMore
<1>8. SessionOK(T, Kept(T)) /\ Follows(Here, T) /\ T.pages # <<>>
    <2>1. SessionOK(Here, served) /\ Follows(Here, Here)
        BY HereIs, FollowsItself DEF SeamInv
    <2>2. Here.pages[Len(Here.pages)] = p /\ Here.pages # <<>>
        BY <1>1, <1>2, <1>3
    <2>3. num \in Nat \ {0}
        BY PaginationAssumption
    <2> QED
        BY <1>1, <1>5, <1>6, <2>1, <2>2, <2>3, NewPageOK
<1>9. SessionStep
    BY <1>7, <1>8, BecomeOK DEF SeamInv, SessionStep
<1>10. pages' # <<>>
    BY <1>7, <1>8 DEF Become
<1> QED
    BY <1>9, <1>10

\* A fresh session starts at the beginning of the query.
LEMMA ResetSessionOK ==
    ASSUME SeamInv, Become(ResetSession), list' = list,
           queue' = queue \/ (queue # <<>> /\ queue' = Tail(queue))
    PROVE  SessionStep /\ pages' # <<>>
<1>1. next_key \in Nat /\ Here.next_key = next_key
    BY HereIs
<1>2. SessionOK(Empty, served) /\ Follows(Here, Empty)
    BY <1>1, EmptyOK
<1>3. PICK T : T = ResetSession
    OBVIOUS
<1>4. T = AddPage(Empty, initial_num_items, 0)
    BY <1>3 DEF ResetSession, Empty
<1>5. Empty.next_key = next_key /\ Empty.pages = <<>>
    BY DEF Empty
<1>6. initial_num_items \in Nat \ {0} /\ 0 \in Cursors
    BY PaginationAssumption DEF Cursors
<1>7. SessionOK(T, Kept(T)) /\ Follows(Here, T) /\ T.pages # <<>>
    BY <1>2, <1>4, <1>5, <1>6, NewPageOK
<1>8. SessionStep
    BY <1>3, <1>7, BecomeOK DEF SeamInv, SessionStep
<1>9. pages' # <<>>
    BY <1>3, <1>7 DEF Become
<1> QED
    BY <1>8, <1>9

\* stop() leaves a session without pages.
LEMMA StopOK ==
    ASSUME SeamInv, Stop
    PROVE  SessionStep
<1>1. next_key \in Nat /\ Here.next_key = next_key
    BY HereIs
<1>2. SessionOK(Empty, served) /\ Follows(Here, Empty)
    BY <1>1, EmptyOK
<1>3. Become(Empty) /\ list' = list /\ queue' = queue
    BY DEF Stop, Empty
<1> QED
    BY <1>2, <1>3, StepOK

\* A session that stays as it is.
LEMMA SameSession ==
    ASSUME SeamInv, UNCHANGED session
    PROVE  /\ Here' = Here /\ pages' = pages /\ next_key' = next_key
           /\ served' = served => Become(Here)
<1>1. pages' = pages /\ splits' = splits /\ next_key' = next_key
    BY DEF session
<1>2. Here' = Here
    BY <1>1 DEF Here
<1>3. ASSUME served' = served PROVE Become(Here)
    <2>1. PICK K : K = Keys(Here)
        OBVIOUS
    <2>2. served \in [K -> Journal]
        BY <2>1 DEF SeamInv, ServerOK
    <2>3. served = [k \in K |-> IF k \in DOMAIN served THEN served[k]
                                ELSE [end |-> None, told |-> NoResult]]
        BY <2>2
    <2> QED
        BY <1>1, <1>3, <2>1, <2>3, HereIs DEF Become
<1> QED
    BY <1>1, <1>2, <1>3

\* A step of the server: new results fit, and ends that are known stay.
LEMMA ServerStep ==
    ASSUME SeamInv, UNCHANGED session, list' \subseteq Positions,
           served' \in [Keys(Here) -> Journal], Grown(Here, served, served'),
           \A i \in DOMAIN queue' :
              \/ \E j \in DOMAIN queue : queue'[i] = queue[j]
              \/ /\ queue'[i].key <= next_key
                 /\ \A p \in Stored(Here) :
                       p.key = queue'[i].key => Fits(served', p, queue'[i].result)
    PROVE  SessionStep
<1>1. Here' = Here /\ next_key' = next_key
    BY SameSession
<1>2. SessionOK(Here, served)'
    <2>1. SessionOK(Here, served')
        BY SessionGrown DEF SeamInv
    <2>2. SessionOK(Here', served')
        BY <1>1, <2>1
    <2> QED
        BY <2>2
<1>3. ServerOK'
    <2>1. served' \in [Keys(Here') -> Journal]
        BY <1>1
    <2> QED
        BY <2>1 DEF ServerOK
<1>4. ASSUME NEW j \in DOMAIN queue
      PROVE  /\ queue[j].key <= next_key
             /\ \A p \in Stored(Here) : p.key = queue[j].key => Fits(served', p, queue[j].result)
    <2>1. queue[j] \in PageEvent
        BY ElementOfSeq, LenProperties DEF SeamInv, TypeOK
    <2>2. queue[j].result \in PageResult
        BY <2>1 DEF PageEvent, PageResult
    <2>3. ASSUME NEW p \in Stored(Here), p.key = queue[j].key
          PROVE  Fits(served', p, queue[j].result)
        <3>1. Fits(served, p, queue[j].result)
            BY <2>3 DEF SeamInv, QueueOK
        <3>2. EndIn(served, p) # None => EndIn(served', p) = EndIn(served, p)
            BY DEF Grown
        <3> QED
            BY <2>2, <3>1, <3>2, FitsGrown
    <2> QED
        BY <2>3 DEF SeamInv, QueueOK
<1>5. \A i \in DOMAIN queue' :
         /\ queue'[i].key <= next_key'
         /\ \A p \in Stored(Here') : p.key = queue'[i].key => Fits(served', p, queue'[i].result)
    BY <1>1, <1>4
<1>6. QueueOK'
    BY <1>5 DEF QueueOK
<1> QED
    BY <1>2, <1>3, <1>6 DEF SessionStep

\* Nothing of the session, the server and the queue changes, or one result is gone.
LEMMA IgnoredOK ==
    ASSUME SeamInv, UNCHANGED session, served' = served, list' = list,
           queue' = queue \/ (queue # <<>> /\ queue' = Tail(queue))
    PROVE  SessionStep
<1>1. Become(Here)
    BY SameSession
<1>2. SessionOK(Here, served) /\ Follows(Here, Here)
    BY HereIs, FollowsItself DEF SeamInv
<1> QED
    BY <1>1, <1>2, StepOK

\* The list changes: the pages' ends and the results on their way do not.
LEMMA ChangeOK ==
    ASSUME SeamInv, NEW items \in Commits, Change(items)
    PROVE  SessionStep
<1>1. UNCHANGED session /\ served' = served /\ queue' = queue /\ list' = SymDiff(list, items)
    BY DEF Change
<1>2. list' \subseteq Positions
    <2>1. items \subseteq Positions
        BY PaginationAssumption DEF Positions
    <2> QED
        BY <1>1, <2>1 DEF SymDiff, SeamInv, ServerOK
<1>3. served' \in [Keys(Here) -> Journal]
    BY <1>1 DEF SeamInv, ServerOK
<1>4. Grown(Here, served, served')
    <2>1. \A q \in Stored(Here) : PageOK(served, q)
        BY HereIs
    <2> QED
        BY <1>1, <2>1 DEF Grown, PageOK
<1> QED
    BY <1>1, <1>2, <1>3, <1>4, ServerStep

\* A query that fails keeps its journal's end.
LEMMA FaultOK ==
    ASSUME SeamInv, NEW k \in DOMAIN served, NEW kind \in {"error", "invalid", "malformed"},
           Fault(k, kind)
    PROVE  SessionStep /\ queue' \in Seq(PageEvent)
<1>1. PICK f : f = Failure(kind)
    OBVIOUS
<1>2. PICK e : e = Event(k, f)
    OBVIOUS
<1>3. UNCHANGED session /\ served' = [served EXCEPT ![k].told = f] /\ queue' = Append(queue, e)
      /\ list' = list
    BY <1>1, <1>2 DEF Fault
<1>4. f \in PageAnswer /\ f \in PageResult /\ f.kind # "page"
    BY <1>1 DEF Failure, PageAnswer, PageResult
<1>5. served \in [Keys(Here) -> Journal] /\ k \in Nat /\ k <= next_key
    BY HereIs DEF SeamInv, ServerOK
<1>6. e \in PageEvent /\ e.key = k /\ e.result = f
    BY <1>2, <1>4, <1>5 DEF Event, PageEvent, SeamInv, TypeOK
<1>7. /\ served' \in [Keys(Here) -> Journal]
      /\ \A x \in DOMAIN served : served'[x].end = served[x].end
    <2>1. served[k] \in Journal
        BY <1>5
    <2>2. PICK j : j = [served[k] EXCEPT !.told = f]
        OBVIOUS
    <2>3. j \in Journal /\ j.end = served[k].end
        BY <1>4, <2>1, <2>2 DEF Journal
    <2>4. served' = [served EXCEPT ![k] = j]
        BY <1>3, <2>2
    <2> QED
        BY <1>5, <2>3, <2>4
<1>8. Grown(Here, served, served')
    <2>1. \A q \in Stored(Here) : PageOK(served, q) /\ EndIn(served', q) = EndIn(served, q)
        BY <1>5, <1>7, HereIs DEF EndIn
    <2> QED
        BY <1>5, <1>7, <2>1, HereIs DEF Grown, PageOK
<1>9. PICK Q \in Seq(PageEvent) : Q = queue
    BY DEF SeamInv, TypeOK
<1>10. /\ Append(Q, e) \in Seq(PageEvent) /\ DOMAIN Append(Q, e) = 1..(Len(Q) + 1)
       /\ Len(Q) \in Nat /\ DOMAIN Q = 1..Len(Q)
       /\ \A i \in 1..Len(Q) : Append(Q, e)[i] = Q[i]
       /\ Append(Q, e)[Len(Q) + 1] = e
    BY <1>6, <1>9, AppendProperties, LenProperties
<1>11. ASSUME NEW i \in DOMAIN queue'
       PROVE  \/ \E j \in DOMAIN queue : queue'[i] = queue[j]
              \/ /\ queue'[i].key <= next_key
                 /\ \A p \in Stored(Here) :
                       p.key = queue'[i].key => Fits(served', p, queue'[i].result)
    <2>1. CASE i \in 1..Len(Q)
        BY <1>3, <1>9, <1>10, <2>1
    <2>2. CASE i = Len(Q) + 1
        BY <1>3, <1>4, <1>5, <1>6, <1>9, <1>10, <2>2 DEF Fits, Parsed
    <2>3. i \in 1..(Len(Q) + 1)
        BY <1>3, <1>9, <1>10, <1>11
    <2> QED
        BY <1>10, <2>1, <2>2, <2>3
<1>12. list' \subseteq Positions
    BY <1>3 DEF SeamInv, ServerOK
<1> QED
    BY <1>3, <1>7, <1>8, <1>9, <1>10, <1>11, <1>12, ServerStep

\* What a Transition makes of the journals: those of the queries in `sent`.
Told(now, sent) ==
    [k \in DOMAIN served |->
        IF k \in sent THEN [end |-> now[k].continue_cursor, told |-> now[k]] ELSE served[k]]

\* Results of a Transition fit the pages they are for.
LEMMA ToldOK ==
    ASSUME SeamInv, NEW page, page = [k \in DOMAIN served |-> FindPage(Here, k)],
           NEW end, end = [k \in DOMAIN served |-> RangeEnd(page[k])],
           NEW now, now = [k \in DOMAIN served |-> Evaluate(page[k], end[k])],
           NEW sent \in SUBSET DOMAIN served, NEW sw, sw = Told(now, sent)
    PROVE  /\ \A k \in DOMAIN served : now[k] \in GoodResult
           /\ sw \in [Keys(Here) -> Journal]
           /\ Grown(Here, served, sw)
           /\ \A k \in sent : \A p \in Stored(Here) : p.key = k => Fits(sw, p, now[k])
<1>1. DOMAIN served = Keys(Here)
    BY HereIs
<1>2. ASSUME NEW p \in Stored(Here)
      PROVE  /\ p.key \in DOMAIN served /\ PageOK(served, p)
             /\ end[p.key] = RangeEnd(p) /\ end[p.key] \in Cursors /\ p.cursor <= end[p.key]
             /\ EndIn(served, p) # None => end[p.key] = EndIn(served, p)
             /\ now[p.key] \in GoodResult /\ now[p.key].continue_cursor = end[p.key]
             /\ now[p.key].split_cursor # None =>
                   p.cursor <= now[p.key].split_cursor /\ now[p.key].split_cursor <= end[p.key]
    <2>1. p \in Page /\ p.key \in DOMAIN served /\ PageOK(served, p)
        BY <1>1, HereIs
    <2>2. page[p.key] = p
        <3>1. KeysUnique(Here)
            BY DEF SeamInv, SessionOK
        <3>2. FindPage(Here, p.key) = p
            BY <3>1, FindPageIs
        <3> QED
            BY <2>1, <3>2
    <2>3. list \subseteq Positions
        BY DEF SeamInv, ServerOK
    <2>4. PICK e : e = end[p.key]
        OBVIOUS
    <2>5. e = RangeEnd(p)
        BY <2>1, <2>2, <2>4
    <2>6. e \in Cursors /\ p.cursor <= e /\ (EndIn(served, p) # None => e = EndIn(served, p))
        BY <2>1, <2>3, <2>5, RangeEndOK
    <2>7. PICK r : r = now[p.key]
        OBVIOUS
    <2>8. r = Evaluate(p, e)
        BY <2>1, <2>2, <2>4, <2>7
    <2>9. /\ r \in GoodResult /\ r.continue_cursor = e
          /\ r.split_cursor # None => p.cursor <= r.split_cursor /\ r.split_cursor <= e
        BY <2>1, <2>3, <2>6, <2>8, EvaluateOK
    <2> QED
        BY <2>1, <2>4, <2>5, <2>6, <2>7, <2>9
<1>3. \A k \in DOMAIN served : \E p \in Stored(Here) : p.key = k
    BY <1>1 DEF Keys
<1>4. \A k \in DOMAIN served : now[k] \in GoodResult /\ now[k].continue_cursor = end[k]
                               /\ end[k] \in Cursors
    BY <1>2, <1>3
<1>5. sw \in [Keys(Here) -> Journal]
    <2>1. \A k \in DOMAIN served : served[k] \in Journal
        BY DEF SeamInv, ServerOK
    <2>2. ASSUME NEW k \in sent PROVE [end |-> now[k].continue_cursor, told |-> now[k]] \in Journal
        <3>1. now[k].continue_cursor \in Ends /\ now[k] \in PageResult
            BY <1>4 DEF Ends, PageResult, PageAnswer
        <3> QED
            BY <3>1 DEF Journal
    <2> QED
        BY <1>1, <2>1, <2>2 DEF Told
<1>6. ASSUME NEW p \in Stored(Here)
      PROVE  /\ p.key \in DOMAIN sw
             /\ EndIn(sw, p) = IF p.end_cursor = None /\ p.key \in sent THEN end[p.key]
                               ELSE EndIn(served, p)
    <2>1. p.key \in DOMAIN served
        BY <1>2
    <2>2. sw[p.key] = IF p.key \in sent
                      THEN [end |-> now[p.key].continue_cursor, told |-> now[p.key]]
                      ELSE served[p.key]
        BY <2>1 DEF Told
    <2>3. p.key \in sent => sw[p.key].end = end[p.key]
        BY <1>4, <2>1, <2>2
    <2> QED
        BY <2>1, <2>2, <2>3 DEF Told, EndIn
<1>7. Grown(Here, served, sw)
    <2>1. ASSUME NEW p \in Stored(Here)
          PROVE  /\ EndIn(sw, p) \in Ends
                 /\ EndIn(sw, p) # None => p.cursor <= EndIn(sw, p)
                 /\ EndIn(served, p) # None => EndIn(sw, p) = EndIn(served, p)
        BY <1>2, <1>6 DEF PageOK, Ends
    <2> QED
        BY <1>6, <2>1 DEF Grown
<1>8. ASSUME NEW k \in sent, NEW p \in Stored(Here), p.key = k PROVE Fits(sw, p, now[k])
    <2>1. EndIn(sw, p) = end[k]
        <3>1. CASE p.end_cursor = None
            BY <1>6, <1>8, <3>1
        <3>2. CASE p.end_cursor # None
            <4>1. EndIn(served, p) = p.end_cursor /\ EndIn(sw, p) = p.end_cursor
                BY <3>2 DEF EndIn
            <4> QED
                BY <1>2, <1>8, <3>2, <4>1
        <3> QED
            BY <3>1, <3>2
    <2> QED
        BY <1>2, <1>8, <2>1 DEF Fits
<1> QED
    BY <1>4, <1>5, <1>7, <1>8

\* A Transition tells the client results that fit its pages.
LEMMA TransitionOK ==
    ASSUME SeamInv, Transition
    PROVE  SessionStep /\ queue' \in Seq(PageEvent)
<1> DEFINE new == {k \in DOMAIN served : served[k].told = NoResult}
<1> DEFINE Pages == {[k \in DOMAIN served |-> FindPage(Here, k)]}
           EndsOf(page) == {[k \in DOMAIN served |-> RangeEnd(page[k])]}
           Now(page, end) == {[k \in DOMAIN served |-> Evaluate(page[k], end[k])]}
           Sent(now, first) ==
              {{k \in DOMAIN served \ new : served[k].told # now[k]} \cup first}
           Step(now, sent, order) ==
              /\ sent # {}
              /\ queue' = queue \o [i \in DOMAIN order |-> Event(order[i], now[order[i]])]
              /\ served' = [k \in DOMAIN served |->
                              IF k \in sent
                              THEN [end |-> now[k].continue_cursor, told |-> now[k]]
                              ELSE served[k]]
              /\ UNCHANGED <<session, generation, stopped, list, counters>>
<1>a. PICK page \in Pages :
         \E end \in EndsOf(page) : \E now \in Now(page, end) : \E first \in SUBSET new :
         \E sent \in Sent(now, first) : \E order \in SetToSeqs(sent) : Step(now, sent, order)
    BY Zenon DEF Transition
<1>b. PICK end \in EndsOf(page) :
         \E now \in Now(page, end) : \E first \in SUBSET new :
         \E sent \in Sent(now, first) : \E order \in SetToSeqs(sent) : Step(now, sent, order)
    BY Zenon, <1>a
<1>c. PICK now \in Now(page, end) : \E first \in SUBSET new :
         \E sent \in Sent(now, first) : \E order \in SetToSeqs(sent) : Step(now, sent, order)
    BY Zenon, <1>b
<1>d. PICK first \in SUBSET new :
         \E sent \in Sent(now, first) : \E order \in SetToSeqs(sent) : Step(now, sent, order)
    BY Zenon, <1>c
<1>e. PICK sent \in Sent(now, first) : \E order \in SetToSeqs(sent) : Step(now, sent, order)
    BY Zenon, <1>d
<1>f. PICK order \in SetToSeqs(sent) : Step(now, sent, order)
    BY Zenon, <1>e
<1>1. /\ page = [k \in DOMAIN served |-> FindPage(Here, k)]
      /\ end = [k \in DOMAIN served |-> RangeEnd(page[k])]
      /\ now = [k \in DOMAIN served |-> Evaluate(page[k], end[k])]
      /\ sent \in SUBSET DOMAIN served
      /\ order \in SetToSeqs(sent)
      /\ queue' = queue \o [i \in DOMAIN order |-> Event(order[i], now[order[i]])]
      /\ served' = Told(now, sent)
      /\ UNCHANGED session /\ list' = list
    BY <1>a, <1>b, <1>c, <1>d, <1>e, <1>f DEF Told
<1> HIDE DEF new, Pages, EndsOf, Now, Sent, Step
<1>2. /\ \A k \in DOMAIN served : now[k] \in GoodResult
      /\ served' \in [Keys(Here) -> Journal]
      /\ Grown(Here, served, served')
      /\ \A k \in sent : \A p \in Stored(Here) : p.key = k => Fits(served', p, now[k])
    <2>1. PICK sw : sw = Told(now, sent)
        OBVIOUS
    <2>2. /\ \A k \in DOMAIN served : now[k] \in GoodResult
          /\ sw \in [Keys(Here) -> Journal]
          /\ Grown(Here, served, sw)
          /\ \A k \in sent : \A p \in Stored(Here) : p.key = k => Fits(sw, p, now[k])
        BY <1>1, <2>1, ToldOK, SMTT(30)
    <2> QED
        BY <1>1, <2>1, <2>2
<1>3. sent \in SUBSET Nat /\ IsFiniteSet(sent) /\ \A k \in sent : k <= next_key
    <2>1. next_key \in Nat /\ \A k \in sent : k \in Nat /\ k <= next_key
        BY <1>1, HereIs
    <2>2. sent \subseteq 0..next_key
        BY <2>1
    <2>3. IsFiniteSet(0..next_key)
        BY <2>1, FS_Interval
    <2> QED
        BY <2>1, <2>2, <2>3, FS_Subset
<1>4. PICK n \in Nat : DOMAIN order = 1..n /\ \A i \in 1..n : order[i] \in sent
    BY <1>1, <1>3, FS_CardinalityType DEF SetToSeqs
<1>5. PICK es : es = [i \in 1..n |-> Event(order[i], now[order[i]])]
    OBVIOUS
<1>6. \A i \in 1..n : es[i] \in PageEvent /\ es[i].key \in sent /\ es[i].result = now[es[i].key]
    <2> TAKE i \in 1..n
    <2>1. PICK k \in sent : k = order[i]
        BY <1>4
    <2>2. es[i] = Event(k, now[k])
        BY <1>5, <2>1
    <2>3. now[k] \in PageAnswer /\ generation \in Nat /\ k \in Nat
        BY <1>1, <1>2, <1>3 DEF PageAnswer, SeamInv, TypeOK
    <2> QED
        BY <2>2, <2>3 DEF Event, PageEvent
<1>7. es \in Seq(PageEvent) /\ Len(es) = n
    <2>1. es \in [1..n -> PageEvent]
        BY <1>5, <1>6
    <2> QED
        BY <2>1, SeqDef, LenProperties
<1>8. PICK Q \in Seq(PageEvent) : Q = queue
    BY DEF SeamInv, TypeOK
<1>9. PICK m \in Nat : m = Len(Q) /\ DOMAIN Q = 1..m
    BY LenProperties
<1>10. PICK R : R = Q \o es
    OBVIOUS
<1>11. /\ R \in Seq(PageEvent) /\ DOMAIN R = 1..(m + n)
       /\ \A i \in 1..(m + n) : R[i] = IF i <= m THEN Q[i] ELSE es[i - m]
    <2>1. /\ R \in Seq(PageEvent) /\ Len(R) = Len(Q) + Len(es)
          /\ \A i \in 1..(Len(Q) + Len(es)) : R[i] = IF i <= Len(Q) THEN Q[i] ELSE es[i - Len(Q)]
        BY <1>7, <1>10, ConcatProperties
    <2> QED
        BY <1>7, <1>9, <2>1, LenProperties
<1>12. queue' = R
    BY <1>1, <1>4, <1>5, <1>8, <1>10
<1>13. ASSUME NEW i \in DOMAIN R
       PROVE  \/ \E j \in DOMAIN Q : R[i] = Q[j]
              \/ /\ R[i].key <= next_key
                 /\ \A p \in Stored(Here) :
                       p.key = R[i].key => Fits(served', p, R[i].result)
    <2>1. CASE i <= m
        <3>1. i \in 1..m /\ R[i] = Q[i]
            BY <1>11, <1>13, <2>1
        <3> QED
            BY <1>9, <3>1
    <2>2. CASE ~(i <= m)
        <3>1. i - m \in 1..n /\ R[i] = es[i - m]
            BY <1>11, <1>13, <2>2
        <3>2. R[i].key \in sent /\ R[i].result = now[R[i].key]
            BY <1>6, <3>1
        <3> QED
            BY <1>2, <1>3, <3>2
    <2> QED
        BY <2>1, <2>2
<1>14. list' \subseteq Positions
    BY <1>1 DEF SeamInv, ServerOK
<1> QED
    BY <1>1, <1>2, <1>8, <1>11, <1>12, <1>13, <1>14, ServerStep

\* The list of pages with the result of event e.
Answered(ps, e) == [i \in DOMAIN ps |-> Put(ps[i], e.key, e.result)]

\* on_page_result() stores a result: it may split a page, or end a split.
LEMMA StoreResultOK ==
    ASSUME SeamInv, queue # <<>>, StoreResult, list' = list, queue' = Tail(queue)
    PROVE  SessionStep /\ Refined(served, Answered(pages, Head(queue)), pages')
<1>1. PICK Q \in Seq(PageEvent) : Q = queue
    BY DEF SeamInv, TypeOK
<1>2. PICK e \in PageEvent : e = Head(queue) /\ 1 \in DOMAIN queue /\ e = queue[1]
    <2>1. Len(Q) \in Nat \ {0} /\ DOMAIN Q = 1..Len(Q)
        BY <1>1, LenProperties, EmptySeq
    <2>2. Head(Q) = Q[1] /\ 1 \in DOMAIN Q
        BY <1>1, <2>1, HeadTailProperties
    <2>3. Q[1] \in PageEvent
        BY <2>2, ElementOfSeq, <2>1
    <2> QED
        BY <1>1, <2>2, <2>3
<1>3. PICK r \in PageResult : r = e.result
    BY <1>2 DEF PageEvent, PageResult
<1>4. PICK key : key = e.key
    OBVIOUS
<1>5. /\ Here \in Session /\ Here.pages = pages /\ SessionOK(Here, served)
      /\ \A p \in Stored(Here) : p.key = key => Fits(served, p, r)
    BY <1>2, <1>3, <1>4, HereIs DEF SeamInv, QueueOK
<1>6. PICK S : S = WithResult(Here, key, r)
    OBVIOUS
<1>7. SessionOK(S, served) /\ Follows(Here, S)
    BY <1>5, <1>6, WithResultOK
<1>8. S \in Session
    BY <1>7 DEF SessionOK
<1>9. S.pages = Answered(pages, e) /\ DOMAIN S.splits = DOMAIN Here.splits
    <2>1. /\ DOMAIN S.pages = DOMAIN Here.pages
          /\ \A i \in DOMAIN Here.pages : S.pages[i] = Put(Here.pages[i], key, r)
          /\ DOMAIN S.splits = DOMAIN Here.splits
        BY <1>5, <1>6, WithResultIs
    <2>2. PICK ps \in Seq(Page) : ps = S.pages
        BY <1>8, SessionTypes
    <2>3. ps = [i \in DOMAIN ps |-> ps[i]]
        <3>1. ps \in [1..Len(ps) -> Page]
            BY <2>2, LenProperties, ElementOfSeq, SeqDef
        <3> QED
            BY <3>1
    <2>4. ps = [i \in DOMAIN pages |-> Put(pages[i], key, r)]
        BY <1>5, <2>1, <2>2, <2>3
    <2> QED
        BY <1>3, <1>4, <2>1, <2>2, <2>4 DEF Answered
<1>10. \/ SplitOfHalf(Here, key) = {} /\ Become(ConsiderSplit(S, key))
       \/ \E i \in SplitOfHalf(Here, key) : Become(AdvanceSplit(S, i))
    BY <1>2, <1>3, <1>4, <1>6 DEF StoreResult
<1>11. ASSUME NEW T, Become(T), SessionOK(T, served), Follows(S, T), Refined(served, S.pages, T.pages)
       PROVE  SessionStep /\ Refined(served, Answered(pages, Head(queue)), pages')
    <2>1. T \in Session
        BY <1>11 DEF SessionOK
    <2>2. Follows(Here, T)
        BY <1>5, <1>7, <1>8, <1>11, <2>1, FollowsOn
    <2>3. SessionStep
        BY <1>11, <2>2, StepOK
    <2>4. pages' = T.pages
        BY <1>11 DEF Become
    <2> QED
        BY <1>2, <1>9, <1>11, <2>3, <2>4
<1>12. ASSUME SplitOfHalf(Here, key) = {}, Become(ConsiderSplit(S, key))
       PROVE  SessionStep /\ Refined(served, Answered(pages, Head(queue)), pages')
    <2>1. PICK o \in Stored(Here) : o.key = key
        BY <1>2, <1>4 DEF StoreResult, Keys
    <2>2. o \notin Halves(Here)
        BY <1>12, <2>1 DEF SplitOfHalf, Halves
    <2>3. PICK i \in DOMAIN pages : o = pages[i]
        BY <1>5, <2>1, <2>2 DEF Stored, ToSet
    <2>4. PICK p : p = Put(o, key, r)
        OBVIOUS
    <2>5. p \in ToSet(S.pages)
        BY <1>3, <1>4, <1>9, <2>3, <2>4 DEF Answered, ToSet
    <2>6. p.key = key
        BY <1>5, <2>1, <2>4, SessionTypes, PutIs DEF SameRange
    <2>7. PICK T : T = ConsiderSplit(S, p.key)
        OBVIOUS
    <2>8. SessionOK(T, served) /\ Follows(S, T) /\ T.pages = S.pages
        BY <1>7, <2>5, <2>7, ConsiderSplitOK
    <2>9. Become(T)
        BY <1>12, <2>6, <2>7
    <2>10. Refined(served, S.pages, T.pages)
        BY <2>8 DEF Refined
    <2> QED
        BY <1>11, <2>8, <2>9, <2>10
<1>13. ASSUME NEW i \in SplitOfHalf(Here, key), Become(AdvanceSplit(S, i))
       PROVE  SessionStep /\ Refined(served, Answered(pages, Head(queue)), pages')
    <2>1. i \in DOMAIN S.splits
        BY <1>9, <1>13 DEF SplitOfHalf
    <2>2. PICK T : T = AdvanceSplit(S, i)
        OBVIOUS
    <2>3. SessionOK(T, served) /\ Follows(S, T) /\ Refined(served, S.pages, T.pages)
        BY <1>7, <2>1, <2>2, AdvanceSplitOK
    <2> QED
        BY <1>11, <1>13, <2>2, <2>3
<1> QED
    BY <1>10, <1>12, <1>13

\* A list of pages that has one keeps one.
LEMMA StillPages ==
    ASSUME SeamInv, queue # <<>>, StoreResult, list' = list, queue' = Tail(queue)
    PROVE  pages' # <<>>
<1>1. pages \in Seq(Page) /\ pages # <<>>
    BY HereIs DEF SeamInv, StoreResult
<1>2. PICK n \in Nat \ {0} : n = Len(pages) /\ DOMAIN pages = 1..n
    BY <1>1, LenProperties, EmptySeq
<1>3. PICK ps : ps = Answered(pages, Head(queue))
    OBVIOUS
<1>4. DOMAIN ps = 1..n /\ Len(ps) = n
    <2>1. DOMAIN ps = 1..n
        BY <1>2, <1>3 DEF Answered
    <2>2. ps \in [1..n -> {ps[i] : i \in 1..n}]
        BY <1>2, <1>3 DEF Answered
    <2>3. ps \in Seq({ps[i] : i \in 1..n})
        BY <2>2, SeqDef
    <2> QED
        BY <2>1, <2>2, <2>3, LenProperties
<1>5. Refined(served, ps, pages')
    BY <1>3, StoreResultOK
<1>6. CASE pages' = ps
    BY <1>4, <1>6
<1>7. CASE \E at \in DOMAIN ps, f \in Page, g \in Page : Exchanged(pages', ps, at, f, g)
    <2>1. DOMAIN pages' = 1..(n + 1)
        BY <1>4, <1>7 DEF Exchanged
    <2>2. 1 \in DOMAIN pages'
        BY <2>1
    <2> QED
        BY <2>2
<1> QED
    BY <1>5, <1>6, <1>7 DEF Refined

\* Events stay events.
LEMMA QueueRest ==
    ASSUME TypeOK, queue # <<>>, queue' = Tail(queue)
    PROVE  queue' \in Seq(PageEvent)
BY HeadTailProperties DEF TypeOK

\* SeamInv is inductive.
LEMMA SeamStep ==
    ASSUME SeamInv, [Next]_vars
    PROVE  SeamInv'
<1> SUFFICES /\ SessionStep
             /\ generation' \in Nat /\ stopped' \in BOOLEAN /\ queue' \in Seq(PageEvent)
             /\ changes' \in Nat /\ faults' \in Nat /\ resets' \in Nat
             /\ ~stopped' => pages' # <<>>
    BY DEF SeamInv, SessionStep, TypeOK
<1> USE DEF counters
<1>0. /\ generation \in Nat /\ stopped \in BOOLEAN /\ queue \in Seq(PageEvent)
      /\ changes \in Nat /\ faults \in Nat /\ resets \in Nat
      /\ ~stopped => pages # <<>>
    BY DEF SeamInv, TypeOK
<1>1. CASE \E num \in LoadSizes : LoadMore(num)
    <2>1. PICK num \in LoadSizes : LoadMore(num)
        BY <1>1
    <2> QED
        BY <1>0, <2>1, LoadMoreOK DEF LoadMore
<1>2. CASE Reset
    <2>1. SessionStep /\ pages' # <<>>
        BY <1>2, ResetSessionOK DEF Reset
    <2> QED
        BY <1>0, <1>2, <2>1 DEF Reset
<1>3. CASE Stop
    BY <1>0, <1>3, StopOK DEF Stop
<1>4. CASE OnPageResult
    <2>1. /\ queue # <<>> /\ queue' = Tail(queue) /\ queue' \in Seq(PageEvent)
          /\ stopped' = stopped /\ list' = list
          /\ changes' = changes /\ faults' = faults /\ resets' = resets
        BY <1>0, <1>4, QueueRest DEF OnPageResult, SeamInv
    <2>2. CASE IgnoreResult
        <3>1. UNCHANGED session /\ served' = served /\ generation' = generation
            BY <2>2 DEF IgnoreResult
        <3>2. SessionStep /\ pages' = pages
            BY <2>1, <3>1, IgnoredOK DEF session
        <3> QED
            BY <1>0, <2>1, <3>1, <3>2
    <2>3. CASE ResetOnResult
        <3>1. SessionStep /\ pages' # <<>>
            BY <2>1, <2>3, ResetSessionOK DEF ResetOnResult
        <3> QED
            BY <1>0, <2>1, <2>3, <3>1 DEF ResetOnResult
    <2>4. CASE StoreResult
        <3>1. SessionStep /\ pages' # <<>>
            BY <2>1, <2>4, StoreResultOK, StillPages
        <3> QED
            BY <1>0, <2>1, <2>4, <3>1 DEF StoreResult
    <2> QED
        BY <1>4, <2>2, <2>3, <2>4 DEF OnPageResult
<1>5. CASE Transition
    <2>1. UNCHANGED <<session, generation, stopped, list, counters>>
        BY <1>5 DEF Transition
    <2>2. pages' = pages
        BY <2>1 DEF session
    <2> QED
        BY <1>0, <1>5, <2>1, <2>2, TransitionOK
<1>6. CASE \E k \in DOMAIN served, kind \in {"error", "invalid", "malformed"} : Fault(k, kind)
    <2>1. PICK k \in DOMAIN served, kind \in {"error", "invalid", "malformed"} : Fault(k, kind)
        BY <1>6
    <2>2. pages' = pages
        BY <2>1 DEF Fault, session
    <2>3. SessionStep /\ queue' \in Seq(PageEvent)
        BY <2>1, FaultOK
    <2>4. /\ generation' = generation /\ stopped' = stopped /\ changes' = changes
          /\ resets' = resets /\ faults' = faults + 1
        BY <2>1 DEF Fault
    <2> QED
        BY <1>0, <2>2, <2>3, <2>4
<1>7. CASE \E items \in Commits : Change(items)
    <2>1. PICK items \in Commits : Change(items)
        BY <1>7
    <2>2. pages' = pages
        BY <2>1 DEF Change, session
    <2> QED
        BY <1>0, <2>1, <2>2, ChangeOK DEF Change
<1>8. CASE UNCHANGED vars
    <2>1. /\ UNCHANGED session /\ served' = served /\ list' = list /\ queue' = queue
          /\ generation' = generation /\ stopped' = stopped
          /\ changes' = changes /\ faults' = faults /\ resets' = resets
        BY <1>8 DEF vars, server
    <2>2. pages' = pages
        BY <2>1 DEF session
    <2> QED
        BY <1>0, <2>1, <2>2, IgnoredOK
<1> QED
    BY <1>1, <1>2, <1>3, <1>4, <1>5, <1>6, <1>7, <1>8 DEF Next

\* It holds when the first page has been asked for.
LEMMA SeamInit ==
    ASSUME Init
    PROVE  SeamInv
<1>1. PICK p : p = NewPage(1, 0, None, initial_num_items)
    OBVIOUS
<1>2. /\ p \in Page /\ p.key = 1 /\ p.cursor = 0 /\ p.end_cursor = None
      /\ p.result = NoResult
    <2>1. NoResult \in PageResult /\ None \in Ends /\ 0 \in Cursors
        BY PaginationAssumption DEF PageResult, Ends, Cursors
    <2> QED
        BY <1>1, <2>1, PaginationAssumption DEF NewPage, Page
<1>3. PICK j : j = [end |-> None, told |-> NoResult]
    OBVIOUS
<1>4. j \in Journal /\ j.end = None
    BY <1>3 DEF Journal, Ends, PageResult
<1>5. pages = <<p>> /\ splits = <<>> /\ next_key = 1 /\ served = [k \in {1} |-> j]
    BY <1>1, <1>3 DEF Init
<1>6. /\ Here \in Session /\ Here.pages = <<p>> /\ Here.splits = <<>> /\ Here.next_key = 1
    BY <1>2, <1>5 DEF Here, Session
<1>7. DOMAIN <<p>> = {1} /\ <<p>>[1] = p /\ DOMAIN <<>> = {}
    OBVIOUS
<1>8. \A q : q \in Stored(Here) <=> q = p
    BY <1>6, <1>7, StoredIs
<1>9. Keys(Here) = {1}
    BY <1>2, <1>8 DEF Keys
<1>10. DOMAIN served = {1} /\ served[1] = j /\ served \in [Keys(Here) -> Journal]
    BY <1>4, <1>5, <1>9
<1>11. EndIn(served, p) = None
    BY <1>2, <1>4, <1>10 DEF EndIn
<1>12. PageOK(served, p)
    BY <1>2, <1>10, <1>11 DEF PageOK, Ends, Fits, Parsed, NoResult
<1>13. KeysUnique(Here) /\ KeysGiven(Here) /\ \A q \in Stored(Here) : PageOK(served, q)
    BY <1>2, <1>6, <1>8, <1>12 DEF KeysUnique, KeysGiven
<1>14. SplitsOK(Here, served) /\ SeamsOK(Here.pages, served)
    BY <1>2, <1>6, <1>7 DEF SplitsOK, SeamsOK
<1>15. SessionOK(Here, served)
    BY <1>6, <1>13, <1>14 DEF SessionOK
<1>16. TypeOK
    <2>1. generation = 0 /\ stopped = FALSE /\ queue = <<>> /\ changes = 0 /\ faults = 0
          /\ resets = 0
        BY DEF Init
    <2>2. <<>> \in Seq(PageEvent)
        BY EmptySeq
    <2> QED
        BY <2>1, <2>2 DEF TypeOK
<1>17. QueueOK
    <2>1. queue = <<>> /\ DOMAIN queue = {}
        BY <1>7 DEF Init
    <2> QED
        BY <2>1 DEF QueueOK
<1>18. ServerOK
    BY <1>10, PaginationAssumption DEF Init, ServerOK, Positions
<1>19. pages # <<>>
    BY <1>5
<1> QED
    BY <1>15, <1>16, <1>17, <1>18, <1>19 DEF SeamInv

\* Its seams are those of the property.
LEMMA SeamIsSeamless ==
    ASSUME SeamInv
    PROVE  Seamless
<1>1. Here.pages = pages
    BY HereIs
<1>2. SeamsOK(pages, served)
    BY <1>1 DEF SeamInv, SessionOK
<1>3. \A p : KnownEnd(p) = EndIn(served, p)
    BY DEF KnownEnd, EndIn
<1> QED
    BY <1>2, <1>3 DEF Seamless, SeamsOK

\* At every moment the pages, the halves of splits and the results on their way fit
\* the journals the server has for them, whatever has been loaded, split, reset or lost
\* (paginated_impl).
THEOREM SeamInvariant == Spec => []SeamInv
<1>1. Init => SeamInv
    BY SeamInit
<1>2. SeamInv /\ [Next]_vars => SeamInv'
    BY SeamStep
<1> QED
    BY <1>1, <1>2, PTL DEF Spec

\* The list has no gap and nothing twice at any moment: each page starts where
\* the one before it ends, through loads, splits that are under way, given up or
\* carried out, resets, and results that arrive late or for pages that are gone
\* (load_more(), start_split(), advance_split(), on_page_result()).
THEOREM PagesAreSeamless == Spec => []Seamless
<1>1. SeamInv => Seamless
    BY SeamIsSeamless
<1> QED
    BY <1>1, SeamInvariant, PTL

-----------------------------------------------------------------------------
(* What is on display.                                                     *)

\* The position up to which a list of pages is shown.
ShownEndOf(ps) ==
    IF ShownOf(ps) = 0 THEN 0 ELSE ps[ShownOf(ps)].result.continue_cursor

\* A page that is shown ends where its journal says.
LEMMA ShowableEnds ==
    ASSUME NEW S, NEW sv, SessionOK(S, sv), NEW i \in DOMAIN S.pages, Showable(S.pages[i])
    PROVE  /\ S.pages[i].result.continue_cursor = EndIn(sv, S.pages[i])
           /\ EndIn(sv, S.pages[i]) \in Cursors
<1>1. PICK p \in Page : p = S.pages[i] /\ PageOK(sv, p)
    BY SessionTypes DEF SessionOK
<1>2. Parsed(p.result)
    BY <1>1 DEF Showable
<1>3. p.result \in GoodResult
    BY <1>1, <1>2 DEF Page, PageResult, PageAnswer, Parsed, NoResult
<1>4. p.result.continue_cursor = EndIn(sv, p)
    BY <1>1, <1>2 DEF PageOK, Fits
<1> QED
    BY <1>1, <1>3, <1>4 DEF GoodResult

\* Ends rise along the list.
LEMMA EndsRise ==
    ASSUME NEW S, NEW sv, SessionOK(S, sv), NEW n \in Nat, n = Len(S.pages),
           NEW i \in 1..n, EndIn(sv, S.pages[i]) \in Cursors,
           NEW j \in i..n, EndIn(sv, S.pages[j]) \in Cursors
    PROVE  EndIn(sv, S.pages[i]) <= EndIn(sv, S.pages[j])
<1>1. S \in Session /\ DOMAIN S.pages = 1..n /\ \A k \in 1..n : S.pages[k] \in Page
    BY SessionTypes DEF SessionOK
<1>2. PICK e \in [1..n -> Ends] : \A k \in 1..n : e[k] = EndIn(sv, S.pages[k])
    <2>1. \A k \in 1..n : EndIn(sv, S.pages[k]) \in Ends
        BY <1>1, SessionTypes DEF SessionOK, PageOK
    <2> DEFINE g == [k \in 1..n |-> EndIn(sv, S.pages[k])]
    <2>2. g \in [1..n -> Ends] /\ \A k \in 1..n : g[k] = EndIn(sv, S.pages[k])
        BY <2>1
    <2> QED
        BY <2>2
<1>3. \A x \in Cursors : x \in Nat /\ x # None
    BY PaginationAssumption DEF Cursors, None
<1>4. ASSUME NEW k \in 2..n
      PROVE  /\ e[k - 1] = S.pages[k].cursor /\ e[k - 1] \in Cursors
             /\ e[k] # None => e[k - 1] <= e[k]
    <2>1. k \in 1..n /\ k # 1 /\ k - 1 \in 1..n
        OBVIOUS
    <2>2. EndIn(sv, S.pages[k - 1]) = S.pages[k].cursor
        BY <1>1, <2>1 DEF SessionOK, SeamsOK
    <2>3. S.pages[k].cursor \in Cursors
        BY <1>1, <2>1 DEF Page
    <2>4. PageOK(sv, S.pages[k])
        BY <1>1, <2>1, SessionTypes DEF SessionOK
    <2> QED
        BY <1>2, <2>1, <2>2, <2>3, <2>4 DEF PageOK
<1>5. e[i] \in Cursors /\ e[j] \in Cursors
    BY <1>2
<1> DEFINE Bad == {k \in i..n : e[k] \in Cursors /\ ~(e[i] <= e[k])}
<1>6. Bad = {}
    <2> SUFFICES ASSUME Bad # {} PROVE FALSE
        OBVIOUS
    <2>1. Bad \in SUBSET Nat
        OBVIOUS
    <2>2. PICK x \in Bad : \A y \in Bad : ~ (<<y, x>> \in OpToRel(<, Nat))
        BY <2>1, NatLessThanWellFounded, WFMin
    <2>3. \A y \in Bad : ~ (y < x)
        BY <2>1, <2>2 DEF OpToRel
    <2>4. x \in i..n /\ e[x] \in Cursors /\ ~(e[i] <= e[x])
        BY <2>2
    <2>5. x # i
        <3>1. e[i] \in Nat
            BY <1>3, <1>5
        <3> QED
            BY <2>4, <3>1
    <2>6. x \in 2..n /\ x - 1 \in i..n /\ x - 1 < x
        BY <2>4, <2>5
    <2>7. x - 1 \notin Bad
        BY <2>3, <2>6
    <2>8. e[x - 1] \in Cursors /\ e[x - 1] <= e[x]
        BY <1>3, <1>4, <2>4, <2>6
    <2>9. e[i] <= e[x - 1]
        BY <2>6, <2>7, <2>8
    <2>10. e[i] \in Nat /\ e[x - 1] \in Nat /\ e[x] \in Nat
        BY <1>3, <1>5, <2>4, <2>8
    <2> QED
        BY <2>4, <2>8, <2>9, <2>10
<1>7. e[i] <= e[j]
    BY <1>5, <1>6
<1> QED
    BY <1>2, <1>7

\* A list is shown at least up to a page that can be shown with all before it.
LEMMA ShownPast ==
    ASSUME NEW S, NEW sv, SessionOK(S, sv), NEW m \in DOMAIN S.pages,
           \A i \in 1..m : Showable(S.pages[i])
    PROVE  ShownEndOf(S.pages) >= EndIn(sv, S.pages[m])
<1>1. PICK n \in Nat : n = Len(S.pages) /\ DOMAIN S.pages = 1..n
    BY SessionTypes DEF SessionOK
<1>2. PICK k : k = ShownOf(S.pages)
    OBVIOUS
<1>3. k \in 0..n /\ m <= k /\ \A i \in 1..k : Showable(S.pages[i])
    <2>1. m \in 0..n
        BY <1>1
    <2> QED
        BY <1>1, <1>2, <2>1, ShownIs
<1>4. k \in 1..n /\ k # 0 /\ m \in 1..n /\ k \in m..n /\ m \in 1..m /\ k \in 1..k
    BY <1>1, <1>3
<1>5. ShownEndOf(S.pages) = S.pages[k].result.continue_cursor
    BY <1>2, <1>4 DEF ShownEndOf
<1>6. /\ S.pages[k].result.continue_cursor = EndIn(sv, S.pages[k])
      /\ EndIn(sv, S.pages[k]) \in Cursors
    BY <1>1, <1>3, <1>4, ShowableEnds
<1>7. EndIn(sv, S.pages[m]) \in Cursors
    BY <1>4, ShowableEnds
<1>8. EndIn(sv, S.pages[m]) <= EndIn(sv, S.pages[k])
    BY <1>1, <1>4, <1>6, <1>7, EndsRise
<1>9. EndIn(sv, S.pages[m]) \in Nat /\ EndIn(sv, S.pages[k]) \in Nat
    BY <1>6, <1>7, PaginationAssumption DEF Cursors
<1> QED
    BY <1>5, <1>6, <1>8, <1>9

\* It is shown up to a position.
LEMMA ShownEndIs ==
    ASSUME NEW S, NEW sv, SessionOK(S, sv)
    PROVE  ShownEndOf(S.pages) \in Nat
<1>1. PICK n \in Nat : n = Len(S.pages) /\ DOMAIN S.pages = 1..n
    BY SessionTypes DEF SessionOK
<1>2. PICK k : k = ShownOf(S.pages)
    OBVIOUS
<1>3. k \in 0..n /\ \A i \in 1..k : Showable(S.pages[i])
    BY <1>1, <1>2, ShownIs
<1>4. CASE k = 0
    BY <1>2, <1>4 DEF ShownEndOf
<1>5. CASE k # 0
    <2>1. k \in 1..n /\ k \in 1..k
        BY <1>3, <1>5
    <2>2. S.pages[k].result.continue_cursor \in Cursors
        BY <1>1, <1>3, <2>1, ShowableEnds
    <2> QED
        BY <1>2, <1>5, <2>2, PaginationAssumption DEF ShownEndOf, Cursors
<1> QED
    BY <1>4, <1>5

\* A page that stays keeps its journal.
LEMMA JournalsStay ==
    ASSUME StoreResult
    PROVE  \A k \in DOMAIN served : k \in DOMAIN served' => served'[k] = served[k]
<1>1. ASSUME NEW T, Become(T)
      PROVE  \A k \in DOMAIN served : k \in DOMAIN served' => served'[k] = served[k]
    <2>1. served' = Kept(T)
        BY <1>1 DEF Become, Kept
    <2> QED
        BY <2>1 DEF Kept
<1>2. \E T : Become(T)
    BY DEF StoreResult
<1> QED
    BY <1>1, <1>2

\* A result that is stored makes nothing on display disappear, unless it is an
\* error or incomplete: halves replace a page of the list when both have loaded.
LEMMA StoreKeepsTheView ==
    ASSUME SeamInv, SessionOK(Here, served)', queue # <<>>, StoreResult, list' = list,
           queue' = Tail(queue),
           \A p \in ToSet(pages') : p.result = NoResult \/ Showable(p)
    PROVE  ShownEndOf(pages') >= ShownEndOf(pages)
<1>1. PICK S : S = Here'
    OBVIOUS
<1>2. PICK sw : sw = served'
    OBVIOUS
<1>3. PICK qs : qs = pages'
    OBVIOUS
<1>4. SessionOK(S, sw) /\ S \in Session /\ S.pages = qs
    <2>1. SessionOK(Here', served')
        OBVIOUS
    <2>2. Here'.pages = pages'
        BY DEF Here
    <2> QED
        BY <1>1, <1>2, <1>3, <2>1, <2>2 DEF SessionOK
<1>5. /\ SessionOK(Here, served) /\ Here.pages = pages /\ pages \in Seq(Page)
      /\ \A p \in Stored(Here) : p \in Page /\ p.key \in DOMAIN served
    BY HereIs DEF SeamInv
<1>6. PICK n \in Nat : n = Len(pages) /\ DOMAIN pages = 1..n
    BY <1>5, LenProperties
<1>7. PICK m : m = ShownOf(pages)
    OBVIOUS
<1>8. m \in 0..n /\ \A i \in 1..m : Showable(pages[i])
    BY <1>6, <1>7, ShownIs
<1>9. CASE m = 0
    <2>1. ShownEndOf(pages) = 0
        BY <1>7, <1>9 DEF ShownEndOf
    <2>2. ShownEndOf(qs) \in Nat
        BY <1>4, ShownEndIs
    <2> QED
        BY <1>3, <2>1, <2>2
<1>10. ASSUME m # 0 PROVE ShownEndOf(qs) >= ShownEndOf(pages)
    <2>0. m \in 1..n /\ m \in 1..m
        BY <1>8, <1>10
    <2>1. PICK p \in Page : p = pages[m] /\ p \in Stored(Here) /\ p.key \in DOMAIN served
        <3>1. pages[m] \in Stored(Here)
            BY <1>5, <1>6, <2>0, StoredIs
        <3> QED
            BY <1>5, <3>1
    <2>2. ShownEndOf(pages) = EndIn(served, p) /\ EndIn(served, p) # None
        <3>1. /\ pages[m].result.continue_cursor = EndIn(served, pages[m])
              /\ EndIn(served, pages[m]) \in Cursors
            BY <1>5, <1>6, <1>8, <2>0, ShowableEnds
        <3> QED
            BY <1>7, <1>10, <2>1, <3>1, PaginationAssumption DEF ShownEndOf, Cursors, None
    <2>3. PICK e \in PageEvent : e = Head(queue)
        <3>1. PICK Q \in Seq(PageEvent) : Q = queue
            BY DEF SeamInv, TypeOK
        <3>2. Head(Q) \in PageEvent
            BY <3>1, HeadTailProperties
        <3> QED
            BY <3>1, <3>2
    <2>4. PICK ps : ps = Answered(pages, e)
        OBVIOUS
    <2>5. ASSUME NEW i \in 1..n
          PROVE  /\ SameRange(pages[i], ps[i])
                 /\ Showable(pages[i]) => ps[i].result # NoResult
        <3>1. PICK o \in Page : o = pages[i]
            BY <1>5, <1>6, ElementOfSeq
        <3>2. ps[i] = Put(o, e.key, e.result)
            BY <1>6, <2>4, <3>1 DEF Answered
        <3>3. e.result \in PageResult /\ e.result # NoResult
            BY <2>3 DEF PageEvent, PageResult, PageAnswer, GoodResult, NoResult
        <3>4. /\ SameRange(o, ps[i])
              /\ ps[i].result = IF o.key = e.key THEN e.result ELSE o.result
            BY <3>2, <3>3, PutIs
        <3>5. Showable(o) => o.result # NoResult
            BY DEF Showable, Parsed, NoResult
        <3> QED
            BY <3>1, <3>3, <3>4, <3>5
    <2>6. ASSUME NEW j \in DOMAIN qs, qs[j].result # NoResult PROVE Showable(qs[j])
        <3>1. qs[j] \in ToSet(pages')
            BY <1>3, <2>6 DEF ToSet
        <3> QED
            BY <2>6, <3>1
    <2>7. ASSUME NEW j \in DOMAIN qs, SameRange(p, qs[j])
          PROVE  EndIn(sw, qs[j]) = EndIn(served, p)
        <3>1. qs[j] \in Stored(S)
            BY <1>4, <2>7, StoredIs
        <3>2. qs[j].end_cursor = None => qs[j].key \in DOMAIN sw
            BY <1>4, <3>1 DEF SessionOK, PageOK
        <3>3. p.end_cursor = None => sw[p.key] = served[p.key]
            BY <1>2, <2>1, <2>7, <3>2, JournalsStay DEF SameRange
        <3> QED
            BY <2>7, <3>3 DEF SameRange, EndIn
    <2>8. ASSUME NEW k \in DOMAIN qs, \A i \in 1..k : i \in DOMAIN qs /\ qs[i].result # NoResult,
                 EndIn(sw, qs[k]) = EndIn(served, p)
          PROVE  ShownEndOf(qs) >= ShownEndOf(pages)
        <3>1. \A i \in 1..k : Showable(S.pages[i])
            BY <1>4, <2>6, <2>8
        <3>2. ShownEndOf(S.pages) >= EndIn(sw, S.pages[k])
            BY <1>4, <2>8, <3>1, ShownPast
        <3> QED
            BY <1>4, <2>2, <2>8, <3>2
    <2>9. Refined(served, ps, qs)
        BY <1>3, <2>3, <2>4, StoreResultOK
    <2>10. DOMAIN ps = 1..n
        BY <1>6, <2>4 DEF Answered
    <2>11. Len(ps) = n
        <3>1. ps \in [1..n -> {ps[i] : i \in 1..n}]
            BY <1>6, <2>4 DEF Answered
        <3>2. ps \in Seq({ps[i] : i \in 1..n})
            BY <3>1, SeqDef
        <3> QED
            BY <2>10, <3>2, LenProperties
    <2>12. \A i \in 1..m : i \in 1..n /\ ps[i].result # NoResult
        BY <1>8, <2>5
    <2>13. CASE qs = ps
        <3>1. \A i \in 1..m : i \in DOMAIN qs /\ qs[i].result # NoResult
            BY <2>10, <2>12, <2>13
        <3>2. m \in DOMAIN qs /\ SameRange(p, qs[m])
            BY <2>0, <2>1, <2>5, <2>10, <2>13
        <3> QED
            BY <2>7, <2>8, <3>1, <3>2
    <2>14. ASSUME NEW at \in DOMAIN ps, NEW f \in Page, NEW g \in Page, Exchanged(qs, ps, at, f, g),
                  f.result # NoResult, g.result # NoResult,
                  g.end_cursor # None, g.end_cursor = EndIn(served, ps[at])
           PROVE  ShownEndOf(qs) >= ShownEndOf(pages)
        <3>1. /\ DOMAIN qs = 1..(n + 1)
              /\ \A j \in 1..(at - 1) : qs[j] = ps[j]
              /\ qs[at] = f /\ qs[at + 1] = g
              /\ \A j \in (at + 2)..(n + 1) : qs[j] = ps[j - 1]
            BY <2>11, <2>14 DEF Exchanged
        <3>2. at \in 1..n
            BY <2>10, <2>14
        <3>3. CASE at > m
            <4>1. \A i \in 1..m : i \in 1..(at - 1) /\ i \in 1..(n + 1)
                BY <1>8, <3>2, <3>3
            <4>2. \A i \in 1..m : i \in DOMAIN qs /\ qs[i] = ps[i] /\ qs[i].result # NoResult
                BY <2>12, <3>1, <4>1
            <4>3. m \in DOMAIN qs /\ SameRange(p, qs[m])
                BY <2>0, <2>1, <2>5, <4>2
            <4> QED
                BY <2>7, <2>8, <4>2, <4>3
        <3>4. CASE ~(at > m)
            <4>1. at \in 1..m /\ m + 1 \in 1..(n + 1)
                BY <1>8, <2>0, <3>2, <3>4
            <4>2. ASSUME NEW i \in 1..(m + 1) PROVE i \in DOMAIN qs /\ qs[i].result # NoResult
                <5>0. i \in DOMAIN qs
                    BY <1>8, <3>1, <4>1, <4>2
                <5>1. CASE i < at
                    <6>1. i \in 1..(at - 1) /\ i \in 1..m
                        BY <1>8, <4>1, <4>2, <5>1
                    <6> QED
                        BY <2>12, <3>1, <5>0, <6>1
                <5>2. CASE i = at \/ i = at + 1
                    BY <2>14, <3>1, <5>0, <5>2
                <5>3. CASE i > at + 1
                    <6>1. i \in (at + 2)..(n + 1) /\ i - 1 \in 1..m
                        BY <1>8, <4>1, <4>2, <5>3
                    <6> QED
                        BY <2>12, <3>1, <5>0, <6>1
                <5> QED
                    BY <4>1, <4>2, <5>1, <5>2, <5>3
            <4>3. m + 1 \in DOMAIN qs
                BY <3>1, <4>1
            <4>4. CASE at = m
                <5>1. qs[m + 1] = g
                    BY <3>1, <4>4
                <5>2. EndIn(sw, g) = g.end_cursor
                    BY <2>14 DEF EndIn
                <5>3. EndIn(served, ps[m]) = EndIn(served, p)
                    BY <2>0, <2>1, <2>5 DEF SameRange, EndIn
                <5> QED
                    BY <2>8, <2>14, <4>2, <4>3, <4>4, <5>1, <5>2, <5>3
            <4>5. CASE at # m
                <5>1. m + 1 \in (at + 2)..(n + 1) /\ (m + 1) - 1 = m
                    BY <1>8, <2>0, <4>1, <4>5
                <5>2. qs[m + 1] = ps[m]
                    BY <3>1, <5>1
                <5>3. SameRange(p, qs[m + 1])
                    BY <2>0, <2>1, <2>5, <5>2
                <5> QED
                    BY <2>7, <2>8, <4>2, <4>3, <5>3
            <4> QED
                BY <4>4, <4>5
        <3> QED
            BY <3>3, <3>4
    <2> QED
        BY <2>9, <2>13, <2>14 DEF Refined
<1> QED
    BY <1>3, <1>9, <1>10

\* load_more() leaves on display what is.
LEMMA LoadMoreKeepsTheView ==
    ASSUME SeamInv, NEW num \in LoadSizes, LoadMore(num)
    PROVE  ShownEndOf(pages') = ShownEndOf(pages)
<1>1. /\ pages \in Seq(Page) /\ pages # <<>> /\ Here \in Session
      /\ Here.pages = pages /\ SessionOK(Here, served)
    BY HereIs DEF SeamInv, LoadMore
<1>2. PICK n \in Nat \ {0} : n = Len(pages) /\ DOMAIN pages = 1..n
    BY <1>1, LenProperties, EmptySeq
<1>3. ShownOf(pages) = n /\ Showable(pages[n])
    BY <1>1, <1>2, CanLoadMore DEF LoadMore
<1>4. PICK cursor : cursor = pages[n].result.continue_cursor
    OBVIOUS
<1>5. cursor \in Cursors
    BY <1>1, <1>2, <1>3, <1>4, ShowableEnds
<1>6. PICK T : T = AddPage(Here, num, cursor)
    OBVIOUS
<1>7. pages' = T.pages
    <2>1. Last(pages).result.continue_cursor = cursor
        BY <1>2, <1>4 DEF Last
    <2> QED
        BY <1>6, <2>1 DEF LoadMore, Become
<1>8. PICK p : p = NewPage(Here.next_key + 1, cursor, None, num)
    OBVIOUS
<1>9. Added(T, Here, cursor, p)
    <2>1. num \in Nat \ {0}
        BY PaginationAssumption
    <2> QED
        BY <1>1, <1>5, <1>6, <1>8, <2>1, AddPageIs
<1>10. PICK qs \in Seq(Page) : qs = pages'
    BY <1>7, <1>9, SessionTypes DEF Added
<1>11. /\ Len(qs) = n + 1
       /\ \A i \in 1..n : qs[i] = pages[i]
       /\ qs[n + 1].result = NoResult
    <2>1. DOMAIN qs = 1..(n + 1) /\ (\A i \in 1..n : qs[i] = pages[i]) /\ qs[n + 1] = p
          /\ p.result = NoResult
        BY <1>1, <1>2, <1>7, <1>9, <1>10 DEF Added
    <2>2. Len(qs) \in Nat /\ DOMAIN qs = 1..Len(qs)
        BY <1>10, LenProperties
    <2>3. Len(qs) = n + 1
        BY <2>1, <2>2
    <2> QED
        BY <2>1, <2>3
<1>12. PICK k \in 0..(n + 1) : k = ShownOf(qs) /\ \A i \in 1..k : Showable(qs[i])
    BY <1>11, ShownIs
<1>13. n <= k
    <2>1. \A i \in 1..n : Showable(pages[i])
        BY <1>2, <1>3, ShownIs
    <2>2. \A i \in 1..n : Showable(qs[i])
        BY <1>11, <2>1
    <2>3. n \in 0..(n + 1)
        OBVIOUS
    <2> QED
        BY <1>11, <1>12, <2>2, <2>3, ShownIs
<1>14. k # n + 1
    <2>1. ~Showable(qs[n + 1])
        BY <1>11 DEF Showable, Parsed, NoResult
    <2>2. k = n + 1 => n + 1 \in 1..k
        OBVIOUS
    <2> QED
        BY <1>12, <2>1, <2>2
<1>15. k = n
    BY <1>13, <1>14
<1>16. qs[n] = pages[n] /\ n # 0
    <2>1. n \in 1..n
        OBVIOUS
    <2> QED
        BY <1>11, <2>1
<1> QED
    BY <1>3, <1>10, <1>12, <1>15, <1>16 DEF ShownEndOf

\* One step of the property.
View ==
    /\ generation' = generation /\ ~stopped'
    /\ \A p \in ToSet(pages') : p.result = NoResult \/ Showable(p)

\* Every operation keeps what is on display.
LEMMA ViewStep ==
    ASSUME SeamInv, [Next]_vars, View
    PROVE  ShownEndOf(pages') >= ShownEndOf(pages)
<1>1. ShownEndOf(pages) \in Nat
    <2>1. Here.pages = pages /\ SessionOK(Here, served)
        BY HereIs DEF SeamInv
    <2> QED
        BY <2>1, ShownEndIs
<1>2. ASSUME pages' = pages PROVE ShownEndOf(pages') >= ShownEndOf(pages)
    BY <1>1, <1>2
<1>3. ASSUME ShownEndOf(pages') = ShownEndOf(pages)
      PROVE  ShownEndOf(pages') >= ShownEndOf(pages)
    BY <1>1, <1>3
<1>4. generation \in Nat
    BY DEF SeamInv, TypeOK
<1>5. ASSUME NEW num \in LoadSizes, LoadMore(num) PROVE ShownEndOf(pages') >= ShownEndOf(pages)
    BY <1>3, <1>5, LoadMoreKeepsTheView
<1>6. CASE Reset
    BY <1>4, <1>6 DEF Reset, View
<1>7. CASE Stop
    BY <1>7 DEF Stop, View
<1>8. CASE OnPageResult
    <2>1. queue # <<>> /\ queue' = Tail(queue) /\ list' = list
        BY <1>8 DEF OnPageResult
    <2>2. CASE IgnoreResult
        BY <1>2, <2>2 DEF IgnoreResult, session
    <2>3. CASE ResetOnResult
        BY <1>4, <2>3 DEF ResetOnResult, View
    <2>4. CASE StoreResult
        <3>1. SessionOK(Here, served)'
            BY SeamStep DEF SeamInv
        <3> QED
            BY <2>1, <2>4, <3>1, StoreKeepsTheView DEF View
    <2> QED
        BY <1>8, <2>2, <2>3, <2>4 DEF OnPageResult
<1>9. CASE Transition
    <2>1. UNCHANGED <<session, generation, stopped, list, counters>>
        BY <1>9 DEF Transition
    <2> QED
        BY <1>2, <2>1 DEF session
<1>10. ASSUME NEW k \in DOMAIN served, NEW kind \in {"error", "invalid", "malformed"}, Fault(k, kind)
       PROVE  ShownEndOf(pages') >= ShownEndOf(pages)
    BY <1>2, <1>10 DEF Fault, session
<1>11. ASSUME NEW items \in Commits, Change(items)
       PROVE  ShownEndOf(pages') >= ShownEndOf(pages)
    BY <1>2, <1>11 DEF Change, session
<1>12. CASE UNCHANGED vars
    BY <1>2, <1>12 DEF vars, session
<1> QED
    BY <1>5, <1>6, <1>7, <1>8, <1>9, <1>10, <1>11, <1>12 DEF Next

\* What is on display stays there through splits, further pages and late
\* results: only a reset, an error or an incomplete page shortens the list that
\* compute_snapshot() shows (start_split(), advance_split(), load_more()).
THEOREM TheViewIsKept == Spec => SplitsKeepTheView
<1>1. SeamInv /\ [Next]_vars /\ View => ShownEnd' >= ShownEnd
    <2>1. ShownEnd = ShownEndOf(pages) /\ ShownEnd' = ShownEndOf(pages')
        BY DEF ShownEnd, ShownEndOf, Shown, ShownOf
    <2> QED
        BY <2>1, ViewStep
<1>2. SeamInv /\ [Next]_vars
      => [/\ generation' = generation /\ ~stopped'
          /\ \A p \in ToSet(pages') : p.result = NoResult \/ Showable(p)
          => ShownEnd' >= ShownEnd]_vars
    BY <1>1 DEF View
<1> QED
    BY <1>2, SeamInvariant, PTL DEF Spec, SplitsKeepTheView

-----------------------------------------------------------------------------
(* What is on display is a prefix of the list.                             *)

\* Sequences joined one after the other.
Joins(w, seqs, n) ==
    w = [i \in 1..n |-> IF i = 1 THEN seqs[i] ELSE w[i - 1] \o seqs[i]]

\* The joined sequences are what FlattenSeq() computes.
LEMMA FlattenIs ==
    ASSUME NEW seqs, NEW n \in Nat \ {0}, Len(seqs) = n, NEW w, Joins(w, seqs, n)
    PROVE  FlattenSeq(seqs) = w[n]
<1>1. PICK f : f = CHOOSE g : Joins(g, seqs, n)
    OBVIOUS
<1>2. Joins(f, seqs, n)
    BY <1>1
<1>3. FlattenSeq(seqs) = f[n]
    <2> DEFINE g == CHOOSE h : h = [i \in 1..Len(seqs) |-> IF i = 1 THEN seqs[i]
                                                           ELSE h[i - 1] \o seqs[i]]
    <2>1. FlattenSeq(seqs) = g[Len(seqs)]
        BY DEF FlattenSeq
    <2>2. g = f
        BY <1>1 DEF Joins
    <2> HIDE DEF g
    <2> QED
        BY <2>1, <2>2
<1> DEFINE Differ == {i \in 1..n : f[i] # w[i]}
<1>4. Differ = {}
    <2> SUFFICES ASSUME Differ # {} PROVE FALSE
        OBVIOUS
    <2>1. Differ \in SUBSET Nat
        OBVIOUS
    <2>2. PICK x \in Differ : \A y \in Differ : ~ (<<y, x>> \in OpToRel(<, Nat))
        BY <2>1, NatLessThanWellFounded, WFMin
    <2>3. \A y \in Differ : ~ (y < x)
        BY <2>1, <2>2 DEF OpToRel
    <2>4. x \in 1..n /\ f[x] # w[x]
        BY <2>2
    <2>5. /\ f[x] = IF x = 1 THEN seqs[x] ELSE f[x - 1] \o seqs[x]
          /\ w[x] = IF x = 1 THEN seqs[x] ELSE w[x - 1] \o seqs[x]
        BY <1>2, <2>4 DEF Joins
    <2>6. x # 1
        BY <2>4, <2>5
    <2>7. x - 1 \in 1..n /\ x - 1 < x
        BY <2>4, <2>6
    <2>8. f[x - 1] = w[x - 1]
        BY <2>3, <2>7
    <2> QED
        BY <2>4, <2>5, <2>6, <2>8
<1>5. f[n] = w[n]
    <2>1. n \in 1..n
        OBVIOUS
    <2> QED
        BY <1>4, <2>1
<1> QED
    BY <1>3, <1>5

\* The items up to a position are those up to an earlier one and those behind it.
LEMMA ItemsJoined ==
    ASSUME list \subseteq Positions, NEW d \in Cursors, NEW e \in Cursors, d <= e
    PROVE  InOrder(ItemsIn(0, e)) = InOrder(ItemsIn(0, d)) \o InOrder(ItemsIn(d, e))
<1>1. PICK A : A = ItemsIn(0, d)
    OBVIOUS
<1>2. PICK B : B = ItemsIn(d, e)
    OBVIOUS
<1>3. 0 \in Cursors /\ d \in Nat /\ e \in Nat /\ \A x \in list : x \in Nat
    BY PaginationAssumption DEF Cursors, Positions
<1>4. A \in SUBSET Nat /\ IsFiniteSet(A) /\ B \in SUBSET Nat /\ IsFiniteSet(B)
    BY <1>1, <1>2, <1>3, ItemsOK
<1>5. AllBelow(A, B)
    <2>1. ASSUME NEW x \in A, NEW y \in B PROVE x < y
        <3>1. x \in Nat /\ y \in Nat /\ x <= d /\ d < y
            BY <1>1, <1>2, <1>4, <2>1 DEF ItemsIn
        <3> QED
            BY <1>3, <3>1
    <2> QED
        BY <2>1 DEF AllBelow
<1>6. ItemsIn(0, e) = A \cup B
    BY <1>1, <1>2, <1>3 DEF ItemsIn
<1>7. InOrder(A \cup B) = InOrder(A) \o InOrder(B)
    BY <1>4, <1>5, InOrderConcat
<1> QED
    BY <1>1, <1>2, <1>6, <1>7

\* An empty range has no items.
LEMMA NoItems ==
    ASSUME list \subseteq Positions, NEW s, s = [i \in 1..0 |-> InOrder(pages[i].result.items)]
    PROVE  FlattenSeq(s) = InOrder(ItemsIn(0, 0))
<1>1. PICK S : S = ItemsIn(0, 0)
    OBVIOUS
<1>2. S = {}
    <2>1. \A x \in list : x \in Nat
        BY PaginationAssumption DEF Positions
    <2> QED
        BY <1>1, <2>1 DEF ItemsIn
<1>3. S \in SUBSET Nat /\ IsFiniteSet(S) /\ Cardinality(S) = 0
    BY <1>2, FS_EmptySet
<1>4. InOrder(S) \in Seq(Nat) /\ Len(InOrder(S)) = 0
    BY <1>3, InOrderProperties
<1>5. s \in Seq(Nat) /\ Len(s) = 0
    <2>1. s \in [1..0 -> Nat]
        OBVIOUS
    <2>2. s \in Seq(Nat)
        BY <2>1, SeqDef
    <2> QED
        BY <2>2, LenProperties
<1>6. FlattenSeq(s) = s
    BY <1>5 DEF FlattenSeq
<1> QED
    BY <1>1, <1>4, <1>5, <1>6, EmptySeq

\* A snapshot of pages that are up to date.
LEMMA PrefixIs ==
    ASSUME SeamInv, \A i \in 1..Shown : pages[i].result = Evaluate(pages[i], RangeEnd(pages[i]))
    PROVE  Results = InOrder(ItemsIn(0, ShownEnd))
<1>1. /\ pages \in Seq(Page) /\ Here.pages = pages /\ SessionOK(Here, served)
      /\ list \subseteq Positions
    BY HereIs DEF SeamInv, ServerOK
<1>2. PICK n \in Nat : n = Len(pages) /\ DOMAIN pages = 1..n
    BY <1>1, LenProperties
<1>3. PICK k \in 0..n : k = Shown /\ \A i \in 1..k : Showable(pages[i])
    <2>1. Shown = ShownOf(pages)
        BY DEF Shown, ShownOf
    <2> QED
        BY <1>2, <2>1, ShownIs
<1>4. PICK s : s = [i \in 1..k |-> InOrder(pages[i].result.items)]
    OBVIOUS
<1>5. Results = FlattenSeq(s)
    BY <1>3, <1>4 DEF Results
<1>6. CASE k = 0
    <2>1. ShownEnd = 0
        BY <1>3, <1>6 DEF ShownEnd
    <2> QED
        BY <1>1, <1>4, <1>5, <1>6, <2>1, NoItems
<1>7. ASSUME k # 0 PROVE FlattenSeq(s) = InOrder(ItemsIn(0, ShownEnd))
    <2>0. k \in Nat \ {0}
        BY <1>7
    <2>1. ASSUME NEW i \in 1..k
          PROVE  /\ pages[i].cursor \in Cursors /\ RangeEnd(pages[i]) \in Cursors
                 /\ pages[i].cursor <= RangeEnd(pages[i])
                 /\ pages[i].result.continue_cursor = RangeEnd(pages[i])
                 /\ EndIn(served, pages[i]) = RangeEnd(pages[i])
                 /\ pages[i].result.items = ItemsIn(pages[i].cursor, RangeEnd(pages[i]))
        <3>1. i \in DOMAIN pages
            BY <1>2
        <3>2. PICK p \in Page : p = pages[i] /\ PageOK(served, p)
            <4>1. pages[i] \in Page /\ pages[i] \in Stored(Here)
                BY <1>1, <3>1, ElementOfSeq, LenProperties, StoredIs
            <4> QED
                BY <4>1, HereIs
        <3>3. PICK e \in Cursors : e = RangeEnd(p) /\ p.cursor <= e
            BY <1>1, <3>2, RangeEndOK
        <3>4. PICK r : r = p.result
            OBVIOUS
        <3>5. r = Evaluate(p, e)
            BY <1>3, <3>2, <3>3, <3>4
        <3>6. /\ r.continue_cursor = e
              /\ ~r.split_required => r.items = ItemsIn(p.cursor, e)
            BY <1>1, <3>5, EvaluateOK
        <3>7. ~r.split_required
            BY <1>3, <3>2, <3>4 DEF Showable
        <3>8. r.continue_cursor = EndIn(served, p)
            BY <1>1, <1>3, <3>1, <3>2, <3>4, ShowableEnds
        <3> QED
            BY <3>2, <3>3, <3>4, <3>6, <3>7, <3>8 DEF Page
    <2>2. PICK e : e = [i \in 1..k |-> RangeEnd(pages[i])]
        OBVIOUS
    <2>3. \A i \in 1..k : e[i] \in Cursors /\ s[i] = InOrder(ItemsIn(pages[i].cursor, e[i]))
        BY <1>4, <2>1, <2>2
    <2>4. ASSUME NEW i \in 1..k
          PROVE  /\ i = 1 => pages[i].cursor = 0
                 /\ i # 1 => pages[i].cursor = e[i - 1] /\ e[i - 1] <= e[i]
        <3>1. SeamsOK(pages, served) /\ i \in DOMAIN pages
            BY <1>1, <1>2 DEF SessionOK
        <3>2. CASE i = 1
            BY <3>1, <3>2 DEF SeamsOK
        <3>3. CASE i # 1
            <4>1. i - 1 \in 1..k
                BY <3>3
            <4>2. pages[i].cursor = EndIn(served, pages[i - 1])
                BY <3>1, <3>3 DEF SeamsOK
            <4>3. EndIn(served, pages[i - 1]) = e[i - 1]
                BY <2>1, <2>2, <4>1
            <4>4. pages[i].cursor <= e[i]
                BY <2>1, <2>2
            <4> QED
                BY <3>3, <4>2, <4>3, <4>4
        <3> QED
            BY <3>2, <3>3
    <2>5. PICK w : w = [i \in 1..k |-> InOrder(ItemsIn(0, e[i]))]
        OBVIOUS
    <2>6. ASSUME NEW i \in 1..k
          PROVE  w[i] = IF i = 1 THEN s[i] ELSE w[i - 1] \o s[i]
        <3>1. CASE i = 1
            BY <2>3, <2>4, <2>5, <3>1
        <3>2. CASE i # 1
            <4>1. i - 1 \in 1..k
                BY <3>2
            <4>2. e[i - 1] \in Cursors /\ e[i] \in Cursors /\ e[i - 1] <= e[i]
                BY <2>3, <2>4, <3>2, <4>1
            <4>3. InOrder(ItemsIn(0, e[i]))
                    = InOrder(ItemsIn(0, e[i - 1])) \o InOrder(ItemsIn(e[i - 1], e[i]))
                BY <1>1, <4>2, ItemsJoined
            <4>4. s[i] = InOrder(ItemsIn(e[i - 1], e[i]))
                BY <2>3, <2>4, <3>2
            <4>5. w[i] = InOrder(ItemsIn(0, e[i])) /\ w[i - 1] = InOrder(ItemsIn(0, e[i - 1]))
                BY <2>5, <4>1
            <4> QED
                BY <3>2, <4>3, <4>4, <4>5
        <3> QED
            BY <3>1, <3>2
    <2>7. Joins(w, s, k)
        <3>1. w = [i \in 1..k |-> w[i]]
            BY <2>5
        <3> QED
            BY <2>6, <3>1 DEF Joins
    <2>8. Len(s) = k
        <3>1. s \in [1..k -> {s[i] : i \in 1..k}]
            BY <1>4
        <3>2. s \in Seq({s[i] : i \in 1..k})
            BY <2>0, <3>1, SeqDef
        <3>3. DOMAIN s = 1..k
            BY <1>4
        <3> QED
            BY <2>0, <3>2, <3>3, LenProperties
    <2>9. FlattenSeq(s) = w[k]
        BY <2>0, <2>7, <2>8, FlattenIs
    <2>10. k \in 1..k
        BY <2>0
    <2>11. ShownEnd = e[k]
        BY <1>3, <1>7, <2>1, <2>2, <2>10 DEF ShownEnd
    <2> QED
        BY <2>5, <2>9, <2>10, <2>11
<1> QED
    BY <1>5, <1>6, <1>7

\* The snapshot has no hole and nothing twice: once the pages it shows are up to
\* date, it holds every item of the list up to where it ends, in order
\* (compute_snapshot(), over the ranges that load_more() and start_split() ask for).
THEOREM SnapshotIsPrefix == Spec => []ListIsPrefix
<1>1. SeamInv => ListIsPrefix
    BY PrefixIs DEF ListIsPrefix
<1> QED
    BY <1>1, SeamInvariant, PTL

=============================================================================
