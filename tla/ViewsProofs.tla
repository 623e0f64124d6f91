----------------------------- MODULE ViewsProofs -----------------------------
(***************************************************************************)
(* What the lists, the dashboard and the snapshots show although the       *)
(* tables change while they are read: for all tables, queries, page sizes  *)
(* and histories.                                                          *)
(***************************************************************************)
EXTENDS ListingsProperties, StatisticsProperties, FiniteSetTheorems, TLAPS

(* The shape of a listing and of the table it reads. *)
ListingTyped ==
  /\ query \in Queries
  /\ rows \in [RowIds -> TableRows \cup {None}]
  /\ nextId \in Nat \ {0}
  /\ listing \in [pc : {"ask", "done"}, cursor : RowIds \cup {None}, shown : Seq(RowIds),
                  left : Nat, steady : SUBSET RowIds, key : Nat \cup {None}, lost : BOOLEAN,
                  changes : Nat]

(* Is row i at the cursor, as it was when the cursor was taken, or before? *)
Passed(i) ==
  /\ listing.cursor # None
  /\ \/ i = listing.cursor
     \/ IF query.direction = "asc"
        THEN \/ Key(query, i) < listing.key
             \/ Key(query, i) = listing.key /\ i < listing.cursor
        ELSE \/ listing.key < Key(query, i)
             \/ Key(query, i) = listing.key /\ listing.cursor < i

IsShown(i) == \E k \in DOMAIN listing.shown : listing.shown[k] = i

NeverTwice(i) ==
  \A k, l \in DOMAIN listing.shown : listing.shown[k] = i /\ listing.shown[l] = i => k = l

(* Until the end, the rows that stay are shown up to the cursor.           *)
AskInv ==
  /\ \A i \in listing.steady : i \in Base(query) /\ Keeps(query, rows[i])
  /\ listing.cursor # None => listing.key \in Nat /\ (query.sort = None => listing.key = 0)
  /\ ~listing.lost =>
       \A i \in listing.steady : NeverTwice(i) /\ (IsShown(i) <=> Passed(i))

(* At the end, they are shown, unless enough are.                          *)
DoneInv ==
  ~listing.lost =>
    \A i \in listing.steady : NeverTwice(i) /\ (listing.left > 0 => IsShown(i))

ListingInv ==
  /\ ListingTyped
  /\ listing.pc = "ask" => AskInv
  /\ listing.pc = "done" => DoneInv

-----------------------------------------------------------------------------
(* The order of a query is a strict total order of the rows it selects.    *)
Before(q, i, j) == IF q.direction = "asc" THEN Less(q, i, j) ELSE Less(q, j, i)

LEMMA KeysAreNumbers ==
  ASSUME ListingTyped, NEW q \in Queries, NEW i \in Base(q)
  PROVE  i \in RowIds /\ Key(q, i) \in Nat
<1>1. i \in RowIds /\ rows[i] \in TableRows
  BY DEF Base, Selected, ListingTyped
<1>2. rows[i].priority \in Nat /\ rows[i].name \in Nat
  BY <1>1 DEF TableRows
<1>3. QED  BY <1>1, <1>2 DEF Key

LEMMA OrderIsTotal ==
  ASSUME ListingTyped, NEW q \in Queries
  PROVE  /\ \A i \in Base(q) : ~Before(q, i, i)
         /\ \A i, j \in Base(q) : i = j \/ Before(q, i, j) \/ Before(q, j, i)
         /\ \A i, j, k \in Base(q) : Before(q, i, j) /\ Before(q, j, k) => Before(q, i, k)
<1>1. \A i \in Base(q) : i \in Nat /\ Key(q, i) \in Nat
  BY KeysAreNumbers DEF RowIds
<1>2. QED  BY <1>1 DEF Before, Less

(* The rows in their order are a sequence of all of them, each once.       *)
LEMMA RanksAreApart ==
  ASSUME ListingTyped, NEW q \in Queries, NEW S \in SUBSET Base(q)
  PROVE  /\ IsFiniteSet(S) /\ Cardinality(S) \in Nat
         /\ \A i \in S : Rank(q, S, i) \in 1 .. Cardinality(S)
         /\ \A i, j \in S : Before(q, i, j) => Rank(q, S, i) < Rank(q, S, j)
<1> DEFINE Lower(i) == {j \in S : Before(q, j, i)}
<1>1. IsFiniteSet(S) /\ Cardinality(S) \in Nat
  <2>1. S \subseteq 1 .. MaxRowId
    BY KeysAreNumbers DEF RowIds
  <2>2. IsFiniteSet(1 .. MaxRowId)
    BY FS_Interval, ListingsAssumption
  <2>3. QED  BY <2>1, <2>2, FS_Subset, FS_CardinalityType
<1>2. \A i \in S : Rank(q, S, i) = Cardinality(Lower(i)) + 1
  BY DEF Rank, Before
<1>3. \A i \in S : IsFiniteSet(Lower(i)) /\ Cardinality(Lower(i)) \in Nat
  BY <1>1, FS_Subset, FS_CardinalityType
<1>4. \A i \in S : i \notin Lower(i)
  BY OrderIsTotal
<1>5. \A i \in S : Cardinality(Lower(i)) < Cardinality(S)
  <2> SUFFICES ASSUME NEW i \in S PROVE Cardinality(Lower(i)) < Cardinality(S)
    OBVIOUS
  <2>1. Lower(i) \in SUBSET S /\ Lower(i) # S
    BY <1>4
  <2> HIDE DEF Lower
  <2>2. Cardinality(Lower(i)) <= Cardinality(S) /\ Cardinality(Lower(i)) # Cardinality(S)
    BY <1>1, <2>1, FS_Subset
  <2>3. QED  BY <1>1, <1>3, <2>2
<1>6. ASSUME NEW i \in S, NEW j \in S, Before(q, i, j)
      PROVE  Cardinality(Lower(i)) < Cardinality(Lower(j))
  <2>1. Lower(i) \in SUBSET Lower(j)
    BY <1>6, OrderIsTotal
  <2>2. i \in Lower(j) /\ i \notin Lower(i)
    BY <1>4, <1>6
  <2> HIDE DEF Lower
  <2>3. /\ Cardinality(Lower(i)) <= Cardinality(Lower(j))
        /\ Cardinality(Lower(i)) # Cardinality(Lower(j))
    BY <1>3, <2>1, <2>2, FS_Subset
  <2>4. QED  BY <1>3, <2>3
<1> HIDE DEF Lower
<1>7. QED  BY <1>1, <1>2, <1>3, <1>5, <1>6

LEMMA SortedInOrder ==
  ASSUME ListingTyped, NEW q \in Queries, NEW S \in SUBSET Base(q)
  PROVE  /\ Cardinality(S) \in Nat
         /\ Sorted(q, S) \in [1 .. Cardinality(S) -> S]
         /\ \A i \in S : \E k \in 1 .. Cardinality(S) : Sorted(q, S)[k] = i
         /\ \A k, l \in 1 .. Cardinality(S) : k < l => Before(q, Sorted(q, S)[k], Sorted(q, S)[l])
         /\ \A k, l \in 1 .. Cardinality(S) : Sorted(q, S)[k] = Sorted(q, S)[l] => k = l
<1> DEFINE n == Cardinality(S)
           rank == [i \in S |-> Rank(q, S, i)]
<1>1. /\ IsFiniteSet(S) /\ n \in Nat
      /\ \A i \in S : Rank(q, S, i) \in 1 .. n
      /\ \A i, j \in S : Before(q, i, j) => Rank(q, S, i) < Rank(q, S, j)
  BY RanksAreApart
<1>2. \A i, j \in S : Rank(q, S, i) = Rank(q, S, j) => i = j
  <2> SUFFICES ASSUME NEW i \in S, NEW j \in S, i # j PROVE Rank(q, S, i) # Rank(q, S, j)
    OBVIOUS
  <2>1. Before(q, i, j) \/ Before(q, j, i)
    BY OrderIsTotal
  <2>2. Rank(q, S, i) \in Nat /\ Rank(q, S, j) \in Nat
    BY <1>1
  <2>3. QED  BY <1>1, <2>1, <2>2
<1>3. \A k \in 1 .. n : \E i \in S : Rank(q, S, i) = k
  <2>1. rank \in Injection(S, 1 .. n)
    BY <1>1, <1>2 DEF Injection, IsInjective
  <2>2. IsFiniteSet(1 .. n) /\ Cardinality(1 .. n) = n
    BY <1>1, FS_Interval
  <2>3. rank \in Surjection(S, 1 .. n)
    BY <2>1, <2>2, FS_Injection
  <2>4. QED  BY <2>3 DEF Surjection
<1>4. \A k \in 1 .. n : Sorted(q, S)[k] \in S /\ Rank(q, S, Sorted(q, S)[k]) = k
  BY <1>3 DEF Sorted
<1>5. Sorted(q, S) \in [1 .. n -> S]
  BY <1>4 DEF Sorted
<1>6. \A i \in S : Sorted(q, S)[Rank(q, S, i)] = i
  BY <1>1, <1>2, <1>4
<1>7. ASSUME NEW k \in 1 .. n, NEW l \in 1 .. n, k < l
      PROVE  Before(q, Sorted(q, S)[k], Sorted(q, S)[l])
  <2> DEFINE i == Sorted(q, S)[k]
             j == Sorted(q, S)[l]
  <2>1. i \in S /\ j \in S /\ Rank(q, S, i) = k /\ Rank(q, S, j) = l
    BY <1>4
  <2> HIDE DEF i, j
  <2>2. i # j /\ ~Before(q, j, i)
    BY <1>1, <1>7, <2>1
  <2>3. QED  BY <2>1, <2>2, OrderIsTotal DEF i, j
<1>8. QED  BY <1>1, <1>4, <1>5, <1>6, <1>7

(* A page, or what is kept of it, is the beginning of the sorted rows.     *)
IsBeginning(p, q, S, n) ==
  /\ p \in Seq(S) /\ Len(p) <= n
  /\ \A k, l \in DOMAIN p : p[k] = p[l] => k = l
  /\ \A k, l \in DOMAIN p : k < l => Before(q, p[k], p[l])
  /\ \A i \in S : \/ \E k \in DOMAIN p : p[k] = i
                  \/ Len(p) = n /\ \A k \in DOMAIN p : Before(q, p[k], i)

LEMMA TakesBeginning ==
  ASSUME ListingTyped, NEW q \in Queries, NEW S \in SUBSET Base(q), NEW n \in Nat
  PROVE  IsBeginning(Take(Sorted(q, S), n), q, S, n)
<1> DEFINE p == Take(Sorted(q, S), n)
<1> DEFINE m == Cardinality(S)
           s == Sorted(q, S)
           last == IF m < n THEN m ELSE n
<1>1. /\ m \in Nat /\ s \in [1 .. m -> S]
      /\ \A i \in S : \E k \in 1 .. m : s[k] = i
      /\ \A k, l \in 1 .. m : k < l => Before(q, s[k], s[l])
      /\ \A k, l \in 1 .. m : s[k] = s[l] => k = l
  BY SortedInOrder
<1> HIDE DEF m, s
<1>2. s \in Seq(S) /\ Len(s) = m
  BY <1>1
<1>3. p = SubSeq(s, 1, last)
  BY <1>2 DEF Take, s, p
<1> HIDE DEF p
<1>4. last \in Nat /\ last <= m /\ last <= n
  BY <1>1
<1>5. p \in Seq(S) /\ Len(p) = last /\ \A k \in 1 .. last : p[k] = s[k]
  BY <1>2, <1>3, <1>4
<1>6. DOMAIN p = 1 .. last
  BY <1>5
<1>7. ASSUME NEW i \in S, ~\E k \in DOMAIN p : p[k] = i
      PROVE  Len(p) = n /\ \A k \in DOMAIN p : Before(q, p[k], i)
  <2>1. PICK l \in 1 .. m : s[l] = i
    BY <1>1
  <2>2. l > last
    BY <1>1, <1>4, <1>5, <1>6, <1>7, <2>1
  <2>3. \A k \in 1 .. last : Before(q, s[k], s[l])
    BY <1>1, <1>4, <2>2
  <2>4. last = n
    BY <1>1, <2>1, <2>2
  <2>5. QED  BY <1>5, <1>6, <2>1, <2>3, <2>4
<1>8. IsBeginning(p, q, S, n)
  BY <1>1, <1>4, <1>5, <1>6, <1>7 DEF IsBeginning
<1>9. QED  BY <1>8 DEF p, s

(* The row of the cursor is where it was, unless it has left or moved.     *)
LEMMA CursorIsPlace ==
  ASSUME AskInv, listing.cursor # None,
         ~ /\ query.sort # None
           /\ \/ listing.cursor \notin Base(query)
              \/ Key(query, listing.cursor) # listing.key
  PROVE  Key(query, listing.cursor) = listing.key
<1>1. CASE query.sort = None
  <2>1. None # "name" /\ None # "priority"
    BY ListingsAssumption
  <2>2. Key(query, listing.cursor) = 0 /\ listing.key = 0
    BY <1>1, <2>1 DEF Key, AskInv
  <2>3. QED  BY <2>2
<1>2. CASE query.sort # None
  BY <1>2
<1>3. QED  BY <1>1, <1>2

(* What the reader has passed is what the daemon leaves out of the page,   *)
(* unless the row of the cursor has left or moved.                         *)
LEMMA BeyondThePassed ==
  ASSUME ListingTyped, AskInv, NEW i \in Base(query),
         ~ /\ listing.cursor # None
           /\ query.sort # None
           /\ \/ listing.cursor \notin Base(query)
              \/ Key(query, listing.cursor) # listing.key
  PROVE  Beyond(query, listing.cursor, i) <=> ~Passed(i)
<1> DEFINE c == listing.cursor
<1>1. /\ query \in Queries /\ query.sort \in {"name", "priority", None}
      /\ \/ query.cursor = "after" /\ query.direction = "asc"
         \/ query.cursor = "before" /\ query.direction = "desc"
      /\ i \in Nat /\ Key(query, i) \in Nat
  BY KeysAreNumbers, ListingsAssumption DEF ListingTyped, RowIds
<1>2. CASE c = None
  BY <1>2 DEF Beyond, Passed
<1>3. CASE c # None
  <2>1. c \in Nat /\ listing.key \in Nat
    BY <1>3 DEF ListingTyped, AskInv, RowIds
  <2>2. Comparable(query, c)
    BY <1>3 DEF Comparable
  <2>3. Key(query, c) = listing.key
    BY <1>3, CursorIsPlace
  <2>4. CASE query.cursor = "after" /\ query.direction = "asc"
    <3>1. Beyond(query, c, i) <=> Less(query, c, i)
      BY <1>3, <2>2, <2>4 DEF Beyond
    <3>2. QED  BY <1>1, <1>3, <2>1, <2>3, <2>4, <3>1 DEF Less, Passed
  <2>5. CASE query.cursor = "before" /\ query.direction = "desc"
    <3>1. Beyond(query, c, i) <=> Less(query, i, c)
      BY <1>3, <2>2, <2>5 DEF Beyond
    <3>2. QED  BY <1>1, <1>3, <2>1, <2>3, <2>5, <3>1 DEF Less, Passed
  <2>6. QED  BY <1>1, <2>4, <2>5
<1>4. QED  BY <1>2, <1>3

-----------------------------------------------------------------------------
(* What a request for a page brings, and what is kept of it.               *)
Ahead == {i \in Base(query) : Beyond(query, listing.cursor, i)}
NextPage == Take(Sorted(query, Ahead), PageSize)
Keepers == {i \in ToSet(NextPage) : Keeps(query, rows[i])}
NextKept == Take(Sorted(query, Keepers), listing.left)

Ends ==
  \/ NextPage = <<>>
  \/ query.untilShort /\ Len(NextPage) < PageSize
  \/ listing.left = Len(NextKept)

LostNow ==
  /\ listing.cursor # None
  /\ query.sort # None
  /\ \/ listing.cursor \notin Base(query)
     \/ Key(query, listing.cursor) # listing.key

LEMMA RequestIs ==
  ASSUME RequestPage
  PROVE  listing' = [listing EXCEPT
           !.shown = @ \o NextKept,
           !.left = @ - Len(NextKept),
           !.pc = IF Ends THEN "done" ELSE @,
           !.cursor = IF Ends THEN None ELSE Last(NextPage),
           !.key = IF Ends THEN None ELSE Key(query, Last(NextPage)),
           !.lost = @ \/ LostNow]
<1>1. Page(query, listing.cursor) = NextPage
  BY DEF Page, NextPage, Ahead
<1>2. QED  BY <1>1 DEF RequestPage, NextKept, Keepers, Ends, LostNow

LEMMA PageInOrder ==
  ASSUME ListingTyped
  PROVE  /\ Ahead \subseteq Base(query)
         /\ NextPage \in Seq(Ahead) /\ Len(NextPage) <= PageSize
         /\ \A k, l \in DOMAIN NextPage : k < l => Before(query, NextPage[k], NextPage[l])
         /\ \A i \in Ahead :
              \/ \E k \in DOMAIN NextPage : NextPage[k] = i
              \/ Len(NextPage) = PageSize /\ \A k \in DOMAIN NextPage : Before(query, NextPage[k], i)
<1>1. query \in Queries /\ PageSize \in Nat /\ Ahead \in SUBSET Base(query)
  BY ListingsAssumption DEF ListingTyped, Ahead
<1>2. IsBeginning(NextPage, query, Ahead, PageSize)
  BY <1>1, TakesBeginning DEF NextPage
<1>3. QED  BY <1>1, <1>2 DEF IsBeginning

LEMMA KeptInOrder ==
  ASSUME ListingTyped
  PROVE  /\ Keepers \subseteq Base(query)
         /\ NextKept \in Seq(Keepers) /\ Len(NextKept) <= listing.left
         /\ \A k, l \in DOMAIN NextKept : NextKept[k] = NextKept[l] => k = l
         /\ \A i \in Keepers : (\E k \in DOMAIN NextKept : NextKept[k] = i) \/ Len(NextKept) = listing.left
<1>1. ToSet(NextPage) \subseteq Base(query)
  BY PageInOrder DEF ToSet
<1>2. query \in Queries /\ listing.left \in Nat /\ Keepers \in SUBSET Base(query)
  BY <1>1 DEF ListingTyped, Keepers
<1>3. IsBeginning(NextKept, query, Keepers, listing.left)
  BY <1>2, TakesBeginning DEF NextKept
<1>4. QED  BY <1>2, <1>3 DEF IsBeginning

LEMMA Concatenated ==
  ASSUME NEW T, NEW u \in Seq(T), NEW v \in Seq(T)
  PROVE  /\ u \o v \in Seq(T)
         /\ DOMAIN (u \o v) = 1 .. (Len(u) + Len(v))
         /\ DOMAIN u = 1 .. Len(u) /\ DOMAIN v = 1 .. Len(v)
         /\ Len(u) \in Nat /\ Len(v) \in Nat
         /\ \A k \in DOMAIN u : (u \o v)[k] = u[k]
         /\ \A k \in DOMAIN v : (u \o v)[Len(u) + k] = v[k]
OBVIOUS

LEMMA RequestKeepsInv ==
  ASSUME ListingInv, RequestPage
  PROVE  ListingInv'
<1> DEFINE S == Ahead
           p == NextPage
           K == Keepers
           kept == NextKept
           ends == Ends
           lost == LostNow
<1>1. /\ ListingTyped /\ AskInv /\ listing.pc = "ask" /\ UNCHANGED <<query, rows, nextId>>
  BY DEF ListingInv, RequestPage
<1>2. /\ Base(query) \subseteq RowIds /\ S \subseteq Base(query) /\ K \subseteq Base(query)
      /\ p \in Seq(RowIds) /\ kept \in Seq(RowIds)
  BY <1>1, PageInOrder, KeptInOrder DEF Base
<1>3. /\ query \in Queries /\ listing.left \in Nat /\ PageSize \in Nat \ {0}
      /\ listing.shown \in Seq(RowIds) /\ listing.steady \in SUBSET RowIds
      /\ listing.lost \in BOOLEAN /\ lost \in BOOLEAN
  BY <1>1, ListingsAssumption DEF ListingTyped, LostNow
<1>4. /\ p \in Seq(S) /\ Len(p) <= PageSize
      /\ \A k, l \in DOMAIN p : k < l => Before(query, p[k], p[l])
      /\ \A i \in S : \/ \E k \in DOMAIN p : p[k] = i
                      \/ Len(p) = PageSize /\ \A k \in DOMAIN p : Before(query, p[k], i)
  BY <1>1, PageInOrder
<1>5. /\ kept \in Seq(K) /\ Len(kept) <= listing.left
      /\ \A k, l \in DOMAIN kept : kept[k] = kept[l] => k = l
      /\ \A i \in K : (\E k \in DOMAIN kept : kept[k] = i) \/ Len(kept) = listing.left
  BY <1>1, KeptInOrder
<1>6. /\ listing'.shown = listing.shown \o kept
      /\ listing'.left = listing.left - Len(kept)
      /\ listing'.pc = (IF ends THEN "done" ELSE "ask")
      /\ listing'.cursor = (IF ends THEN None ELSE Last(p))
      /\ listing'.key = (IF ends THEN None ELSE Key(query, Last(p)))
      /\ listing'.lost = (listing.lost \/ lost)
      /\ listing'.steady = listing.steady
      /\ listing'.changes = listing.changes
      /\ listing' = [pc |-> listing'.pc, cursor |-> listing'.cursor, shown |-> listing'.shown,
                     left |-> listing'.left, steady |-> listing'.steady, key |-> listing'.key,
                     lost |-> listing'.lost, changes |-> listing'.changes]
  BY <1>1, RequestIs DEF ListingTyped
<1> HIDE DEF S, p, K, kept, ends, lost
<1>7. ~ends => /\ p # <<>> /\ Len(p) \in Nat \ {0} /\ Last(p) = p[Len(p)] /\ Last(p) \in S
               /\ Last(p) \in RowIds /\ Key(query, Last(p)) \in Nat
               /\ listing.left - Len(kept) \in Nat \ {0}
  <2> SUFFICES ASSUME ~ends
               PROVE  /\ p # <<>> /\ Len(p) \in Nat \ {0} /\ Last(p) = p[Len(p)] /\ Last(p) \in S
                      /\ Last(p) \in RowIds /\ Key(query, Last(p)) \in Nat
                      /\ listing.left - Len(kept) \in Nat \ {0}
    OBVIOUS
  <2>1. p # <<>> /\ Len(kept) # listing.left
    BY DEF ends, Ends, p, kept
  <2>2. Len(p) \in Nat \ {0} /\ Last(p) = p[Len(p)]
    BY <1>4, <2>1 DEF Last
  <2>3. Last(p) \in S /\ Last(p) \in Base(query)
    BY <1>2, <1>4, <2>2
  <2>4. Last(p) \in RowIds /\ Key(query, Last(p)) \in Nat
    BY <1>1, <1>3, <2>3, KeysAreNumbers
  <2>5. QED  BY <1>3, <1>5, <2>1, <2>2, <2>3, <2>4
<1>8. ListingTyped'
  <2>1. listing'.shown \in Seq(RowIds)
    BY <1>2, <1>3, <1>6, Concatenated
  <2>2. listing'.left \in Nat
    BY <1>3, <1>5, <1>6
  <2>3. /\ listing'.pc \in {"ask", "done"} /\ listing'.cursor \in RowIds \cup {None}
        /\ listing'.key \in Nat \cup {None}
    BY <1>6, <1>7
  <2>4. listing'.lost \in BOOLEAN
    BY <1>3, <1>6
  <2>5. listing'.changes \in Nat
    BY <1>1, <1>6 DEF ListingTyped
  <2>6. listing' \in [pc : {"ask", "done"}, cursor : RowIds \cup {None}, shown : Seq(RowIds),
                      left : Nat, steady : SUBSET RowIds, key : Nat \cup {None},
                      lost : BOOLEAN, changes : Nat]
    BY <1>3, <1>6, <2>1, <2>2, <2>3, <2>4, <2>5
  <2>7. QED  BY <1>1, <2>6 DEF ListingTyped, RowIds
<1>9. ASSUME NEW i \in listing.steady, ~listing'.lost
      PROVE  /\ NeverTwice(i)'
             /\ listing'.left > 0 /\ ends => IsShown(i)'
             /\ ~ends => (IsShown(i)' <=> Passed(i)')
  <2>1. ~listing.lost /\ ~lost
    BY <1>3, <1>6, <1>9
  <2>2. i \in Base(query) /\ Keeps(query, rows[i])
    BY <1>1 DEF AskInv
  <2>3. i \in S <=> ~Passed(i)
    BY <1>1, <2>1, <2>2, BeyondThePassed DEF lost, LostNow, S, Ahead
  <2>4. NeverTwice(i) /\ (IsShown(i) <=> Passed(i))
    BY <1>1, <2>1 DEF AskInv
  <2>5. /\ DOMAIN listing'.shown = 1 .. (Len(listing.shown) + Len(kept))
        /\ DOMAIN listing.shown = 1 .. Len(listing.shown)
        /\ DOMAIN kept = 1 .. Len(kept)
        /\ Len(listing.shown) \in Nat /\ Len(kept) \in Nat
        /\ \A k \in DOMAIN listing.shown : listing'.shown[k] = listing.shown[k]
        /\ \A k \in DOMAIN kept : listing'.shown[Len(listing.shown) + k] = kept[k]
    BY <1>2, <1>3, <1>6, Concatenated
  <2> DEFINE kepti == \E k \in DOMAIN kept : kept[k] = i
  <2>6. kepti => i \in K
    BY <1>5
  <2>7. i \in K <=> \E k \in DOMAIN p : p[k] = i
    BY <2>2 DEF K, Keepers, p, ToSet
  <2>8. i \in K => i \in S
    BY <1>4, <2>7
  <2>9. ~(IsShown(i) /\ kepti)
    BY <2>3, <2>4, <2>6, <2>8
  <2>10. \A k \in DOMAIN listing'.shown :
           \/ k \in DOMAIN listing.shown
           \/ k - Len(listing.shown) \in DOMAIN kept /\ listing'.shown[k] = kept[k - Len(listing.shown)]
    BY <2>5
  <2>11. NeverTwice(i)'
    <3> SUFFICES ASSUME NEW k \in DOMAIN listing'.shown, NEW l \in DOMAIN listing'.shown,
                        listing'.shown[k] = i, listing'.shown[l] = i
                 PROVE  k = l
      BY DEF NeverTwice
    <3>1. CASE k \in DOMAIN listing.shown
      <4>1. IsShown(i)
        BY <2>5, <3>1 DEF IsShown
      <4>2. l \in DOMAIN listing.shown
        BY <2>9, <2>10, <4>1
      <4>3. QED  BY <2>4, <2>5, <3>1, <4>2 DEF NeverTwice
    <3>2. CASE k \notin DOMAIN listing.shown
      <4>1. k - Len(listing.shown) \in DOMAIN kept /\ kept[k - Len(listing.shown)] = i
        BY <2>10, <3>2
      <4>2. kepti
        BY <4>1
      <4>3. l \notin DOMAIN listing.shown
        BY <2>5, <2>9, <4>2 DEF IsShown
      <4>4. l - Len(listing.shown) \in DOMAIN kept /\ kept[l - Len(listing.shown)] = i
        BY <2>10, <4>3
      <4>5. k - Len(listing.shown) = l - Len(listing.shown)
        BY <1>5, <4>1, <4>4
      <4>6. k \in Nat /\ l \in Nat
        BY <2>5
      <4>7. QED  BY <2>5, <4>5, <4>6
    <3>3. QED  BY <3>1, <3>2
  <2>12. IsShown(i)' <=> IsShown(i) \/ kepti
    <3>1. IsShown(i) => IsShown(i)'
      BY <2>5 DEF IsShown
    <3>2. kepti => IsShown(i)'
      <4> SUFFICES ASSUME NEW k \in DOMAIN kept, kept[k] = i PROVE IsShown(i)'
        OBVIOUS
      <4>1. Len(listing.shown) + k \in DOMAIN listing'.shown
        BY <2>5
      <4>2. QED  BY <2>5, <4>1 DEF IsShown
    <3>3. IsShown(i)' => IsShown(i) \/ kepti
      BY <2>5, <2>10 DEF IsShown
    <3>4. QED  BY <3>1, <3>2, <3>3
  <2>13. listing'.left > 0 => (i \in K => kepti)
    BY <1>3, <1>5, <1>6
  <2> HIDE DEF kepti
  <2>14. ASSUME listing'.left > 0, ends PROVE IsShown(i)'
    <3>1. Len(p) < PageSize
      <4>1. listing.left # Len(kept)
        BY <1>3, <1>6, <2>14
      <4>2. p = <<>> \/ Len(p) < PageSize
        BY <2>14, <4>1 DEF ends, Ends, p, kept
      <4>3. QED  BY <1>3, <4>2
    <3>2. i \in S => i \in K
      BY <1>3, <1>4, <2>7, <3>1
    <3>3. QED  BY <2>3, <2>4, <2>12, <2>13, <2>14, <3>2
  <2>15. ASSUME ~ends PROVE IsShown(i)' <=> Passed(i)'
    <3> DEFINE c == Last(p)
    <3>1. /\ Len(p) \in Nat \ {0} /\ c = p[Len(p)] /\ c \in S /\ c \in RowIds
          /\ listing'.cursor = c /\ listing'.key = Key(query, c) /\ listing'.left > 0
      BY <1>6, <1>7, <2>15
    <3> HIDE DEF c
    <3>2. /\ c \in Nat /\ Key(query, c) \in Nat /\ i \in Nat /\ Key(query, i) \in Nat
          /\ c # None
      <4>1. c \in Base(query)
        BY <1>2, <3>1
      <4>2. QED  BY <1>1, <1>3, <2>2, <3>1, <4>1, KeysAreNumbers, ListingsAssumption DEF RowIds
    <3>3. Key(query, i)' = Key(query, i)
      BY <1>1 DEF Key
    <3>4. Passed(i)' <=> i = c \/ Before(query, i, c)
      BY <1>1, <3>1, <3>2, <3>3 DEF Passed, Before, Less
    <3>5. CASE i \in S
      <4>1. CASE \E k \in DOMAIN p : p[k] = i
        <5>1. PICK k \in DOMAIN p : p[k] = i
          BY <4>1
        <5>2. k = Len(p) \/ k < Len(p)
          BY <1>4, <5>1
        <5>3. Len(p) \in DOMAIN p
          BY <1>4, <3>1
        <5>4. i = c \/ Before(query, i, c)
          BY <1>4, <3>1, <5>1, <5>2, <5>3
        <5>5. IsShown(i)'
          BY <2>7, <2>12, <2>13, <3>1, <4>1
        <5>6. QED  BY <3>4, <5>4, <5>5
      <4>2. CASE ~\E k \in DOMAIN p : p[k] = i
        <5>1. Len(p) \in DOMAIN p
          BY <1>4, <3>1
        <5>2. Before(query, c, i)
          BY <1>4, <3>1, <3>5, <4>2, <5>1
        <5>3. ~(i = c \/ Before(query, i, c))
          BY <3>2, <5>2 DEF Before, Less
        <5>4. ~IsShown(i)'
          BY <2>3, <2>4, <2>6, <2>7, <2>12, <3>5, <4>2
        <5>5. QED  BY <3>4, <5>3, <5>4
      <4>3. QED  BY <4>1, <4>2
    <3>6. CASE i \notin S
      <4>1. Passed(i) /\ IsShown(i)'
        BY <2>3, <2>4, <2>12, <3>6
      <4>2. ~Passed(c)
        BY <1>1, <2>1, <3>1, BeyondThePassed DEF lost, LostNow, S, Ahead
      <4>3. listing.cursor \in Nat /\ listing.key \in Nat
        BY <1>1, <4>1 DEF AskInv, ListingTyped, Passed, RowIds
      <4>4. Key(query, listing.cursor) = listing.key
        BY <1>1, <2>1, <4>1, CursorIsPlace DEF lost, LostNow, Passed
      <4>5. i = c \/ Before(query, i, c)
        <5>1. CASE query.direction = "asc"
          BY <3>2, <4>1, <4>2, <4>3, <4>4, <5>1 DEF Passed, Before, Less
        <5>2. CASE query.direction # "asc"
          BY <3>2, <4>1, <4>2, <4>3, <4>4, <5>2 DEF Passed, Before, Less
        <5>3. QED  BY <5>1, <5>2
      <4>6. QED  BY <3>4, <4>1, <4>5
    <3>7. QED  BY <3>5, <3>6
  <2>16. QED  BY <2>11, <2>14, <2>15
<1>10. listing'.pc = "ask" => AskInv'
  <2> SUFFICES ASSUME listing'.pc = "ask" PROVE AskInv'
    OBVIOUS
  <2>1. ~ends
    BY <1>6
  <2>2. \A i \in listing'.steady : i \in Base(query)' /\ Keeps(query, rows[i])'
    BY <1>1, <1>6 DEF AskInv, Base, Selected, Keeps
  <2>3. listing'.key \in Nat /\ (query.sort = None => listing'.key = 0)
    <3>1. None # "name" /\ None # "priority"
      BY ListingsAssumption
    <3>2. QED  BY <1>6, <1>7, <2>1, <3>1 DEF Key
  <2>4. QED  BY <1>1, <1>6, <1>9, <2>1, <2>2, <2>3 DEF AskInv
<1>11. listing'.pc = "done" => DoneInv'
  BY <1>6, <1>9 DEF DoneInv
<1>12. QED  BY <1>8, <1>10, <1>11 DEF ListingInv

-----------------------------------------------------------------------------
(* What a change of the table does to the rows that stay: nothing.         *)
LEMMA ChangeKeepsInv ==
  ASSUME ListingInv, NEW i \in RowIds, NEW row \in TableRows \cup {None}, Change(i, row),
         nextId' \in Nat \ {0}
  PROVE  ListingInv'
<1>1. /\ ListingTyped /\ AskInv /\ listing.pc = "ask" /\ UNCHANGED query
      /\ rows' = [rows EXCEPT ![i] = row]
      /\ listing' = [listing EXCEPT
           !.changes = @ + 1,
           !.steady = IF Unmoved(rows[i], row) /\ Selected(query, row) /\ Keeps(query, row)
                      THEN @ ELSE @ \ {i}]
  BY DEF ListingInv, Change
<1> DEFINE stays == Unmoved(rows[i], row) /\ Selected(query, row) /\ Keeps(query, row)
<1>2. /\ listing'.pc = "ask" /\ listing'.cursor = listing.cursor /\ listing'.shown = listing.shown
      /\ listing'.left = listing.left /\ listing'.key = listing.key /\ listing'.lost = listing.lost
      /\ listing'.steady = (IF stays THEN listing.steady ELSE listing.steady \ {i})
      /\ listing'.changes = listing.changes + 1
      /\ listing' = [pc |-> listing'.pc, cursor |-> listing'.cursor, shown |-> listing'.shown,
                     left |-> listing'.left, steady |-> listing'.steady, key |-> listing'.key,
                     lost |-> listing'.lost, changes |-> listing'.changes]
  BY <1>1 DEF ListingTyped
<1> HIDE DEF stays
<1>3. /\ rows'[i] = row /\ \A j \in RowIds : j # i => rows'[j] = rows[j]
      /\ rows' \in [RowIds -> TableRows \cup {None}]
  BY <1>1 DEF ListingTyped
<1>4. listing' \in [pc : {"ask", "done"}, cursor : RowIds \cup {None}, shown : Seq(RowIds),
                    left : Nat, steady : SUBSET RowIds, key : Nat \cup {None},
                    lost : BOOLEAN, changes : Nat]
  <2>1. /\ listing.pc \in {"ask", "done"} /\ listing.cursor \in RowIds \cup {None}
        /\ listing.shown \in Seq(RowIds) /\ listing.left \in Nat
        /\ listing.steady \in SUBSET RowIds /\ listing.key \in Nat \cup {None}
        /\ listing.lost \in BOOLEAN /\ listing.changes \in Nat
    BY <1>1 DEF ListingTyped
  <2>2. listing'.steady \in SUBSET RowIds
    BY <1>2, <2>1
  <2>3. QED  BY <1>2, <2>1, <2>2
<1>5. ListingTyped'
  BY <1>1, <1>3, <1>4 DEF ListingTyped, RowIds
<1>6. ASSUME NEW j \in listing'.steady
      PROVE  /\ j \in Base(query)' /\ Keeps(query, rows[j])'
             /\ Key(query, j)' = Key(query, j) /\ j \in listing.steady
  <2>1. j \in listing.steady /\ j \in RowIds /\ (j = i => stays)
    BY <1>1, <1>2 DEF ListingTyped
  <2>2. j \in Base(query) /\ Keeps(query, rows[j])
    BY <1>1, <2>1 DEF AskInv
  <2>3. CASE j # i
    BY <1>1, <1>3, <2>1, <2>2, <2>3 DEF Base, RowIds, Selected, Keeps, Key
  <2>4. CASE j = i
    <3>1. Selected(query, row) /\ Keeps(query, row) /\ Unmoved(rows[i], row)
      BY <2>1, <2>4 DEF stays
    <3>2. Base(query)' = {l \in RowIds : Selected(query, rows'[l])}
      BY <1>1 DEF Base, Selected, RowIds
    <3>3. QED  BY <1>1, <1>3, <2>1, <2>4, <3>1, <3>2 DEF Keeps, Key, Unmoved
  <2>5. QED  BY <2>3, <2>4
<1>7. ASSUME NEW j \in listing'.steady, ~listing'.lost
      PROVE  NeverTwice(j)' /\ (IsShown(j)' <=> Passed(j)')
  <2>1. NeverTwice(j) /\ (IsShown(j) <=> Passed(j))
    BY <1>1, <1>2, <1>6, <1>7 DEF AskInv
  <2>2. NeverTwice(j)' /\ (IsShown(j)' <=> IsShown(j))
    BY <1>2, <2>1 DEF NeverTwice, IsShown
  <2>3. Passed(j)' <=> Passed(j)
    BY <1>1, <1>2, <1>6 DEF Passed
  <2>4. QED  BY <2>1, <2>2, <2>3
<1>8. AskInv'
  <2>1. listing'.cursor # None => listing'.key \in Nat /\ (query'.sort = None => listing'.key = 0)
    BY <1>1, <1>2 DEF AskInv
  <2>2. QED  BY <1>6, <1>7, <2>1 DEF AskInv
<1>9. QED  BY <1>2, <1>5, <1>8 DEF ListingInv

(* The changes leave rows as they may be.                                  *)
LEMMA TableChangeKeepsInv ==
  ASSUME ListingInv, TableChange
  PROVE  ListingInv'
<1>1. ListingTyped
  BY DEF ListingInv
<1>2. CASE \E row \in NewRows : InsertRow(row)
  <2>1. PICK row \in NewRows : InsertRow(row)
    BY <1>2
  <2>2. nextId \in RowIds /\ nextId' \in Nat \ {0} /\ Change(nextId, row) /\ row \in TableRows
    BY <1>1, <2>1, ListingsAssumption DEF InsertRow, ListingTyped, RowIds
  <2>3. \A i \in RowIds : Change(i, row) => ListingInv'
    BY <2>2, ChangeKeepsInv
  <2>4. QED  BY <2>2, <2>3
<1>3. ASSUME NEW i \in RowIds,
             \/ SyncPackage(i)
             \/ \E rebuild \in Outcomes : ReportBuild(i, rebuild)
             \/ \E artifact \in {"GOOD", "BAD"} : ReportArtifact(i, artifact)
             \/ ResetBuild(i)
             \/ ResetArtifact(i)
             \/ \E priority \in 0 .. 1 : ChangePriority(i, priority)
             \/ StartJob(i)
             \/ ReleaseJob(i)
             \/ ComeDue(i)
             \/ DropJob(i)
      PROVE  ListingInv'
  <2>1. rows[i] # None => rows[i] \in TableRows
    BY <1>1 DEF ListingTyped
  <2>2. nextId \in Nat \ {0}
    BY <1>1 DEF ListingTyped
  <2>3. CASE SyncPackage(i)
    <3>1. [rows[i] EXCEPT !.seen = ~@] \in TableRows
      BY <2>1, <2>3 DEF SyncPackage, TableRows
    <3>2. QED  BY <2>2, <2>3, <3>1, ChangeKeepsInv DEF SyncPackage
  <2>4. CASE \E rebuild \in Outcomes : ReportBuild(i, rebuild)
    <3>1. PICK rebuild \in Outcomes : ReportBuild(i, rebuild)
      BY <2>4
    <3>2. [rows[i] EXCEPT !.rebuild = rebuild, !.artifact = None] \in TableRows
      BY <2>1, <3>1 DEF ReportBuild, TableRows
    <3>3. QED  BY <2>2, <3>1, <3>2, ChangeKeepsInv DEF ReportBuild
  <2>5. CASE \E artifact \in {"GOOD", "BAD"} : ReportArtifact(i, artifact)
    <3>1. PICK artifact \in {"GOOD", "BAD"} : ReportArtifact(i, artifact)
      BY <2>5
    <3>2. [rows[i] EXCEPT !.artifact = artifact] \in TableRows
      BY <2>1, <3>1 DEF ReportArtifact, TableRows
    <3>3. QED  BY <2>2, <3>1, <3>2, ChangeKeepsInv DEF ReportArtifact
  <2>6. CASE ResetBuild(i)
    <3>1. None # "FAIL"
      BY ListingsAssumption
    <3>2. [rows[i] EXCEPT !.rebuild = None] \in TableRows
      BY <2>1, <2>6, <3>1 DEF ResetBuild, TableRows
    <3>3. QED  BY <2>2, <2>6, <3>2, ChangeKeepsInv DEF ResetBuild
  <2>7. CASE ResetArtifact(i)
    <3>1. [rows[i] EXCEPT !.artifact = None] \in TableRows
      BY <2>1, <2>7 DEF ResetArtifact, TableRows
    <3>2. QED  BY <2>2, <2>7, <3>1, ChangeKeepsInv DEF ResetArtifact
  <2>8. CASE \E priority \in 0 .. 1 : ChangePriority(i, priority)
    <3>1. PICK priority \in 0 .. 1 : ChangePriority(i, priority)
      BY <2>8
    <3>2. [rows[i] EXCEPT !.priority = priority] \in TableRows
      BY <2>1, <3>1 DEF ChangePriority, TableRows
    <3>3. QED  BY <2>2, <3>1, <3>2, ChangeKeepsInv DEF ChangePriority
  <2>9. CASE StartJob(i)
    <3>1. [rows[i] EXCEPT !.started = TRUE] \in TableRows
      BY <2>1, <2>9 DEF StartJob, TableRows
    <3>2. QED  BY <2>2, <2>9, <3>1, ChangeKeepsInv DEF StartJob
  <2>10. CASE ReleaseJob(i)
    <3>1. [rows[i] EXCEPT !.started = FALSE] \in TableRows
      BY <2>1, <2>10 DEF ReleaseJob, TableRows
    <3>2. QED  BY <2>2, <2>10, <3>1, ChangeKeepsInv DEF ReleaseJob
  <2>11. CASE ComeDue(i)
    <3>1. [rows[i] EXCEPT !.due = TRUE] \in TableRows
      BY <2>1, <2>11 DEF ComeDue, TableRows
    <3>2. QED  BY <2>2, <2>11, <3>1, ChangeKeepsInv DEF ComeDue
  <2>12. CASE DropJob(i)
    BY <2>2, <2>12, ChangeKeepsInv DEF DropJob
  <2>13. QED  BY <1>3, <2>3, <2>4, <2>5, <2>6, <2>7, <2>8, <2>9, <2>10, <2>11, <2>12
<1>4. QED  BY <1>2, <1>3 DEF TableChange

LEMMA ListingInitHolds == ListingsInit => ListingInv
<1> SUFFICES ASSUME ListingsInit PROVE ListingInv
  OBVIOUS
<1>1. PICK first \in FirstRows :
        /\ rows = [i \in RowIds |-> IF i \in DOMAIN first THEN first[i] ELSE None]
        /\ nextId = Len(first) + 1
  BY DEF ListingsInit
<1>2. query \in Queries /\ query.head \in Nat /\ first \in Seq(TableRows) /\ listing = NewListing
  BY ListingsAssumption DEF ListingsInit
<1>3. rows \in [RowIds -> TableRows \cup {None}] /\ nextId \in Nat \ {0}
  BY <1>1, <1>2
<1>4. Base(query) \subseteq RowIds
  BY DEF Base
<1>5. /\ listing.pc = "ask" /\ listing.cursor = None /\ listing.shown = <<>>
      /\ listing.left = query.head /\ listing.key = None /\ listing.lost = FALSE
      /\ listing.changes = 0
      /\ listing.steady = {i \in Base(query) : Keeps(query, rows[i])}
      /\ listing = [pc |-> listing.pc, cursor |-> listing.cursor, shown |-> listing.shown,
                    left |-> listing.left, steady |-> listing.steady, key |-> listing.key,
                    lost |-> listing.lost, changes |-> listing.changes]
  BY <1>2 DEF NewListing
<1>6. ListingTyped
  <2>1. <<>> \in Seq(RowIds)
    OBVIOUS
  <2>2. listing.steady \in SUBSET RowIds
    BY <1>4, <1>5
  <2>3. listing \in [pc : {"ask", "done"}, cursor : RowIds \cup {None}, shown : Seq(RowIds),
                     left : Nat, steady : SUBSET RowIds, key : Nat \cup {None},
                     lost : BOOLEAN, changes : Nat]
    <3>1. listing.shown \in Seq(RowIds)
      BY <1>5, <2>1
    <3> listing.pc \in {"ask", "done"} /\ listing.changes \in Nat
      BY <1>5
    <3> listing.lost \in BOOLEAN
      BY <1>5, Zenon
    <3> listing.cursor \in RowIds \cup {None} /\ listing.key \in Nat \cup {None}
      BY <1>5
    <3> listing.left \in Nat
      BY <1>2, <1>5
    <3>2. listing = [pc |-> listing.pc, cursor |-> listing.cursor, shown |-> listing.shown,
                     left |-> listing.left, steady |-> listing.steady, key |-> listing.key,
                     lost |-> listing.lost, changes |-> listing.changes]
      BY <1>5
    <3>3. QED  BY <2>2, <3>1, <3>2
  <2>4. QED  BY <1>2, <1>3, <2>3 DEF ListingTyped
<1>7. DOMAIN listing.shown = {}
  BY <1>5
<1>8. AskInv
  BY <1>5, <1>7 DEF AskInv, NeverTwice, IsShown, Passed
<1>9. QED  BY <1>5, <1>6, <1>8 DEF ListingInv

LEMMA ListingInvIsKept == ListingInv /\ [ListingsNext]_listingVars => ListingInv'
<1> SUFFICES ASSUME ListingInv, [ListingsNext]_listingVars PROVE ListingInv'
  OBVIOUS
<1>1. CASE RequestPage
  BY <1>1, RequestKeepsInv
<1>2. CASE TableChange
  BY <1>2, TableChangeKeepsInv
<1>3. CASE UNCHANGED listingVars
  BY <1>3 DEF listingVars, ListingInv, ListingTyped, AskInv, DoneInv, NeverTwice, IsShown, Passed,
              Base, Selected, Keeps, Key, RowIds
<1>4. QED  BY <1>1, <1>2, <1>3 DEF ListingsNext

LEMMA ListingInvHolds == ListingsSpec => []ListingInv
BY ListingInitHolds, ListingInvIsKept, PTL DEF ListingsSpec

(* A list shows whatever stays in it once, for every table, order, page    *)
(* size and number of changes, unless the row of a cursor left or moved.   *)
THEOREM ListsShowOnce == ListingsSpec => []ListingShowsOnce
<1>1. ListingInv => ListingShowsOnce
  <2> SUFFICES ASSUME ListingInv, listing.pc = "done", ~listing.lost, NEW i \in listing.steady
               PROVE  TimesShown(i) <= 1 /\ (listing.left > 0 => TimesShown(i) = 1)
    BY DEF ListingShowsOnce
  <2> DEFINE times == {k \in DOMAIN listing.shown : listing.shown[k] = i}
  <2>1. NeverTwice(i) /\ (listing.left > 0 => IsShown(i))
    BY DEF ListingInv, DoneInv
  <2>2. times = {} \/ \E k : times = {k}
    BY <2>1 DEF NeverTwice
  <2>3. listing.left > 0 => times # {}
    BY <2>1 DEF IsShown
  <2>4. TimesShown(i) = Cardinality(times)
    BY DEF TimesShown
  <2> HIDE DEF times
  <2>5. Cardinality(times) = IF times = {} THEN 0 ELSE 1
    BY <2>2, FS_EmptySet, FS_Singleton
  <2>6. QED  BY <2>3, <2>4, <2>5
<1>2. QED  BY <1>1, ListingInvHolds, PTL

(* The filter of the daemon and the status that is shown agree.            *)
THEOREM FiltersFindShown == ListingsSpec => []StatusFiltersFindShown
<1>1. ListingInv => StatusFiltersFindShown
  <2> SUFFICES ASSUME ListingInv, NEW i \in RowIds, rows[i] # None,
                      NEW status \in {"GOOD", "BAD", "FAIL", "UNKWN"}
               PROVE  \/ StatusMatches({status}, rows[i]) <=> ShownStatus(rows[i]) = status
                      \/ rows[i].artifact = None /\ rows[i].rebuild \in {"GOOD", "BAD"}
                      \/ rows[i].artifact # None /\ rows[i].rebuild = None
    BY DEF StatusFiltersFindShown
  <2> DEFINE row == rows[i]
  <2>1. row \in TableRows
    BY DEF ListingInv, ListingTyped
  <2>2. /\ row.rebuild \in {"GOOD", "BAD", "FAIL", None} /\ row.artifact \in {"GOOD", "BAD", None}
        /\ row.artifact # None => row.rebuild # "FAIL"
    BY <2>1 DEF TableRows, Outcomes
  <2>3. None \notin {"GOOD", "BAD", "FAIL", "UNKWN"}
    BY ListingsAssumption
  <2> HIDE DEF row
  <2>4. \/ StatusMatches({status}, row) <=> ShownStatus(row) = status
        \/ row.artifact = None /\ row.rebuild \in {"GOOD", "BAD"}
        \/ row.artifact # None /\ row.rebuild = None
    <3>1. CASE row.artifact # None /\ row.rebuild # None
      <4>1. ShownStatus(row) = row.artifact
        BY <3>1 DEF ShownStatus
      <4>2. StatusMatches({status}, row) <=> row.artifact = status
        BY <2>2, <2>3, <3>1 DEF StatusMatches
      <4>3. QED  BY <4>1, <4>2
    <3>2. CASE row.artifact = None /\ row.rebuild = "FAIL"
      <4>1. ShownStatus(row) = "FAIL"
        BY <2>3, <3>2 DEF ShownStatus
      <4>2. StatusMatches({status}, row) <=> status = "FAIL"
        BY <2>3, <3>2 DEF StatusMatches
      <4>3. QED  BY <4>1, <4>2
    <3>3. CASE row.artifact = None /\ row.rebuild = None
      <4>1. ShownStatus(row) = "UNKWN"
        BY <3>3 DEF ShownStatus
      <4>2. StatusMatches({status}, row) <=> status = "UNKWN"
        BY <2>3, <3>3 DEF StatusMatches
      <4>3. QED  BY <4>1, <4>2
    <3>4. QED  BY <2>2, <3>1, <3>2, <3>3
  <2>5. QED  BY <2>4 DEF row
<1>2. QED  BY <1>1, ListingInvHolds, PTL

-----------------------------------------------------------------------------
(* The dashboard.  A count that was taken is that of the jobs that did not *)
(* change, and at most of those that did.                                  *)
Counts(n, class, steady) == n - Cardinality(class \cap steady) \in 0 .. Cardinality(Inputs \ steady)
Counted(n, class) == Counts(n, class, dashboard.steady)

DashboardTyped ==
  /\ listed \subseteq Inputs /\ DOMAIN jobs = Inputs
  /\ dashboard.pc \in {"idle", "running", "available", "pending", "done"}
  /\ dashboard = [pc |-> dashboard.pc, sums |-> dashboard.sums, now |-> dashboard.now,
                  running |-> dashboard.running, available |-> dashboard.available,
                  pending |-> dashboard.pending, steady |-> dashboard.steady]
  /\ dashboard.steady \subseteq Inputs
  /\ dashboard.running \in Nat /\ dashboard.available \in Nat /\ dashboard.pending \in Nat

DashboardInv ==
  /\ DashboardTyped
  /\ dashboard.pc \in {"available", "pending", "done"} => Counted(dashboard.running, Running)
  /\ dashboard.pc \in {"pending", "done"} => Counted(dashboard.available, Available(dashboard.now))
  /\ dashboard.pc = "done" => Counted(dashboard.pending, Pending(dashboard.now))

LEMMA CountsWhenTaken ==
  ASSUME NEW class \in SUBSET Inputs, NEW steady \in SUBSET Inputs
  PROVE  /\ Cardinality(class) \in Nat
         /\ Counts(Cardinality(class), class, steady)
<1> DEFINE rest == class \ steady
<1>1. IsFiniteSet(class) /\ IsFiniteSet(Inputs \ steady) /\ Cardinality(Inputs \ steady) \in Nat
  BY FS_Subset, FS_CardinalityType, StatisticsAssumption
<1>2. IsFiniteSet(rest) /\ Cardinality(rest) = Cardinality(class) - Cardinality(class \cap steady)
  BY <1>1, FS_Difference
<1>3. rest \in SUBSET (Inputs \ steady)
  OBVIOUS
<1> HIDE DEF rest
<1>4. Cardinality(rest) \in Nat /\ Cardinality(rest) <= Cardinality(Inputs \ steady)
  BY <1>1, <1>2, <1>3, FS_Subset, FS_CardinalityType
<1>5. Cardinality(class) \in Nat
  BY <1>1, FS_CardinalityType
<1>6. QED  BY <1>1, <1>2, <1>4, <1>5 DEF Counts

(* When one input changes, so that it may enter or leave a class, it is no *)
(* longer steady, and the count is as good as before.                      *)
LEMMA CountsWhenTouched ==
  ASSUME NEW class \in SUBSET Inputs, NEW class2 \in SUBSET Inputs, NEW steady \in SUBSET Inputs,
         NEW i \in Inputs, class2 \ {i} = class \ {i}, NEW n \in Nat, Counts(n, class, steady)
  PROVE  Counts(n, class2, steady \ {i})
<1> DEFINE kept == class \cap steady
           changed == Inputs \ steady
<1>1. IsFiniteSet(kept) /\ IsFiniteSet(changed)
  BY FS_Subset, StatisticsAssumption
<1>2. class2 \cap (steady \ {i}) = kept \ {i}
  OBVIOUS
<1>3. i \in steady => Inputs \ (steady \ {i}) = changed \cup {i} /\ i \notin changed
  OBVIOUS
<1>4. i \notin steady => Inputs \ (steady \ {i}) = changed /\ kept \ {i} = kept
  OBVIOUS
<1>5. n - Cardinality(kept) \in 0 .. Cardinality(changed)
  BY DEF Counts
<1> HIDE DEF kept, changed
<1>6. Cardinality(kept) \in Nat /\ Cardinality(changed) \in Nat
  BY <1>1, FS_CardinalityType
<1>7. Cardinality(kept \ {i}) \in {Cardinality(kept), Cardinality(kept) - 1}
  BY <1>1, FS_RemoveElement
<1>8. CASE i \in steady
  <2>1. Cardinality(changed \cup {i}) = Cardinality(changed) + 1
    BY <1>1, <1>3, <1>8, FS_AddElement
  <2>2. n - Cardinality(kept \ {i}) \in 0 .. Cardinality(changed) + 1
    BY <1>5, <1>6, <1>7
  <2>3. QED  BY <1>2, <1>3, <1>8, <2>1, <2>2 DEF Counts
<1>9. CASE i \notin steady
  BY <1>2, <1>4, <1>5, <1>9 DEF Counts
<1>10. QED  BY <1>8, <1>9

LEMMA ClassesAreInputs ==
  ASSUME DashboardTyped
  PROVE  Running \in SUBSET Inputs /\ \A now : Available(now) \in SUBSET Inputs /\ Pending(now) \in SUBSET Inputs
BY DEF DashboardTyped, Running, Available, Pending, QueuedInputs

LEMMA DashboardInitHolds == StatisticsInit => DashboardInv
<1> SUFFICES ASSUME StatisticsInit PROVE DashboardInv
  OBVIOUS
<1>1. listed \subseteq Inputs /\ DOMAIN jobs = Inputs /\ dashboard = IdleDashboard
  BY DEF StatisticsInit
<1>2. DashboardTyped
  BY <1>1 DEF DashboardTyped, IdleDashboard
<1>3. dashboard.pc = "idle"
  BY <1>1 DEF IdleDashboard
<1>4. QED  BY <1>2, <1>3 DEF DashboardInv

LEMMA DashboardStepKeepsInv ==
  ASSUME DashboardInv, DashboardStep
  PROVE  DashboardInv'
<1>1. /\ DashboardTyped /\ UNCHANGED tables
      /\ Running \in SUBSET Inputs
      /\ \A now : Available(now) \in SUBSET Inputs /\ Pending(now) \in SUBSET Inputs
  BY ClassesAreInputs DEF DashboardInv, DashboardStep, ReadSums, CountRunning, CountAvailable, CountPending
<1>2. /\ UNCHANGED <<jobs, listed>> /\ Running' = Running
      /\ \A now : Available(now)' = Available(now) /\ Pending(now)' = Pending(now)
  BY <1>1 DEF tables, Running, Available, Pending, QueuedInputs, Held
<1>3. dashboard.steady \in SUBSET Inputs
  BY <1>1 DEF DashboardTyped
<1>4. CASE ReadSums
  <2>1. dashboard' = [IdleDashboard EXCEPT
          !.pc = "running", !.sums = StatusCounts(listed), !.now = clock, !.steady = Inputs]
    BY <1>4 DEF ReadSums
  <2>2. DashboardTyped' /\ dashboard'.pc = "running"
    BY <1>1, <1>2, <2>1 DEF DashboardTyped, IdleDashboard
  <2>3. QED  BY <2>2 DEF DashboardInv
<1>5. CASE CountRunning
  <2>1. dashboard.pc = "running"
        /\ dashboard' = [dashboard EXCEPT !.pc = "available", !.running = Cardinality(Running)]
    BY <1>5 DEF CountRunning
  <2>2. /\ Cardinality(Running) \in Nat
        /\ Counts(Cardinality(Running), Running, dashboard.steady)
    BY <1>1, <1>3, CountsWhenTaken
  <2>3. /\ dashboard'.pc = "available" /\ dashboard'.running = Cardinality(Running)
        /\ dashboard'.steady = dashboard.steady
    BY <1>1, <2>1 DEF DashboardTyped
  <2>4. DashboardTyped'
    BY <1>1, <1>2, <2>1, <2>2 DEF DashboardTyped
  <2>5. QED  BY <1>2, <2>2, <2>3, <2>4 DEF DashboardInv, Counted
<1>6. CASE CountAvailable
  <2> DEFINE n == Cardinality(Available(dashboard.now))
  <2>1. dashboard.pc = "available" /\ dashboard' = [dashboard EXCEPT !.pc = "pending", !.available = n]
    BY <1>6 DEF CountAvailable
  <2>2. /\ n \in Nat
        /\ Counts(n, Available(dashboard.now), dashboard.steady)
    BY <1>1, <1>3, CountsWhenTaken
  <2> HIDE DEF n
  <2>3. /\ dashboard'.pc = "pending" /\ dashboard'.available = n
        /\ dashboard'.running = dashboard.running
        /\ dashboard'.now = dashboard.now /\ dashboard'.steady = dashboard.steady
    BY <1>1, <2>1 DEF DashboardTyped
  <2>4. DashboardTyped'
    BY <1>1, <1>2, <2>1, <2>2 DEF DashboardTyped
  <2>5. Counted(dashboard.running, Running)'
    BY <1>2, <2>1, <2>3 DEF DashboardInv, Counted
  <2>6. Counted(dashboard.available, Available(dashboard.now))'
    BY <1>2, <2>2, <2>3 DEF Counted, n
  <2>7. QED  BY <2>3, <2>4, <2>5, <2>6 DEF DashboardInv
<1>7. CASE CountPending
  <2> DEFINE n == Cardinality(Pending(dashboard.now))
  <2>1. dashboard.pc = "pending" /\ dashboard' = [dashboard EXCEPT !.pc = "done", !.pending = n]
    BY <1>7 DEF CountPending
  <2>2. /\ n \in Nat
        /\ Counts(n, Pending(dashboard.now), dashboard.steady)
    BY <1>1, <1>3, CountsWhenTaken
  <2> HIDE DEF n
  <2>3. /\ dashboard'.pc = "done" /\ dashboard'.pending = n
        /\ dashboard'.running = dashboard.running /\ dashboard'.available = dashboard.available
        /\ dashboard'.now = dashboard.now /\ dashboard'.steady = dashboard.steady
    BY <1>1, <2>1 DEF DashboardTyped
  <2>4. DashboardTyped'
    BY <1>1, <1>2, <2>1, <2>2 DEF DashboardTyped
  <2>5. Counted(dashboard.running, Running)'
    BY <1>2, <2>1, <2>3 DEF DashboardInv, Counted
  <2>6. Counted(dashboard.available, Available(dashboard.now))'
    BY <1>2, <2>1, <2>3 DEF DashboardInv, Counted
  <2>7. Counted(dashboard.pending, Pending(dashboard.now))'
    BY <1>2, <2>2, <2>3 DEF Counted, n
  <2>8. QED  BY <2>3, <2>4, <2>5, <2>6, <2>7 DEF DashboardInv
<1>8. QED  BY <1>4, <1>5, <1>6, <1>7 DEF DashboardStep

(* Changes touch one input.                                                *)
LEMMA TouchKeepsInv ==
  ASSUME DashboardInv, NEW i \in Inputs, Touch(i), DOMAIN jobs' = Inputs, listed' \subseteq Inputs,
         listed' \ {i} = listed \ {i}, \A j \in Inputs : j # i => jobs'[j] = jobs[j]
  PROVE  DashboardInv'
<1>1. DashboardTyped /\ dashboard' = [dashboard EXCEPT !.steady = @ \ {i}]
  BY DEF DashboardInv, Touch
<1>2. /\ dashboard'.pc = dashboard.pc /\ dashboard'.now = dashboard.now
      /\ dashboard'.running = dashboard.running /\ dashboard'.available = dashboard.available
      /\ dashboard'.pending = dashboard.pending /\ dashboard'.steady = dashboard.steady \ {i}
  BY <1>1 DEF DashboardTyped
<1>3. DashboardTyped'
  BY <1>1 DEF DashboardTyped
<1>4. /\ Running \in SUBSET Inputs
      /\ \A now : Available(now) \in SUBSET Inputs /\ Pending(now) \in SUBSET Inputs
  BY <1>1, ClassesAreInputs
<1>5. /\ Running' \in SUBSET Inputs
      /\ \A now : Available(now)' \in SUBSET Inputs /\ Pending(now)' \in SUBSET Inputs
  BY DEF Running, Available, Pending, QueuedInputs
<1>6. /\ Running' \ {i} = Running \ {i}
      /\ \A now : /\ Available(now)' \ {i} = Available(now) \ {i}
                  /\ Pending(now)' \ {i} = Pending(now) \ {i}
  <2>1. \A j \in Inputs : j # i => (j \in listed' <=> j \in listed) /\ jobs'[j] = jobs[j]
    OBVIOUS
  <2>2. \A j \in Inputs : j # i => (j \in Running' <=> j \in Running)
    BY <2>1 DEF Running, QueuedInputs, Held
  <2>3. \A now : \A j \in Inputs : j # i => (j \in Available(now)' <=> j \in Available(now))
    BY <2>1 DEF Available, QueuedInputs
  <2>4. \A now : \A j \in Inputs : j # i => (j \in Pending(now)' <=> j \in Pending(now))
    BY <2>1 DEF Pending, QueuedInputs
  <2>5. Running' \ {i} = Running \ {i}
    BY <1>4, <1>5, <2>2
  <2>6. \A now : Available(now)' \ {i} = Available(now) \ {i}
    BY <1>4, <1>5, <2>3
  <2>7. \A now : Pending(now)' \ {i} = Pending(now) \ {i}
    BY <1>4, <1>5, <2>4
  <2>8. QED  BY <2>5, <2>6, <2>7
<1>7. /\ dashboard.steady \in SUBSET Inputs
      /\ dashboard.running \in Nat /\ dashboard.available \in Nat /\ dashboard.pending \in Nat
  BY <1>1 DEF DashboardTyped
<1>8. ASSUME NEW n \in Nat, NEW class, NEW class2, class \in SUBSET Inputs, class2 \in SUBSET Inputs,
             class2 \ {i} = class \ {i}, Counts(n, class, dashboard.steady)
      PROVE  Counts(n, class2, dashboard'.steady)
  <2>1. Counts(n, class2, dashboard.steady \ {i})
    BY <1>7, <1>8, CountsWhenTouched
  <2>2. QED  BY <1>2, <2>1
<1>9. ASSUME Counted(dashboard.running, Running) PROVE Counted(dashboard.running, Running)'
  <2>1. Counts(dashboard.running, Running', dashboard'.steady)
    BY <1>4, <1>5, <1>6, <1>7, <1>8, <1>9 DEF Counted
  <2>2. QED  BY <1>2, <2>1 DEF Counted
<1>10. ASSUME Counted(dashboard.available, Available(dashboard.now))
       PROVE  Counted(dashboard.available, Available(dashboard.now))'
  <2>1. PICK now : now = dashboard.now
    OBVIOUS
  <2>2. Available(now) = Available(dashboard.now)
    BY <2>1
  <2>3. Available(now)' = Available(dashboard.now)'
    BY <1>2, <2>1 DEF Available
  <2>4. /\ Available(now) \in SUBSET Inputs /\ Available(now)' \in SUBSET Inputs
        /\ Available(now)' \ {i} = Available(now) \ {i}
    BY <1>4, <1>5, <1>6
  <2>5. Counts(dashboard.available, Available(now), dashboard.steady)
    BY <1>10, <2>2 DEF Counted
  <2>6. Counts(dashboard.available, Available(now)', dashboard'.steady)
    BY <1>7, <1>8, <2>4, <2>5
  <2>7. QED  BY <1>2, <2>3, <2>6 DEF Counted
<1>11. ASSUME Counted(dashboard.pending, Pending(dashboard.now))
       PROVE  Counted(dashboard.pending, Pending(dashboard.now))'
  <2>1. PICK now : now = dashboard.now
    OBVIOUS
  <2>2. Pending(now) = Pending(dashboard.now)
    BY <2>1
  <2>3. Pending(now)' = Pending(dashboard.now)'
    BY <1>2, <2>1 DEF Pending
  <2>4. /\ Pending(now) \in SUBSET Inputs /\ Pending(now)' \in SUBSET Inputs
        /\ Pending(now)' \ {i} = Pending(now) \ {i}
    BY <1>4, <1>5, <1>6
  <2>5. Counts(dashboard.pending, Pending(now), dashboard.steady)
    BY <1>11, <2>2 DEF Counted
  <2>6. Counts(dashboard.pending, Pending(now)', dashboard'.steady)
    BY <1>7, <1>8, <2>4, <2>5
  <2>7. QED  BY <1>2, <2>3, <2>6 DEF Counted
<1>12. QED  BY <1>2, <1>3, <1>9, <1>10, <1>11 DEF DashboardInv

LEMMA StatisticsChangeKeepsInv ==
  ASSUME DashboardInv, NEW badSets, StatisticsChange(Inputs, badSets)
  PROVE  DashboardInv'
<1>1. listed \subseteq Inputs /\ DOMAIN jobs = Inputs
  BY DEF DashboardInv, DashboardTyped
<1>2. ASSUME NEW i \in Inputs, NEW status, NEW built, NEW kind, NEW bad,
             EndBuild(i, status, built, kind, bad)
      PROVE  DashboardInv'
  <2>1. /\ Touch(i) /\ listed' = listed
        /\ jobs' = [jobs EXCEPT ![i] = IF status = "GOOD" THEN None
                                       ELSE [held |-> FALSE, retry |-> clock + 1]]
    BY <1>2 DEF EndBuild
  <2>2. QED  BY <1>1, <2>1, TouchKeepsInv
<1>3. ASSUME NEW i \in Inputs, NEW reset \in BOOLEAN, AskForRebuild(i, reset)
      PROVE  DashboardInv'
  <2>1. /\ Touch(i) /\ UNCHANGED <<listed, clock>>
        /\ jobs' = [jobs EXCEPT ![i] = [held |-> Held(i), retry |-> None]]
    BY <1>3, Zenon DEF AskForRebuild
  <2>2. QED  BY <1>1, <2>1, TouchKeepsInv
<1>4. ASSUME NEW i \in Inputs, HandOut(i)
      PROVE  DashboardInv'
  <2>1. Touch(i) /\ listed' = listed /\ jobs' = [jobs EXCEPT ![i].held = ~@]
    BY <1>4 DEF HandOut
  <2>2. DOMAIN jobs' = Inputs /\ \A j \in Inputs : j # i => jobs'[j] = jobs[j]
    BY <1>1, <2>1
  <2>3. QED  BY <1>1, <2>1, <2>2, TouchKeepsInv
<1>5. ASSUME NEW i \in Inputs, SyncInput(i)
      PROVE  DashboardInv'
  <2>1. Touch(i) /\ jobs' = jobs /\ listed' = IF i \in listed THEN listed \ {i} ELSE listed \cup {i}
    BY <1>5 DEF SyncInput
  <2>2. listed' \subseteq Inputs /\ listed' \ {i} = listed \ {i}
    BY <1>1, <2>1
  <2>3. QED  BY <1>1, <2>1, <2>2, TouchKeepsInv
<1>6. CASE Pass
  BY <1>6 DEF Pass, DashboardInv, DashboardTyped, Counted, Counts, Running, Available, Pending,
              QueuedInputs, Held
<1>7. QED  BY <1>2, <1>3, <1>4, <1>5, <1>6 DEF StatisticsChange

LEMMA DashboardInvIsKept ==
  ASSUME NEW badSets, DashboardInv, [StatisticsNext(badSets)]_statVars
  PROVE  DashboardInv'
<1>1. CASE DashboardStep
  BY <1>1, DashboardStepKeepsInv
<1>2. CASE StatisticsChange(Inputs, badSets)
  BY <1>2, StatisticsChangeKeepsInv
<1>3. CASE CollectionStep \/ UNCHANGED statVars
  <2>1. UNCHANGED <<tables, dashboard>>
    <3>1. CASE StartCollection
      BY <3>1, SMT DEF StartCollection, tables
    <3>2. ASSUME NEW combo \in collection.todo, ReadCounts(combo) PROVE UNCHANGED <<tables, dashboard>>
      <4>1. UNCHANGED <<tables, dashboard, snapshots>>
        BY <3>2, Zenon DEF ReadCounts
      <4>2. QED  BY <4>1
    <3>3. CASE ReadLatest
      <4>1. UNCHANGED <<tables, dashboard, snapshots>>
        BY <3>3, Zenon DEF ReadLatest
      <4>2. QED  BY <4>1
    <3>4. CASE ReadBadArtifacts
      <4>1. UNCHANGED <<tables, dashboard, snapshots>>
        BY <3>4, Zenon DEF ReadBadArtifacts
      <4>2. QED  BY <4>1
    <3>5. CASE ReadFails
      <4>1. UNCHANGED <<tables, dashboard, snapshots>>
        BY <3>5, Zenon DEF ReadFails
      <4>2. QED  BY <4>1
    <3>6. CASE InsertSnapshot
      <4>1. UNCHANGED <<tables, dashboard>>
        BY <3>6, Zenon DEF InsertSnapshot
      <4>2. QED  BY <4>1
    <3>7. CASE UNCHANGED statVars
      BY <3>7 DEF statVars, tables
    <3>8. QED  BY <1>3, <3>1, <3>2, <3>3, <3>4, <3>5, <3>6, <3>7 DEF CollectionStep
  <2>2. QED  BY <2>1 DEF tables, DashboardInv, DashboardTyped, Counted, Counts, Running, Available, Pending,
                         QueuedInputs, Held
<1>4. QED  BY <1>1, <1>2, <1>3 DEF StatisticsNext

LEMMA DashboardInvHolds ==
  ASSUME NEW CONSTANT badSets
  PROVE  StatisticsSpec(badSets) => []DashboardInv
<1>1. DashboardInv /\ [StatisticsNext(badSets)]_statVars => DashboardInv'
  BY DashboardInvIsKept
<1>2. QED  BY <1>1, DashboardInitHolds, PTL DEF StatisticsSpec

(* A job that stays as it is while the dashboard is read is counted once,  *)
(* in its class, for any number of jobs and whatever else changes.         *)
THEOREM DashboardCounts ==
  ASSUME NEW CONSTANT badSets
  PROVE  StatisticsSpec(badSets) => []DashboardCountsSteady
<1>1. DashboardInv => DashboardCountsSteady
  BY DEF DashboardInv, DashboardCountsSteady, Counted, Counts, Steady, Changed
<1>2. QED  BY <1>1, DashboardInvHolds, PTL

-----------------------------------------------------------------------------
(* Sums.  A fold that adds the sizes of sets which do not overlap counts   *)
(* the members of all of them.                                             *)
(* The least of the counterexamples takes the place of induction. *)
LEMMA LeastExists ==
  ASSUME NEW S \in SUBSET Nat, S # {}
  PROVE  \E n \in S : \A m \in S : n <= m
<1>1. PICK n \in S : \A m \in S : ~(<<m, n>> \in OpToRel(<, Nat))
  BY WFMin, NatLessThanWellFounded, Zenon
<1>2. \A m \in S : ~(m < n)
  BY <1>1, Zenon DEF OpToRel
<1>3. QED  BY <1>2

LEMMA ImageIsFinite ==
  ASSUME NEW S, IsFiniteSet(S), NEW f
  PROVE  IsFiniteSet({f[x] : x \in S})
<1> DEFINE T == {f[x] : x \in S}
           g == [x \in S |-> f[x]]
<1>1. g \in Surjection(S, T)
  BY DEF Surjection
<1>2. QED  BY <1>1, FS_Surjection

(* A family of finite sets, no two of which overlap. *)
Apart(S, A) ==
  /\ \A x \in S : IsFiniteSet(A[x])
  /\ \A x, y \in S : x # y => A[x] \cap A[y] = {}

Together(s, A) == UNION {A[x] : x \in s}

LEMMA TogetherIsFinite ==
  ASSUME NEW S, NEW A, Apart(S, A), NEW s \in SUBSET S, IsFiniteSet(s)
  PROVE  IsFiniteSet(Together(s, A))
<1>1. IsFiniteSet({A[x] : x \in s})
  BY ImageIsFinite
<1>2. \A T \in {A[x] : x \in s} : IsFiniteSet(T)
  BY DEF Apart
<1>3. QED  BY <1>1, <1>2, FS_UNION DEF Together

LEMMA TogetherByOne ==
  ASSUME NEW S, NEW A, Apart(S, A), NEW s \in SUBSET S, IsFiniteSet(s), NEW c \in s
  PROVE  Cardinality(Together(s, A)) = Cardinality(A[c]) + Cardinality(Together(s \ {c}, A))
<1> DEFINE rest == Together(s \ {c}, A)
<1>1. IsFiniteSet(A[c]) /\ IsFiniteSet(rest)
  <2>1. IsFiniteSet(s \ {c}) /\ s \ {c} \in SUBSET S
    BY FS_RemoveElement
  <2>2. QED  BY <2>1, TogetherIsFinite DEF Apart
<1>2. Together(s, A) = A[c] \cup rest
  BY DEF Together
<1>3. A[c] \cap rest = {}
  BY DEF Together, Apart
<1>4. Cardinality(A[c]) \in Nat /\ Cardinality(rest) \in Nat
  BY <1>1, FS_CardinalityType
<1>5. Cardinality(A[c] \cup rest) = Cardinality(A[c]) + Cardinality(rest) - Cardinality(A[c] \cap rest)
  BY <1>1, FS_Union
<1>6. Cardinality(A[c] \cap rest) = 0
  BY <1>3, FS_EmptySet
<1> HIDE DEF rest
<1>7. QED  BY <1>2, <1>4, <1>5, <1>6 DEF rest

(* The recursion of a fold that adds the sizes of a family's sets.         *)
AddsSizes(S, A, g) ==
  g = [s \in SUBSET S |->
         IF s = {} THEN 0
         ELSE Cardinality(A[CHOOSE x \in s : TRUE]) + g[s \ {CHOOSE x \in s : TRUE}]]

LEMMA SizesCanBeAdded ==
  ASSUME NEW S, IsFiniteSet(S), NEW A, Apart(S, A)
  PROVE  \E g : AddsSizes(S, A, g)
<1> DEFINE w == [s \in SUBSET S |-> Cardinality(Together(s, A))]
           v == [s \in SUBSET S |->
                   IF s = {} THEN 0
                   ELSE Cardinality(A[CHOOSE x \in s : TRUE]) + w[s \ {CHOOSE x \in s : TRUE}]]
<1>1. ASSUME NEW s \in SUBSET S PROVE w[s] = v[s]
  <2>1. CASE s = {}
    <3>1. Together(s, A) = {}
      BY <2>1 DEF Together
    <3>2. w[s] = 0
      BY <3>1, FS_EmptySet
    <3>3. QED  BY <2>1, <3>2
  <2>2. CASE s # {}
    <3> DEFINE c == CHOOSE x \in s : TRUE
    <3>1. c \in s
      BY <2>2
    <3> HIDE DEF c
    <3>2. IsFiniteSet(s)
      BY FS_Subset
    <3>3. w[s] = Cardinality(A[c]) + w[s \ {c}]
      BY <3>1, <3>2, TogetherByOne
    <3>4. QED  BY <2>2, <3>3 DEF c
  <2>3. QED  BY <2>1, <2>2
<1>2. w = v
  <2> HIDE DEF v
  <2>1. DOMAIN v = SUBSET S /\ v = [s \in SUBSET S |-> v[s]]
    BY DEF v
  <2> HIDE DEF w
  <2>2. w = [s \in SUBSET S |-> w[s]]
    BY DEF w
  <2>3. QED  BY <1>1, <2>1, <2>2
<1>3. AddsSizes(S, A, w)
  BY <1>2, Zenon DEF AddsSizes
<1>4. QED  BY <1>3

(* A fold that adds the sizes counts the members of the whole family.      *)
LEMMA SizesAddUp ==
  ASSUME NEW S, IsFiniteSet(S), NEW A, Apart(S, A), NEW g, AddsSizes(S, A, g)
  PROVE  g[S] = Cardinality(Together(S, A))
<1> DEFINE Wrong == {s \in SUBSET S : g[s] # Cardinality(Together(s, A))}
           Sizes == {n \in Nat : \E s \in Wrong : n = Cardinality(s)}
<1>1. ASSUME NEW s \in Wrong PROVE FALSE
  <2>1. \A r \in SUBSET S : IsFiniteSet(r) /\ Cardinality(r) \in Nat
    BY FS_Subset, FS_CardinalityType
  <2>2. Cardinality(s) \in Sizes
    BY <2>1
  <2>3. PICK n \in Sizes : \A m \in Sizes : n <= m
    BY <2>2, LeastExists
  <2>4. PICK r \in Wrong : n = Cardinality(r)
    BY <2>3
  <2>5. g[r] = IF r = {} THEN 0
               ELSE Cardinality(A[CHOOSE x \in r : TRUE]) + g[r \ {CHOOSE x \in r : TRUE}]
    <3>1. r \in SUBSET S
      BY <2>4
    <3>2. QED  BY <3>1, Zenon DEF AddsSizes
  <2>6. CASE r = {}
    <3>1. Together(r, A) = {}
      BY <2>6 DEF Together
    <3>2. QED  BY <2>4, <2>5, <2>6, <3>1, FS_EmptySet
  <2>7. CASE r # {}
    <3> DEFINE c == CHOOSE x \in r : TRUE
    <3>1. c \in r /\ r \in SUBSET S
      BY <2>4, <2>7
    <3>2. g[r] = Cardinality(A[c]) + g[r \ {c}]
      BY <2>5, <2>7
    <3> HIDE DEF c
    <3>3. Cardinality(Together(r, A)) = Cardinality(A[c]) + Cardinality(Together(r \ {c}, A))
      BY <2>1, <3>1, TogetherByOne
    <3>4. r \ {c} \in SUBSET S /\ Cardinality(r \ {c}) = Cardinality(r) - 1
      BY <2>1, <3>1, FS_RemoveElement
    <3>5. r \ {c} \notin Wrong
      <4>1. SUFFICES ASSUME r \ {c} \in Wrong PROVE FALSE
        OBVIOUS
      <4>2. Cardinality(r \ {c}) \in Sizes
        BY <2>1, <3>4, <4>1
      <4>3. Cardinality(r) <= Cardinality(r) - 1
        BY <2>3, <2>4, <3>4, <4>2
      <4>4. Cardinality(r) \in Nat
        BY <2>1, <3>1
      <4>5. QED  BY <4>3, <4>4
    <3>6. g[r \ {c}] = Cardinality(Together(r \ {c}, A))
      BY <3>4, <3>5
    <3>7. QED  BY <2>4, <3>2, <3>3, <3>6
  <2>8. QED  BY <2>6, <2>7
<1>2. QED  BY <1>1

(* The two folds of the breakdown are such folds. *)
LEMMA SequenceOfSizes ==
  ASSUME NEW q, IsFiniteSet(DOMAIN q), NEW A, Apart(DOMAIN q, A),
         \A k \in DOMAIN q : q[k] = Cardinality(A[k])
  PROVE  FoldSeq(LAMBDA a, b : a + b, 0, q) = Cardinality(Together(DOMAIN q, A))
<1> DEFINE D == DOMAIN q
           Rec(g) == [s \in SUBSET D |->
                        IF s = {} THEN 0
                        ELSE q[CHOOSE x \in s : TRUE] + g[s \ {CHOOSE x \in s : TRUE}]]
           iter == CHOOSE g : g = Rec(g)
<1>1. FoldSeq(LAMBDA a, b : a + b, 0, q) = iter[D]
  BY Zenon DEF FoldSeq, FoldFunction, FoldFunctionOnSet, MapThenFoldSet
<1>2. ASSUME NEW g PROVE AddsSizes(D, A, g) <=> g = Rec(g)
  <2>1. \A s \in SUBSET D : s # {} =>
          q[CHOOSE x \in s : TRUE] = Cardinality(A[CHOOSE x \in s : TRUE])
    OBVIOUS
  <2>2. Rec(g) = [s \in SUBSET D |->
                    IF s = {} THEN 0
                    ELSE Cardinality(A[CHOOSE x \in s : TRUE]) + g[s \ {CHOOSE x \in s : TRUE}]]
    BY <2>1
  <2>3. QED  BY <2>2, Zenon DEF AddsSizes
<1>3. \E g : g = Rec(g)
  <2>1. PICK g : AddsSizes(D, A, g)
    BY SizesCanBeAdded
  <2> HIDE DEF Rec
  <2>2. g = Rec(g)
    BY <1>2, <2>1, Zenon
  <2>3. QED  BY <2>2, Zenon
<1>4. iter = Rec(iter)
  <2> HIDE DEF Rec
  <2>1. QED  BY <1>3, Zenon
<1>5. AddsSizes(D, A, iter)
  <2> HIDE DEF Rec, iter
  <2>1. QED  BY <1>2, <1>4, Zenon
<1> HIDE DEF iter
<1>6. QED  BY <1>1, <1>5, SizesAddUp

LEMMA SetOfSizes ==
  ASSUME NEW S, IsFiniteSet(S), NEW A, Apart(S, A), \A b \in S : A[b] = b.bad
  PROVE  MapThenSumSet(LAMBDA b : Cardinality(b.bad), S) = Cardinality(Together(S, A))
<1> DEFINE Rec(g) == [s \in SUBSET S |->
                        IF s = {} THEN 0
                        ELSE Cardinality((CHOOSE x \in s : TRUE).bad)
                             + g[s \ {CHOOSE x \in s : TRUE}]]
           iter == CHOOSE g : g = Rec(g)
<1>1. MapThenSumSet(LAMBDA b : Cardinality(b.bad), S) = iter[S]
  BY Zenon DEF MapThenSumSet, MapThenFoldSet
<1>2. ASSUME NEW g PROVE AddsSizes(S, A, g) <=> g = Rec(g)
  <2>1. \A s \in SUBSET S : s # {} =>
          (CHOOSE x \in s : TRUE).bad = A[CHOOSE x \in s : TRUE]
    OBVIOUS
  <2>2. Rec(g) = [s \in SUBSET S |->
                    IF s = {} THEN 0
                    ELSE Cardinality(A[CHOOSE x \in s : TRUE]) + g[s \ {CHOOSE x \in s : TRUE}]]
    BY <2>1
  <2>3. QED  BY <2>2, Zenon DEF AddsSizes
<1>3. \E g : g = Rec(g)
  <2>1. PICK g : AddsSizes(S, A, g)
    BY SizesCanBeAdded
  <2> HIDE DEF Rec
  <2>2. g = Rec(g)
    BY <1>2, <2>1, Zenon
  <2>3. QED  BY <2>2, Zenon
<1>4. iter = Rec(iter)
  <2> HIDE DEF Rec
  <2>1. QED  BY <1>3, Zenon
<1>5. AddsSizes(S, A, iter)
  <2> HIDE DEF Rec, iter
  <2>1. QED  BY <1>2, <1>4, Zenon
<1> HIDE DEF iter
<1>6. QED  BY <1>1, <1>5, SizesAddUp

-----------------------------------------------------------------------------
(* The snapshots.  The rows of builds, in the order of their ids.          *)
IsRow(b) ==
  /\ DOMAIN b = {"id", "built", "status", "kind", "bad"}
  /\ b.id \in Nat \ {0} /\ b.built \in Int
  /\ b.status \in {"GOOD", "BAD", "FAIL", None}
  /\ IsFiniteSet(b.bad)
  /\ \A t \in b.bad : t[1] = b.id
  /\ b.bad # {} => b.status = "BAD"

Ids == {b.id : b \in AllBuilds}

RowsTyped ==
  /\ DOMAIN builds = Inputs
  /\ \A i \in Inputs : builds[i] \in Seq(ToSet(builds[i]))
  /\ \A i \in Inputs : \A k \in DOMAIN builds[i] : IsRow(builds[i][k])
  /\ listed \in SUBSET Inputs

IdsInOrder ==
  \A i \in Inputs : \A k, l \in DOMAIN builds[i] : k < l => builds[i][k].id < builds[i][l].id

IdsAreApart ==
  \A i, j \in Inputs : \A k \in DOMAIN builds[i], l \in DOMAIN builds[j] :
    i # j => builds[i][k].id # builds[j][l].id

IdsAreCounted == IsFiniteSet(Ids) /\ \A id \in Ids : id <= Cardinality(Ids)

RowsInv == RowsTyped /\ IdsInOrder /\ IdsAreApart /\ IdsAreCounted

LEMMA RowsOf ==
  \A b : b \in AllBuilds <=> \E i \in Inputs : \E k \in DOMAIN builds[i] : b = builds[i][k]
BY DEF AllBuilds, ToSet

LEMMA IdsOf ==
  \A id : id \in Ids <=> \E i \in Inputs : \E k \in DOMAIN builds[i] : id = builds[i][k].id
<1>1. \A id : id \in Ids <=> \E b \in AllBuilds : id = b.id
  BY DEF Ids
<1>2. QED  BY <1>1, RowsOf

LEMMA IdsTellRows ==
  ASSUME RowsInv, NEW b \in AllBuilds, NEW c \in AllBuilds, b.id = c.id
  PROVE  b = c
<1> PICK i \in Inputs : \E k \in DOMAIN builds[i] : b = builds[i][k]
  BY RowsOf
<1>1. PICK k \in DOMAIN builds[i] : b = builds[i][k]
  OBVIOUS
<1> PICK j \in Inputs : \E l \in DOMAIN builds[j] : c = builds[j][l]
  BY RowsOf
<1>2. PICK l \in DOMAIN builds[j] : c = builds[j][l]
  OBVIOUS
<1>3. i = j
  BY <1>1, <1>2 DEF RowsInv, IdsAreApart
<1>4. k \in Nat /\ l \in Nat /\ b.id \in Nat
  BY <1>1, <1>2 DEF RowsInv, RowsTyped, IsRow
<1>5. ~(k < l) /\ ~(l < k)
  BY <1>1, <1>2, <1>3, <1>4 DEF RowsInv, IdsInOrder
<1>6. k = l
  BY <1>4, <1>5
<1>7. QED  BY <1>1, <1>2, <1>3, <1>6

LEMMA CountIsOfIds ==
  ASSUME RowsInv
  PROVE  IsFiniteSet(AllBuilds) /\ BuildCount = Cardinality(Ids) /\ BuildCount \in Nat
<1> DEFINE f == [b \in AllBuilds |-> b.id]
<1>1. f \in Injection(AllBuilds, Ids) /\ f \in Surjection(AllBuilds, Ids)
  <2>1. f \in [AllBuilds -> Ids]
    BY DEF Ids
  <2>2. \A b, c \in AllBuilds : f[b] = f[c] => b = c
    BY IdsTellRows
  <2>3. \A id \in Ids : \E b \in AllBuilds : f[b] = id
    BY DEF Ids
  <2> HIDE DEF f
  <2>4. QED  BY <2>1, <2>2, <2>3 DEF Injection, Surjection, IsInjective
<1>2. IsFiniteSet(Ids) /\ Cardinality(Ids) \in Nat
  BY FS_CardinalityType DEF RowsInv, IdsAreCounted
<1> HIDE DEF f
<1>3. QED  BY <1>1, <1>2, FS_Injection DEF BuildCount

-----------------------------------------------------------------------------
(* The number of rows is the highest id, so that a new row gets a new one. *)
LEMMA EndBuildKeepsRows ==
  ASSUME RowsInv, NEW i \in Inputs, NEW status \in {"GOOD", "BAD", "FAIL"}, NEW built \in 0 .. MaxClock,
         NEW kind, NEW bad, IsFiniteSet(bad), EndBuild(i, status, built, kind, bad)
  PROVE  RowsInv'
<1> DEFINE id == BuildCount + 1
           row == [id |-> id, built |-> built, status |-> status, kind |-> kind,
                   bad |-> {<<id, b[1], b[2]>> : b \in bad}]
<1>1. /\ builds' = [builds EXCEPT ![i] = Append(builds[i], row)]
      /\ listed' = listed /\ (bad # {} => status = "BAD")
  BY DEF EndBuild
<1>2. id \in Nat \ {0} /\ \A old \in Ids : old \in Nat /\ old < id
  <2>1. BuildCount \in Nat /\ BuildCount = Cardinality(Ids)
    BY CountIsOfIds
  <2>2. \A old \in Ids : old \in Nat /\ old <= BuildCount
    BY <2>1, IdsOf DEF RowsInv, IdsAreCounted, RowsTyped, IsRow
  <2>3. QED  BY <2>1, <2>2
<1>3. IsRow(row)
  <2> DEFINE f == [b \in bad |-> <<id, b[1], b[2]>>]
  <2>1. IsFiniteSet({f[b] : b \in bad})
    <3> HIDE DEF f
    <3>1. QED  BY ImageIsFinite
  <2>2. row.bad = {f[b] : b \in bad}
    OBVIOUS
  <2>3. \A t \in row.bad : t[1] = id
    OBVIOUS
  <2>4. row.bad # {} => status = "BAD"
    BY <1>1
  <2>5. built \in Int
    BY StatisticsAssumption
  <2> HIDE DEF id, f
  <2>6. /\ DOMAIN row = {"id", "built", "status", "kind", "bad"}
        /\ row.id = id /\ row.built = built /\ row.status = status
    OBVIOUS
  <2> HIDE DEF row
  <2>7. QED  BY <1>2, <2>1, <2>2, <2>3, <2>4, <2>5, <2>6 DEF IsRow
<1>4. row.id = id
  OBVIOUS
<1> HIDE DEF row, id
<1>5. /\ Append(builds[i], row) \in Seq(ToSet(Append(builds[i], row)))
      /\ DOMAIN Append(builds[i], row) = DOMAIN builds[i] \cup {Len(builds[i]) + 1}
      /\ Len(builds[i]) \in Nat /\ DOMAIN builds[i] = 1 .. Len(builds[i])
      /\ \A k \in DOMAIN builds[i] : Append(builds[i], row)[k] = builds[i][k]
      /\ Append(builds[i], row)[Len(builds[i]) + 1] = row
  <2> DEFINE s == builds[i]
             new == Append(s, row)
  <2>1. s \in Seq(ToSet(s))
    BY DEF RowsInv, RowsTyped
  <2> HIDE DEF s
  <2>2. new \in Seq(ToSet(s) \cup {row}) /\ Len(new) = Len(s) + 1 /\ Len(s) \in Nat
        /\ DOMAIN s = 1 .. Len(s) /\ DOMAIN new = 1 .. Len(s) + 1
        /\ (\A k \in DOMAIN s : new[k] = s[k]) /\ new[Len(s) + 1] = row
    BY <2>1
  <2> HIDE DEF new
  <2>3. new \in Seq(ToSet(new))
    BY <2>2 DEF ToSet
  <2>4. QED  BY <2>2, <2>3 DEF new, s
<1> DEFINE last == Len(builds[i]) + 1
<1>6. /\ builds'[i] \in Seq(ToSet(builds'[i]))
      /\ DOMAIN builds'[i] = DOMAIN builds[i] \cup {last}
      /\ last \in Nat /\ \A k \in DOMAIN builds[i] : k \in Nat /\ k < last
      /\ \A k \in DOMAIN builds[i] : builds'[i][k] = builds[i][k]
      /\ builds'[i][last] = row
  BY <1>1, <1>5 DEF RowsInv, RowsTyped
<1>7. DOMAIN builds' = Inputs /\ \A j \in Inputs : j # i => builds'[j] = builds[j]
  BY <1>1 DEF RowsInv, RowsTyped
<1> HIDE DEF last
<1>8. \A j \in Inputs : \A k \in DOMAIN builds'[j] :
         \/ k \in DOMAIN builds[j] /\ builds'[j][k] = builds[j][k]
         \/ j = i /\ k = last /\ builds'[j][k] = row
  BY <1>6, <1>7
<1>9. RowsTyped'
  <2>1. \A j \in Inputs : builds'[j] \in Seq(ToSet(builds'[j]))
    BY <1>6, <1>7 DEF RowsInv, RowsTyped
  <2>2. \A j \in Inputs : \A k \in DOMAIN builds'[j] : IsRow(builds'[j][k])
    BY <1>3, <1>8 DEF RowsInv, RowsTyped
  <2>3. QED  BY <1>1, <1>7, <2>1, <2>2 DEF RowsInv, RowsTyped
<1>10. \A j \in Inputs : \A k \in DOMAIN builds[j] : builds[j][k].id \in Ids
  BY IdsOf
<1>11. IdsInOrder'
  <2>1. SUFFICES ASSUME NEW j \in Inputs, NEW k \in DOMAIN builds'[j], NEW l \in DOMAIN builds'[j], k < l
                 PROVE  builds'[j][k].id < builds'[j][l].id
    BY DEF IdsInOrder
  <2>2. CASE l \in DOMAIN builds[j] /\ builds'[j][l] = builds[j][l] /\ k \in DOMAIN builds[j]
    BY <1>8, <2>1, <2>2, <1>6 DEF RowsInv, IdsInOrder
  <2>3. CASE j = i /\ l = last /\ builds'[j][l] = row /\ k \in DOMAIN builds[j]
    <3>1. builds'[j][k] = builds[j][k]
      BY <1>6, <2>3
    <3>2. builds[j][k].id < id
      BY <1>2, <1>10, <2>3
    <3>3. QED  BY <1>4, <2>3, <3>1, <3>2
  <2>4. k \in DOMAIN builds[j]
    <3>1. SUFFICES ASSUME j = i, k = last PROVE FALSE
      BY <1>8
    <3>2. QED  BY <1>6, <2>1, <3>1
  <2>5. QED  BY <1>8, <2>2, <2>3, <2>4
<1>12. IdsAreApart'
  <2>1. SUFFICES ASSUME NEW j \in Inputs, NEW h \in Inputs, j # h,
                        NEW k \in DOMAIN builds'[j], NEW l \in DOMAIN builds'[h]
                 PROVE  builds'[j][k].id # builds'[h][l].id
    BY DEF IdsAreApart
  <2>2. CASE j # i /\ h # i
    BY <1>7, <2>1, <2>2 DEF RowsInv, IdsAreApart
  <2>3. CASE j = i
    <3>1. l \in DOMAIN builds[h] /\ builds'[h][l] = builds[h][l]
      BY <1>7, <2>1, <2>3
    <3>2. CASE k \in DOMAIN builds[j] /\ builds'[j][k] = builds[j][k]
      BY <2>1, <3>1, <3>2 DEF RowsInv, IdsAreApart
    <3>3. CASE builds'[j][k] = row
      BY <1>2, <1>4, <1>10, <3>1, <3>3
    <3>4. QED  BY <1>8, <3>2, <3>3
  <2>4. CASE h = i
    <3>1. k \in DOMAIN builds[j] /\ builds'[j][k] = builds[j][k]
      BY <1>7, <2>1, <2>4
    <3>2. CASE l \in DOMAIN builds[h] /\ builds'[h][l] = builds[h][l]
      BY <2>1, <3>1, <3>2 DEF RowsInv, IdsAreApart
    <3>3. CASE builds'[h][l] = row
      BY <1>2, <1>4, <1>10, <3>1, <3>3
    <3>4. QED  BY <1>8, <3>2, <3>3
  <2>5. QED  BY <2>2, <2>3, <2>4
<1>13. IdsAreCounted'
  <2>1. \A old : old \in Ids' <=> \E j \in Inputs : \E k \in DOMAIN builds'[j] : old = builds'[j][k].id
    <3>1. \A b : b \in AllBuilds' <=> \E j \in Inputs : \E k \in DOMAIN builds'[j] : b = builds'[j][k]
      BY DEF AllBuilds, ToSet
    <3>2. \A old : old \in Ids' <=> \E b \in AllBuilds' : old = b.id
      BY DEF Ids
    <3>3. QED  BY <3>1, <3>2
  <2>2. Ids' = Ids \cup {id}
    <3>1. ASSUME NEW old \in Ids' PROVE old \in Ids \cup {id}
      <4> PICK j \in Inputs : \E k \in DOMAIN builds'[j] : old = builds'[j][k].id
        BY <2>1
      <4>1. PICK k \in DOMAIN builds'[j] : old = builds'[j][k].id
        OBVIOUS
      <4>2. QED  BY <1>4, <1>8, <1>10, <4>1
    <3>2. ASSUME NEW old \in Ids PROVE old \in Ids'
      <4> PICK j \in Inputs : \E k \in DOMAIN builds[j] : old = builds[j][k].id
        BY IdsOf
      <4>1. PICK k \in DOMAIN builds[j] : old = builds[j][k].id
        OBVIOUS
      <4>2. k \in DOMAIN builds'[j] /\ builds'[j][k] = builds[j][k]
        BY <1>6, <1>7
      <4>3. QED  BY <2>1, <4>1, <4>2
    <3>3. id \in Ids'
      BY <1>4, <1>6, <2>1
    <3>4. QED  BY <3>1, <3>2, <3>3
  <2>3. IsFiniteSet(Ids) /\ Cardinality(Ids) \in Nat /\ id = Cardinality(Ids) + 1
    BY CountIsOfIds, FS_CardinalityType DEF RowsInv, IdsAreCounted, id
  <2>4. id \notin Ids
    BY <1>2
  <2>5. IsFiniteSet(Ids \cup {id}) /\ Cardinality(Ids \cup {id}) = id
    BY <2>3, <2>4, FS_AddElement
  <2>6. \A old \in Ids \cup {id} : old <= id
    BY <1>2
  <2>7. QED  BY <2>2, <2>5, <2>6 DEF IdsAreCounted
<1>14. QED  BY <1>9, <1>11, <1>12, <1>13 DEF RowsInv

LEMMA ResetKeepsRows ==
  ASSUME RowsInv, NEW i \in Inputs, NEW reset \in BOOLEAN, AskForRebuild(i, reset)
  PROVE  RowsInv'
<1> DEFINE Reset(k, b) == IF reset /\ k = Len(builds[i]) THEN [b EXCEPT !.status = None, !.bad = {}]
                         ELSE b
<1>1. builds' = [builds EXCEPT ![i] = [k \in DOMAIN builds[i] |-> Reset(k, builds[i][k])]] /\ listed' = listed
  <2>1. builds[i] \in Seq(ToSet(builds[i])) /\ i \in DOMAIN builds
    BY DEF RowsInv, RowsTyped
  <2>2. builds[i] = [k \in DOMAIN builds[i] |-> builds[i][k]]
    BY <2>1
  <2>3. CASE reset
    <3>1. ResetLast(builds[i]) = [k \in DOMAIN builds[i] |-> Reset(k, builds[i][k])]
      BY <2>2, <2>3 DEF ResetLast
    <3>2. QED  BY <2>3, <3>1 DEF AskForRebuild
  <2>4. CASE ~reset
    <3>1. [k \in DOMAIN builds[i] |-> Reset(k, builds[i][k])] = builds[i]
      BY <2>2, <2>4
    <3>2. QED  BY <2>4, <3>1 DEF AskForRebuild
  <2>5. QED  BY <2>3, <2>4
<1>2. ASSUME NEW k, NEW b, IsRow(b) PROVE IsRow(Reset(k, b)) /\ Reset(k, b).id = b.id
  BY <1>2, FS_EmptySet DEF IsRow
<1> HIDE DEF Reset
<1>3. /\ DOMAIN builds' = Inputs
      /\ \A j \in Inputs : DOMAIN builds'[j] = DOMAIN builds[j]
      /\ \A j \in Inputs : \A k \in DOMAIN builds[j] :
           builds'[j][k] = IF j = i THEN Reset(k, builds[j][k]) ELSE builds[j][k]
  BY <1>1 DEF RowsInv, RowsTyped
<1>4. \A j \in Inputs : \A k \in DOMAIN builds[j] : IsRow(builds'[j][k]) /\ builds'[j][k].id = builds[j][k].id
  BY <1>2, <1>3 DEF RowsInv, RowsTyped
<1>5. RowsTyped'
  <2>1. \A j \in Inputs : builds'[j] \in Seq(ToSet(builds'[j]))
    <3>1. SUFFICES ASSUME NEW j \in Inputs PROVE builds'[j] \in Seq(ToSet(builds'[j]))
      OBVIOUS
    <3>2. CASE j = i
      <4>1. builds[i] \in Seq(ToSet(builds[i]))
        BY DEF RowsInv, RowsTyped
      <4>2. DOMAIN builds[i] = 1 .. Len(builds[i]) /\ Len(builds[i]) \in Nat
        BY <4>1
      <4>3. builds'[i] = [k \in 1 .. Len(builds[i]) |-> Reset(k, builds[i][k])]
        BY <1>1, <4>2 DEF RowsInv, RowsTyped
      <4>4. \A k \in 1 .. Len(builds[i]) : Reset(k, builds[i][k]) \in ToSet(builds'[i])
        BY <4>3 DEF ToSet
      <4>5. QED  BY <3>2, <4>2, <4>3, <4>4
    <3>3. CASE j # i
      BY <1>1, <3>3 DEF RowsInv, RowsTyped
    <3>4. QED  BY <3>2, <3>3
  <2>2. QED  BY <1>1, <1>3, <1>4, <2>1 DEF RowsInv, RowsTyped
<1>6. IdsInOrder' /\ IdsAreApart'
  BY <1>3, <1>4 DEF RowsInv, IdsInOrder, IdsAreApart
<1>7. Ids' = Ids
  <2>1. \A id : id \in Ids' <=> \E j \in Inputs : \E k \in DOMAIN builds'[j] : id = builds'[j][k].id
    <3>1. \A b : b \in AllBuilds' <=> \E j \in Inputs : \E k \in DOMAIN builds'[j] : b = builds'[j][k]
      BY DEF AllBuilds, ToSet
    <3>2. \A id : id \in Ids' <=> \E b \in AllBuilds' : id = b.id
      BY DEF Ids
    <3>3. QED  BY <3>1, <3>2
  <2>2. \A id : id \in Ids' <=> id \in Ids
    BY <1>3, <1>4, <2>1, IdsOf
  <2>3. QED  BY <2>2
<1>8. QED  BY <1>5, <1>6, <1>7 DEF RowsInv, IdsAreCounted

-----------------------------------------------------------------------------
(* The snapshot that is being read.  What a select returned is what it     *)
(* would return now, unless something was changed since.                   *)
Reading == {"latest", "bad", "fails", "insert"}

Combos == {OriginOf[i] : i \in {j \in Inputs : OriginOf[j].distribution \in Backends}}

Newest(combo) == {Last(builds[i]).id : i \in {j \in InSnapshot(combo) : builds[j] # <<>>}}
BadOf(ids)    == UNION {b.bad : b \in {c \in AllBuilds : c.id \in ids}}
FailsOf(ids)  == {<<b.id, 0, b.kind>> : b \in {c \in AllBuilds : c.id \in ids /\ c.status = "FAIL"}}

CollectionTyped ==
  /\ DOMAIN collection = {"pc", "todo", "combo", "counts", "latest", "bad", "fails", "changed"}
  /\ collection.pc \in Reading \cup {"idle", "counts", "done"}
  /\ collection.todo \in SUBSET Combos
  /\ collection.changed \in BOOLEAN

ReadsAreCurrent ==
  /\ collection.counts = StatusCounts(InSnapshot(collection.combo))
  /\ collection.pc # "latest" => collection.latest = Newest(collection.combo)
  /\ collection.pc \in {"fails", "insert"} => collection.bad = BadOf(collection.latest)
  /\ collection.pc = "insert" => collection.fails = FailsOf(collection.latest)

SnapshotInv ==
  /\ RowsInv
  /\ CollectionTyped
  /\ collection.pc \in Reading =>
       collection.combo \in Combos /\ (~collection.changed => ReadsAreCurrent)

LEMMA SnapshotInitHolds == StatisticsInit => SnapshotInv
<1> SUFFICES ASSUME StatisticsInit PROVE SnapshotInv
  OBVIOUS
<1>1. builds = [i \in Inputs |-> <<>>] /\ listed = Inputs /\ collection = IdleCollection
  BY DEF StatisticsInit
<1>2. CollectionTyped /\ collection.pc = "idle"
  BY <1>1 DEF CollectionTyped, IdleCollection
<1>3. RowsTyped /\ IdsInOrder /\ IdsAreApart
  BY <1>1 DEF RowsTyped, IdsInOrder, IdsAreApart
<1>4. Ids = {}
  BY <1>1, IdsOf
<1>5. QED  BY <1>2, <1>3, <1>4, FS_EmptySet DEF SnapshotInv, RowsInv, IdsAreCounted, Reading

LEMMA CollectionStepKeepsSnapshot ==
  ASSUME SnapshotInv, CollectionStep
  PROVE  SnapshotInv'
<1>1. CollectionTyped /\ RowsInv
  BY DEF SnapshotInv
<1>2. UNCHANGED tables
  BY DEF CollectionStep, StartCollection, ReadCounts, ReadLatest, ReadBadArtifacts, ReadFails, InsertSnapshot
<1>3. /\ builds' = builds /\ listed' = listed
      /\ \A combo : InSnapshot(combo)' = InSnapshot(combo)
      /\ \A S : StatusCounts(S)' = StatusCounts(S)
      /\ \A combo : Newest(combo)' = Newest(combo)
      /\ \A ids : BadOf(ids)' = BadOf(ids) /\ FailsOf(ids)' = FailsOf(ids)
  BY <1>2 DEF tables, InSnapshot, StatusCounts, LatestBuild, Newest, BadOf, FailsOf, AllBuilds
<1>4. RowsInv'
  BY <1>1, <1>3 DEF RowsInv, RowsTyped, IdsInOrder, IdsAreApart, IdsAreCounted, Ids, AllBuilds
<1>5. CASE StartCollection
  <2>1. collection' = [IdleCollection EXCEPT
          !.pc = "counts",
          !.todo = {OriginOf[i] : i \in {j \in listed : OriginOf[j].distribution \in Backends}}]
    BY <1>5 DEF StartCollection
  <2>2. {OriginOf[i] : i \in {j \in listed : OriginOf[j].distribution \in Backends}} \in SUBSET Combos
    BY <1>1 DEF Combos, RowsInv, RowsTyped
  <2>3. CollectionTyped' /\ collection'.pc = "counts"
    BY <2>1, <2>2 DEF CollectionTyped, IdleCollection
  <2>4. QED  BY <1>4, <2>3 DEF SnapshotInv, Reading
<1>6. ASSUME NEW combo \in collection.todo, ReadCounts(combo) PROVE SnapshotInv'
  <2> DEFINE counts == StatusCounts(InSnapshot(combo))
  <2>1. collection' = [collection EXCEPT
          !.pc = "latest", !.todo = @ \ {combo}, !.combo = combo, !.counts = counts, !.changed = FALSE]
    BY <1>6, Zenon DEF ReadCounts
  <2>2. counts' = counts
    BY <1>2 DEF tables, InSnapshot, StatusCounts, LatestBuild
  <2> HIDE DEF counts
  <2>3. /\ CollectionTyped' /\ collection'.pc = "latest" /\ collection'.combo = combo
        /\ collection'.counts = counts /\ combo \in Combos
    BY <1>1, <1>6, <2>1 DEF CollectionTyped, Reading
  <2>4. StatusCounts(InSnapshot(collection.combo))' = counts'
    BY <2>3 DEF counts
  <2>5. ReadsAreCurrent'
    BY <2>2, <2>3, <2>4 DEF ReadsAreCurrent
  <2>6. QED  BY <1>4, <2>3, <2>5 DEF SnapshotInv
<1>7. CASE ReadLatest
  <2>1. /\ collection.pc = "latest"
        /\ collection' = [collection EXCEPT !.pc = "bad", !.latest = Newest(collection.combo)]
    BY <1>7, Zenon DEF ReadLatest, Newest
  <2>2. /\ CollectionTyped' /\ collection'.pc = "bad" /\ collection'.combo = collection.combo
        /\ collection'.latest = Newest(collection.combo) /\ collection'.counts = collection.counts
        /\ collection'.changed = collection.changed
    BY <1>1, <2>1 DEF CollectionTyped, Reading
  <2>3. collection.combo \in Combos /\ (~collection.changed => ReadsAreCurrent)
    BY <2>1 DEF SnapshotInv, Reading
  <2>4. ~collection.changed => ReadsAreCurrent'
    BY <1>3, <2>2, <2>3 DEF ReadsAreCurrent
  <2>5. QED  BY <1>4, <2>2, <2>3, <2>4 DEF SnapshotInv
<1>8. CASE ReadBadArtifacts
  <2>1. /\ collection.pc = "bad"
        /\ collection' = [collection EXCEPT !.pc = "fails", !.bad = BadOf(collection.latest)]
    BY <1>8, Zenon DEF ReadBadArtifacts, BadOf
  <2>2. /\ CollectionTyped' /\ collection'.pc = "fails" /\ collection'.combo = collection.combo
        /\ collection'.latest = collection.latest /\ collection'.counts = collection.counts
        /\ collection'.bad = BadOf(collection.latest) /\ collection'.changed = collection.changed
    BY <1>1, <2>1 DEF CollectionTyped, Reading
  <2>3. collection.combo \in Combos /\ (~collection.changed => ReadsAreCurrent)
    BY <2>1 DEF SnapshotInv, Reading
  <2>4. ~collection.changed => ReadsAreCurrent'
    BY <1>3, <2>1, <2>2, <2>3 DEF ReadsAreCurrent
  <2>5. QED  BY <1>4, <2>2, <2>3, <2>4 DEF SnapshotInv
<1>9. CASE ReadFails
  <2>1. /\ collection.pc = "fails"
        /\ collection' = [collection EXCEPT !.pc = "insert", !.fails = FailsOf(collection.latest)]
    BY <1>9, Zenon DEF ReadFails, FailsOf
  <2>2. /\ CollectionTyped' /\ collection'.pc = "insert" /\ collection'.combo = collection.combo
        /\ collection'.latest = collection.latest /\ collection'.counts = collection.counts
        /\ collection'.bad = collection.bad /\ collection'.fails = FailsOf(collection.latest)
        /\ collection'.changed = collection.changed
    BY <1>1, <2>1 DEF CollectionTyped, Reading
  <2>3. collection.combo \in Combos /\ (~collection.changed => ReadsAreCurrent)
    BY <2>1 DEF SnapshotInv, Reading
  <2>4. ~collection.changed => ReadsAreCurrent'
    BY <1>3, <2>1, <2>2, <2>3 DEF ReadsAreCurrent
  <2>5. QED  BY <1>4, <2>2, <2>3, <2>4 DEF SnapshotInv
<1>10. CASE InsertSnapshot
  <2>1. collection' = [collection EXCEPT !.pc = IF collection.todo = {} THEN "done" ELSE "counts"]
    BY <1>10, Zenon DEF InsertSnapshot
  <2>2. CollectionTyped' /\ collection'.pc \in {"done", "counts"}
    BY <1>1, <2>1 DEF CollectionTyped, Reading
  <2>3. QED  BY <1>4, <2>2 DEF SnapshotInv, Reading
<1>11. QED  BY <1>5, <1>6, <1>7, <1>8, <1>9, <1>10 DEF CollectionStep

LEMMA TouchKeepsSnapshot ==
  ASSUME SnapshotInv, NEW i, Touch(i), RowsInv'
  PROVE  SnapshotInv'
<1>1. CollectionTyped
      /\ collection' = [collection EXCEPT !.changed = @ \/ collection.pc \in Reading]
  BY DEF SnapshotInv, Touch, Reading
<1>2. /\ CollectionTyped' /\ collection'.pc = collection.pc /\ collection'.combo = collection.combo
      /\ collection.pc \in Reading => collection'.changed
  BY <1>1 DEF CollectionTyped
<1>3. QED  BY <1>2 DEF SnapshotInv

LEMMA ChangeKeepsSnapshot ==
  ASSUME SnapshotInv, NEW badSets, \A bad \in badSets : IsFiniteSet(bad),
         StatisticsChange(Inputs, badSets)
  PROVE  SnapshotInv'
<1>1. RowsInv
  BY DEF SnapshotInv
<1>2. ASSUME NEW i \in Inputs, NEW status \in {"GOOD", "BAD", "FAIL"}, NEW built \in 0 .. MaxClock,
             NEW kind \in Kinds, NEW bad \in badSets, EndBuild(i, status, built, kind, bad)
      PROVE  SnapshotInv'
  <2>1. RowsInv'
    BY <1>1, <1>2, EndBuildKeepsRows
  <2>2. Touch(i)
    BY <1>2 DEF EndBuild
  <2>3. QED  BY <2>1, <2>2, TouchKeepsSnapshot
<1>3. ASSUME NEW i \in Inputs, NEW reset \in BOOLEAN, AskForRebuild(i, reset) PROVE SnapshotInv'
  <2>1. RowsInv'
    BY <1>1, <1>3, ResetKeepsRows
  <2>2. Touch(i)
    BY <1>3 DEF AskForRebuild
  <2>3. QED  BY <2>1, <2>2, TouchKeepsSnapshot
<1>4. ASSUME builds' = builds, listed' \in SUBSET Inputs PROVE RowsInv'
  BY <1>1, <1>4 DEF RowsInv, RowsTyped, IdsInOrder, IdsAreApart, IdsAreCounted, Ids, AllBuilds
<1>5. listed \in SUBSET Inputs
  BY <1>1 DEF RowsInv, RowsTyped
<1>6. ASSUME NEW i \in Inputs, HandOut(i) \/ SyncInput(i) PROVE SnapshotInv'
  <2>1. Touch(i) /\ builds' = builds
    BY <1>6 DEF HandOut, SyncInput
  <2>2. listed' \in SUBSET Inputs
    BY <1>5, <1>6 DEF HandOut, SyncInput
  <2>3. QED  BY <1>4, <2>1, <2>2, TouchKeepsSnapshot
<1>7. CASE Pass
  <2>1. builds' = builds /\ listed' = listed /\ collection' = collection
    BY <1>7 DEF Pass
  <2>2. SnapshotInv
    OBVIOUS
  <2>3. QED  BY <1>1, <2>1, <2>2 DEF SnapshotInv, RowsInv, RowsTyped, IdsInOrder, IdsAreApart, IdsAreCounted,
              Ids, AllBuilds, CollectionTyped, ReadsAreCurrent, InSnapshot, StatusCounts, LatestBuild,
              Newest, BadOf, FailsOf
<1>8. QED  BY <1>2, <1>3, <1>6, <1>7 DEF StatisticsChange

LEMMA SnapshotInvHolds ==
  ASSUME NEW CONSTANT badSets, \A bad \in badSets : IsFiniteSet(bad)
  PROVE  StatisticsSpec(badSets) => []SnapshotInv
<1>1. SnapshotInv /\ [StatisticsNext(badSets)]_statVars => SnapshotInv'
  <2> SUFFICES ASSUME SnapshotInv, [StatisticsNext(badSets)]_statVars PROVE SnapshotInv'
    OBVIOUS
  <2>1. CASE CollectionStep
    BY <2>1, CollectionStepKeepsSnapshot
  <2>2. CASE StatisticsChange(Inputs, badSets)
    BY <2>2, ChangeKeepsSnapshot
  <2>3. CASE DashboardStep \/ UNCHANGED statVars
    <3>1. UNCHANGED <<builds, listed, collection>>
      BY <2>3, SMT DEF DashboardStep, ReadSums, CountRunning, CountAvailable, CountPending, statVars, tables
    <3>2. QED  BY <3>1 DEF SnapshotInv, RowsInv, RowsTyped, IdsInOrder, IdsAreApart, IdsAreCounted,
                Ids, AllBuilds, CollectionTyped, ReadsAreCurrent, InSnapshot, StatusCounts, LatestBuild,
                Newest, BadOf, FailsOf
  <2>4. QED  BY <2>1, <2>2, <2>3 DEF StatisticsNext
<1>2. QED  BY <1>1, SnapshotInitHolds, PTL DEF StatisticsSpec

-----------------------------------------------------------------------------
(* When builds were reported in order, the latest one is the newest one.   *)
LEMMA LatestIsLast ==
  ASSUME RowsInv, NEW i \in Inputs, builds[i] # <<>>
  PROVE  /\ Last(builds[i]) \in AllBuilds /\ IsRow(Last(builds[i]))
         /\ InOrder(i) => LatestBuild(i) = Last(builds[i])
<1> DEFINE s == builds[i]
           n == Len(s)
           last == s[n]
           IsLatest(b) == \A c \in ToSet(s) : c.built < b.built \/ (c.built = b.built /\ c.id <= b.id)
<1>1. s \in Seq(ToSet(s)) /\ \A k \in DOMAIN s : IsRow(s[k])
  BY DEF RowsInv, RowsTyped
<1>2. n \in Nat \ {0} /\ DOMAIN s = 1 .. n
  BY <1>1
<1>3. Last(builds[i]) = last /\ IsRow(last) /\ last \in AllBuilds /\ last \in ToSet(s)
  BY <1>1, <1>2, RowsOf DEF Last, ToSet
<1>4. ASSUME InOrder(i) PROVE LatestBuild(i) = last
  <2>1. \A c \in ToSet(s) : IsRow(c) /\ (c = last \/ (c.built <= last.built /\ c.id < last.id))
    <3>1. SUFFICES ASSUME NEW k \in 1 .. n
                   PROVE  IsRow(s[k]) /\ (k = n \/ (s[k].built <= last.built /\ s[k].id < last.id))
      BY <1>2 DEF ToSet
    <3>2. CASE k < n
      BY <1>1, <1>2, <1>4, <3>2 DEF InOrder, RowsInv, IdsInOrder
    <3>3. QED  BY <1>1, <1>2, <3>2
  <2> HIDE DEF last, n, s
  <2>2. IsLatest(last)
    BY <1>3, <2>1 DEF IsRow
  <2>3. ASSUME NEW b \in ToSet(s), IsLatest(b) PROVE b = last
    BY <1>3, <2>1, <2>2, <2>3 DEF IsRow
  <2>4. LatestBuild(i) = CHOOSE b \in ToSet(s) : IsLatest(b)
    BY DEF LatestBuild, s
  <2> HIDE DEF IsLatest
  <2>5. QED  BY <1>3, <2>2, <2>3, <2>4
<1>5. QED  BY <1>3, <1>4

(* Each item is in the first category that takes it, and in no other.      *)
LEMMA EachInOneCategory ==
  ASSUME NEW items, IsFiniteSet(items), NEW categories \in Seq(Categories), NEW arch, NEW counted,
         counted = [k \in DOMAIN categories |->
                      Cardinality({item \in items : IsCategory(categories, arch, item[3], k)})]
  PROVE  FoldSeq(LAMBDA a, b : a + b, 0, counted)
           + Cardinality({item \in items :
               \A k \in DOMAIN categories : ~Accepts(categories[k], arch, item[3])})
         = Cardinality(items)
<1> DEFINE Takes(k, item) == Accepts(categories[k], arch, item[3])
           Class(k) == {item \in items : IsCategory(categories, arch, item[3], k)}
           D == DOMAIN categories
           A == [k \in D |-> Class(k)]
           taken == {item \in items : \E k \in D : Takes(k, item)}
           others == {item \in items : \A k \in D : ~Takes(k, item)}
<1>1. D = 1 .. Len(categories) /\ Len(categories) \in Nat /\ IsFiniteSet(D)
  BY FS_Interval
<1>2. \A k \in D : \A item \in items :
        item \in Class(k) <=> (Takes(k, item) /\ \A j \in 1 .. k - 1 : ~Takes(j, item))
  BY DEF IsCategory
<1>3. \A k \in D : Class(k) \in SUBSET items /\ IsFiniteSet(Class(k))
  BY FS_Subset
<1>4. DOMAIN counted = D /\ \A k \in D : counted[k] = Cardinality(A[k])
  OBVIOUS
<1> HIDE DEF Takes, Class, D
<1>5. Apart(D, A)
  <2>1. SUFFICES ASSUME NEW x \in D, NEW y \in D, x < y PROVE Class(x) \cap Class(y) = {}
    BY <1>1, <1>3 DEF Apart
  <2>2. x \in 1 .. y - 1
    BY <1>1, <2>1
  <2>3. \A item \in items : ~(item \in Class(x) /\ item \in Class(y))
    BY <1>2, <2>2
  <2>4. QED  BY <1>3, <2>3
<1>6. Together(D, A) = taken
  <2>1. ASSUME NEW item \in taken PROVE \E k \in D : item \in Class(k)
    <3> DEFINE K == {k \in D : Takes(k, item)}
    <3>1. K \in SUBSET Nat /\ K # {}
      BY <1>1, <2>1
    <3>2. PICK k \in K : \A m \in K : k <= m
      BY <3>1, LeastExists
    <3>3. \A j \in 1 .. k - 1 : ~Takes(j, item)
      <4>1. SUFFICES ASSUME NEW j \in 1 .. k - 1, Takes(j, item) PROVE FALSE
        OBVIOUS
      <4>2. j \in D /\ j < k
        BY <1>1, <3>1, <3>2
      <4>3. QED  BY <1>1, <3>2, <4>1, <4>2
    <3>4. QED  BY <1>2, <3>2, <3>3
  <2>2. \A k \in D : Class(k) \subseteq taken
    BY <1>2, <1>3
  <2> HIDE DEF taken
  <2>3. QED  BY <2>1, <2>2 DEF Together
<1>7. FoldSeq(LAMBDA a, b : a + b, 0, counted) = Cardinality(taken)
  <2> HIDE DEF A, taken
  <2>1. QED  BY <1>1, <1>4, <1>5, <1>6, SequenceOfSizes
<1>8. Cardinality(taken) + Cardinality(others) = Cardinality(items)
  <2>1. items = taken \cup others /\ taken \cap others = {}
    OBVIOUS
  <2>2. taken \in SUBSET items /\ others \in SUBSET items
    OBVIOUS
  <2> HIDE DEF taken, others
  <2>3. IsFiniteSet(taken) /\ IsFiniteSet(others)
    BY <2>2, FS_Subset
  <2>4. /\ Cardinality(taken) \in Nat /\ Cardinality(others) \in Nat
        /\ Cardinality(taken \cap others) = 0
    BY <2>1, <2>3, FS_CardinalityType, FS_EmptySet
  <2>5. Cardinality(taken \cup others)
        = Cardinality(taken) + Cardinality(others) - Cardinality(taken \cap others)
    BY <2>3, FS_Union
  <2>6. QED  BY <2>1, <2>4, <2>5
<1>9. QED  BY <1>7, <1>8 DEF D, Takes

(* One item for each bad artifact and each failure of the newest builds.   *)
LEMMA ItemsAreKnown ==
  ASSUME SnapshotInv, collection.pc = "insert", ~collection.changed,
         \A i \in InSnapshot(collection.combo) : InOrder(i)
  PROVE  LET latest == {LatestBuild(i) : i \in InSnapshot(collection.combo)}
             items == collection.bad \cup collection.fails
         IN /\ IsFiniteSet(items)
            /\ Cardinality(items) = MapThenSumSet(LAMBDA b : Cardinality(b.bad), latest)
                                    + collection.counts["FAIL"]
<1> DEFINE D == InSnapshot(collection.combo)
           B == {i \in D : builds[i] # <<>>}
           last == [i \in B |-> Last(builds[i])]
           N == {last[i] : i \in B}
           L == {LatestBuild(i) : i \in D}
           F == {i \in D : LatestBuild(i).status = "FAIL"}
           bad == collection.bad
           fails == collection.fails
<1>1. RowsInv /\ ReadsAreCurrent
  BY DEF SnapshotInv, Reading
<1>2. /\ D \in SUBSET Inputs /\ IsFiniteSet(D)
      /\ B \in SUBSET D /\ IsFiniteSet(B)
      /\ F \in SUBSET D /\ IsFiniteSet(F)
  <2>1. D \in SUBSET Inputs
    BY <1>1 DEF RowsInv, RowsTyped, InSnapshot
  <2>2. IsFiniteSet(D)
    BY <2>1, FS_Subset, StatisticsAssumption
  <2> HIDE DEF D
  <2>3. QED  BY <2>1, <2>2, FS_Subset
<1>3. \A i \in B : LatestBuild(i) = last[i] /\ last[i] \in AllBuilds /\ IsRow(last[i])
  BY <1>1, <1>2, LatestIsLast
<1>4. \A i \in D : i \notin B => LatestBuild(i) = NoBuild
  BY DEF LatestBuild
<1>5. \A i, j \in B : last[i].id = last[j].id => i = j
  <2>1. SUFFICES ASSUME NEW i \in B, NEW j \in B, i # j PROVE last[i].id # last[j].id
    OBVIOUS
  <2>2. ASSUME NEW h \in B PROVE \E k \in DOMAIN builds[h] : last[h] = builds[h][k]
    <3>1. builds[h] \in Seq(ToSet(builds[h])) /\ builds[h] # <<>>
      BY <1>1, <1>2 DEF RowsInv, RowsTyped
    <3>2. Len(builds[h]) \in DOMAIN builds[h]
      BY <3>1
    <3>3. QED  BY <3>2 DEF Last
  <2>3. PICK k \in DOMAIN builds[i] : last[i] = builds[i][k]
    BY <2>2
  <2>4. PICK l \in DOMAIN builds[j] : last[j] = builds[j][l]
    BY <2>2
  <2> HIDE DEF last
  <2>5. QED  BY <1>1, <1>2, <2>1, <2>3, <2>4 DEF RowsInv, IdsAreApart
<1>6. {c \in AllBuilds : c.id \in collection.latest} = N
  <2>1. \A id : id \in collection.latest <=> \E i \in B : id = last[i].id
    BY <1>1 DEF ReadsAreCurrent, Newest
  <2> HIDE DEF last, B
  <2>2. \A c \in AllBuilds : c.id \in collection.latest => c \in N
    BY <1>1, <1>3, <2>1, IdsTellRows
  <2>3. \A c \in N : c \in AllBuilds /\ c.id \in collection.latest
    BY <1>3, <2>1
  <2> HIDE DEF N
  <2>4. QED  BY <2>2, <2>3
<1>7. bad = UNION {b.bad : b \in N}
      /\ fails = {<<b.id, 0, b.kind>> : b \in {c \in N : c.status = "FAIL"}}
  <2>1. bad = BadOf(collection.latest) /\ fails = FailsOf(collection.latest)
    BY <1>1 DEF ReadsAreCurrent
  <2> HIDE DEF N, bad, fails
  <2>2. {c \in AllBuilds : c.id \in collection.latest /\ c.status = "FAIL"} = {c \in N : c.status = "FAIL"}
    BY <1>6
  <2>3. QED  BY <1>6, <2>1, <2>2 DEF BadOf, FailsOf
<1>8. \A b \in N : IsRow(b) /\ b \in AllBuilds
  BY <1>3
<1>9. \A b \in L : b \in N \/ b = NoBuild
  BY <1>3, <1>4
<1>10. N \subseteq L
  BY <1>2, <1>3
<1>11. IsFiniteSet(bad) /\ MapThenSumSet(LAMBDA b : Cardinality(b.bad), L) = Cardinality(bad)
  <2> DEFINE A == [b \in L |-> b.bad]
             latestOf == [i \in D |-> LatestBuild(i)]
  <2>1. IsFiniteSet(L)
    <3>1. L = {latestOf[i] : i \in D}
      OBVIOUS
    <3> HIDE DEF latestOf, L, D
    <3>2. QED  BY <1>2, <3>1, ImageIsFinite
  <2>2. NoBuild.bad = {}
    BY DEF NoBuild
  <2> HIDE DEF L, N, bad, D, B, F
  <2>3. \A b, c \in L : b # c => b.bad \cap c.bad = {}
    <3>1. SUFFICES ASSUME NEW b \in N, NEW c \in N, b # c PROVE b.bad \cap c.bad = {}
      BY <1>9, <2>2
    <3>2. b.id # c.id
      BY <1>1, <1>8, <3>1, IdsTellRows
    <3>3. QED  BY <1>8, <3>2 DEF IsRow
  <2>4. \A b \in L : IsFiniteSet(b.bad)
    BY <1>8, <1>9, <2>2, FS_EmptySet DEF IsRow
  <2>5. Apart(L, A)
    BY <2>3, <2>4 DEF Apart
  <2>6. Together(L, A) = bad
    <3>1. \A t : t \in Together(L, A) <=> \E b \in L : t \in b.bad
      BY DEF Together
    <3>2. \A t : t \in bad <=> \E b \in N : t \in b.bad
      BY <1>7
    <3>3. \A t : t \in Together(L, A) <=> t \in bad
      BY <1>9, <1>10, <2>2, <3>1, <3>2
    <3>4. QED  BY <3>3
  <2>7. \A b \in L : A[b] = b.bad
    OBVIOUS
  <2> HIDE DEF A
  <2>8. QED  BY <2>1, <2>5, <2>6, <2>7, SetOfSizes, TogetherIsFinite
<1>12. IsFiniteSet(fails) /\ collection.counts["FAIL"] = Cardinality(fails)
  <2> DEFINE f == [i \in F |-> <<last[i].id, 0, last[i].kind>>]
  <2>1. F \subseteq B
    <3>1. NoBuild.status # "FAIL"
      BY StatisticsAssumption DEF NoBuild
    <3>2. QED  BY <1>4, <3>1
  <2>2. \A i \in B : i \in F <=> last[i].status = "FAIL"
    BY <1>2, <1>3
  <2>3. \A t : t \in fails <=> \E i \in F : t = <<last[i].id, 0, last[i].kind>>
    <3>1. \A t : t \in fails <=> \E b \in N : b.status = "FAIL" /\ t = <<b.id, 0, b.kind>>
      BY <1>7
    <3> HIDE DEF F, last, B, fails
    <3>2. QED  BY <2>1, <2>2, <3>1
  <2>4. collection.counts["FAIL"] = Cardinality(F)
    BY <1>1 DEF ReadsAreCurrent, StatusCounts
  <2> HIDE DEF F, last, B, fails, D
  <2>5. f \in Surjection(F, fails) /\ f \in Injection(F, fails)
    <3>1. f \in [F -> fails] /\ \A t \in fails : \E i \in F : f[i] = t
      BY <2>3
    <3>2. \A i, j \in F : f[i] = f[j] => i = j
      BY <1>5, <2>1
    <3> HIDE DEF f
    <3>3. QED  BY <3>1, <3>2 DEF Surjection, Injection, IsInjective
  <2> HIDE DEF f
  <2>6. QED  BY <1>2, <2>4, <2>5, FS_Surjection
<1>13. bad \cap fails = {}
  <2> HIDE DEF N, bad, fails
  <2>1. SUFFICES ASSUME NEW b \in N, NEW c \in N, c.status = "FAIL", <<c.id, 0, c.kind>> \in b.bad PROVE FALSE
    BY <1>7
  <2>2. b.id = c.id /\ b.status = "BAD"
    BY <1>8, <2>1 DEF IsRow
  <2>3. QED  BY <1>1, <1>8, <2>1, <2>2, IdsTellRows
<1> HIDE DEF D, L, N, bad, fails
<1>14. /\ Cardinality(bad) \in Nat /\ Cardinality(fails) \in Nat
       /\ IsFiniteSet(bad \cup fails)
       /\ Cardinality(bad \cup fails) = Cardinality(bad) + Cardinality(fails) - Cardinality(bad \cap fails)
       /\ Cardinality(bad \cap fails) = 0
  BY <1>11, <1>12, <1>13, FS_CardinalityType, FS_Union, FS_EmptySet
<1>15. Cardinality(bad \cup fails)
       = MapThenSumSet(LAMBDA b : Cardinality(b.bad), L) + collection.counts["FAIL"]
  BY <1>11, <1>12, <1>14
<1>16. QED  BY <1>14, <1>15, Zenon DEF D, L, bad, fails

(* The breakdown of a snapshot accounts for every bad artifact and every   *)
(* failure that its counts know, in one category each, for any number of   *)
(* inputs and builds and any categories, if a build has finitely many bad  *)
(* artifacts.                                                              *)
THEOREM CategoriesAddUp ==
  ASSUME NEW CONSTANT badSets, \A bad \in badSets : IsFiniteSet(bad)
  PROVE  StatisticsSpec(badSets) => []CategoriesMatchCounts
<1>1. SnapshotInv => CategoriesMatchCounts
  <2> SUFFICES ASSUME SnapshotInv, collection.pc = "insert", ~collection.changed,
                      \A i \in InSnapshot(collection.combo) : InOrder(i)
               PROVE  LET latest == {LatestBuild(i) : i \in InSnapshot(collection.combo)}
                          known == MapThenSumSet(LAMBDA b : Cardinality(b.bad), latest)
                                   + collection.counts["FAIL"]
                      IN FoldSeq(LAMBDA a, b : a + b, 0, Categorized) + Cardinality(Uncategorized) = known
    BY Zenon DEF CategoriesMatchCounts
  <2> DEFINE categories == CategoriesFor(collection.combo.distribution)
             items == collection.bad \cup collection.fails
             arch == collection.combo.architecture
  <2>1. categories \in Seq(Categories)
    <3>1. collection.combo.distribution \in Backends
      BY DEF SnapshotInv, Reading, Combos
    <3>2. QED  BY <3>1, StatisticsAssumption DEF CategoriesFor
  <2>2. IsFiniteSet(items)
    BY ItemsAreKnown
  <2>3. Categorized = [k \in DOMAIN categories |->
                         Cardinality({item \in items : IsCategory(categories, arch, item[3], k)})]
    BY Zenon DEF Categorized
  <2>4. Uncategorized = {item \in items : \A k \in DOMAIN categories : ~Accepts(categories[k], arch, item[3])}
    BY Zenon DEF Uncategorized
  <2> HIDE DEF categories, items, arch
  <2>5. FoldSeq(LAMBDA a, b : a + b, 0, Categorized) + Cardinality(Uncategorized) = Cardinality(items)
    BY <2>1, <2>2, <2>3, <2>4, EachInOneCategory
  <2>6. QED  BY <2>5, ItemsAreKnown, Zenon DEF items
<1>2. QED  BY <1>1, SnapshotInvHolds, PTL
=============================================================================
