-------------------------- MODULE DynamoPagingProofs --------------------------
(***************************************************************************)
(* Theorems about DynamoPaging, for any number of items, readers, segments *)
(* and limits: the reads that resume after a unique key.                   *)
(***************************************************************************)
EXTENDS DynamoPaging, FiniteSetTheorems, TLAPS

-----------------------------------------------------------------------------
(* Ranks in a finite set of numbers. *)

\* j comes before k, in ascending or in descending order.
Before(desc, j, k) == IF desc THEN j > k ELSE j < k

RankIn(R, desc, k) == Cardinality({j \in R : Before(desc, j, k)})

\* A rank is a number below the size of the set.
LEMMA RankRange ==
    ASSUME NEW R \in SUBSET Nat, IsFiniteSet(R), NEW desc \in BOOLEAN, NEW k \in R
    PROVE  /\ Cardinality(R) \in Nat
           /\ RankIn(R, desc, k) \in Nat
           /\ RankIn(R, desc, k) < Cardinality(R)
<1> DEFINE B == {j \in R : Before(desc, j, k)}
<1>1. B \in SUBSET R /\ B # R
  <2>1. ~Before(desc, k, k)
    BY DEF Before
  <2> QED
    BY <2>1
<1>2. IsFiniteSet(B) /\ Cardinality(B) <= Cardinality(R) /\ Cardinality(R) # Cardinality(B)
  BY <1>1, FS_Subset
<1>3. Cardinality(B) \in Nat /\ Cardinality(R) \in Nat
  BY <1>2, FS_CardinalityType
<1> HIDE DEF B
<1>4. Cardinality(B) < Cardinality(R)
  BY <1>2, <1>3
<1> QED
  BY <1>3, <1>4 DEF RankIn, B

\* What comes before has the smaller rank.
LEMMA RankMonotone ==
    ASSUME NEW R \in SUBSET Nat, IsFiniteSet(R), NEW desc \in BOOLEAN,
           NEW j \in R, NEW k \in R, Before(desc, j, k)
    PROVE  RankIn(R, desc, j) < RankIn(R, desc, k)
<1> DEFINE A == {i \in R : Before(desc, i, j)}
           B == {i \in R : Before(desc, i, k)}
<1>1. A \in SUBSET B
  <2> SUFFICES ASSUME NEW i \in R, Before(desc, i, j) PROVE Before(desc, i, k)
    OBVIOUS
  <2>1. i \in Int /\ j \in Int /\ k \in Int
    OBVIOUS
  <2> QED
    BY <2>1 DEF Before
<1>2. j \in B /\ j \notin A
  BY DEF Before
<1>3. B \in SUBSET R
  OBVIOUS
<1> HIDE DEF A, B
<1>4. IsFiniteSet(B)
  BY <1>3, FS_Subset
<1>5. IsFiniteSet(A) /\ Cardinality(A) <= Cardinality(B) /\ Cardinality(B) # Cardinality(A)
  BY <1>1, <1>2, <1>4, FS_Subset
<1>6. Cardinality(A) \in Nat /\ Cardinality(B) \in Nat
  BY <1>4, <1>5, FS_CardinalityType
<1>7. Cardinality(A) < Cardinality(B)
  BY <1>5, <1>6
<1> QED
  BY <1>7 DEF RankIn, A, B

\* Of two elements one comes before the other.
LEMMA BeforeTotal ==
    ASSUME NEW desc \in BOOLEAN, NEW j \in Nat, NEW k \in Nat, j # k
    PROVE  Before(desc, j, k) \/ Before(desc, k, j)
BY DEF Before

\* Every number below the size of the set is the rank of some element.
LEMMA RankOnto ==
    ASSUME NEW R \in SUBSET Nat, IsFiniteSet(R), NEW desc \in BOOLEAN,
           NEW n \in Nat, n < Cardinality(R)
    PROVE  \E k \in R : RankIn(R, desc, k) = n
<1> DEFINE N == Cardinality(R)
           T == 0..(N - 1)
           f == [k \in R |-> RankIn(R, desc, k)]
<1>1. N \in Nat /\ N >= 1
  BY FS_CardinalityType
<1>2. IsFiniteSet(T) /\ Cardinality(T) = N
  <2>1. 0 \in Int /\ N - 1 \in Int /\ ~(0 > N - 1) /\ (N - 1) - 0 + 1 = N
    BY <1>1
  <2> HIDE DEF N
  <2> QED
    BY <2>1, FS_Interval
<1>3. f \in [R -> T]
  <2> SUFFICES ASSUME NEW k \in R PROVE RankIn(R, desc, k) \in T
    OBVIOUS
  <2>1. RankIn(R, desc, k) \in Nat /\ RankIn(R, desc, k) < N
    BY RankRange
  <2> QED
    BY <1>1, <2>1
<1>4. ASSUME NEW j \in R, NEW k \in R, f[j] = f[k] PROVE j = k
  <2> SUFFICES ASSUME j # k PROVE FALSE
    OBVIOUS
  <2>1. RankIn(R, desc, j) \in Nat /\ RankIn(R, desc, k) \in Nat
    BY RankRange
  <2>2. RankIn(R, desc, j) < RankIn(R, desc, k) \/ RankIn(R, desc, k) < RankIn(R, desc, j)
    BY RankMonotone, BeforeTotal
  <2> QED
    BY <1>4, <2>1, <2>2
<1>5. f \in Injection(R, T)
  BY <1>3, <1>4 DEF Injection, IsInjective
<1>6. f \in Surjection(R, T)
  <2> HIDE DEF f, T
  <2> QED
    BY <1>2, <1>5, FS_Injection
<1>7. n \in T
  BY <1>1
<1>8. \E k \in R : f[k] = n
  BY <1>6, <1>7 DEF Surjection
<1> QED
  BY <1>8

-----------------------------------------------------------------------------
(* A page. *)

\* The reads that are sorted by a unique key and resume after it.
KeyModes == {"scan", "segment", "query_desc", "list_streams"}

PresentIn(v) == {k \in Items : v[k] # 0}
SegmentIn(v, seg) ==
    {k \in PresentIn(v) : Cardinality({j \in PresentIn(v) : j < k}) % TotalSegments = seg}
ListedIn(v, p) == IF p.mode = "segment" THEN SegmentIn(v, p.seg) ELSE PresentIn(v)

\* The cursor has come to k.
Passed(p, k) == p.cur # 0 /\ (IF Descending(p.mode) THEN k >= p.cur ELSE k <= p.cur)

\* The items that reader p has been promised, if the values are v.
Owed(v, p) ==
    CASE p.mode = "segment"      -> IF p.quiet THEN SegmentIn(v, p.seg) ELSE {}
      [] p.mode = "list_streams" -> IF p.quiet THEN p.steady ELSE {}
      [] OTHER                   -> p.steady

PagerInv(v, p) ==
    /\ p \in Pager /\ p.mode \in KeyModes /\ p.seg \in 0..(TotalSegments - 1)
    /\ p.twice = {}
    /\ p.steady \subseteq PresentIn(v)
    /\ p.state = "open" =>
          /\ \A k \in p.got : Passed(p, k)
          /\ \A k \in Owed(v, p) : k \in p.got \/ ~Passed(p, k)
          /\ p.quiet /\ p.cur # 0 => p.cur \in PresentIn(v)
    /\ p.state = "done" => Owed(v, p) \subseteq p.got
    /\ p.mode = "segment" /\ p.quiet => p.got \subseteq SegmentIn(v, p.seg)

PagingInv ==
    /\ val \in [Items -> SortVals \cup {0}]
    /\ pager \in [Clients -> Pager]
    /\ \A c \in Clients : PagerInv(val, pager[c])

LEMMA ListedParts ==
    ASSUME NEW p
    PROVE  /\ Present = PresentIn(val)
           /\ Listed(p) = ListedIn(val, p)
           /\ Listed(p) \subseteq Present /\ Present \subseteq Items
           /\ Rest(p) \subseteq Listed(p) /\ Rest(p) \in SUBSET Nat /\ IsFiniteSet(Rest(p))
<1>1. Present = PresentIn(val) /\ Present \subseteq Items
  BY DEF Present, PresentIn
<1>2. Listed(p) = ListedIn(val, p) /\ Listed(p) \subseteq Present
  BY <1>1 DEF Listed, ListedIn, Segment, SegmentIn
<1>3. Rest(p) \subseteq Listed(p)
  BY DEF Rest
<1>4. Rest(p) \in SUBSET Items /\ Rest(p) \in SUBSET Nat
  BY <1>1, <1>2, <1>3, PagingAssumption
<1>5. IsFiniteSet(Rest(p))
  BY <1>4, FS_Subset, PagingAssumption
<1> QED
  BY <1>1, <1>2, <1>3, <1>4, <1>5

\* The rank in a page, for the reads by key.
LEMMA RankIs ==
    ASSUME NEW p, p.mode \in KeyModes, NEW k \in Nat
    PROVE  Rank(p, k) = RankIn(Rest(p), Descending(p.mode), k)
<1>1. ASSUME NEW j \in Rest(p)
      PROVE  Precedes(p.mode, j, k) <=> Before(Descending(p.mode), j, k)
  <2>1. SortKey(p.mode, j) = j /\ SortKey(p.mode, k) = k
    BY DEF SortKey, KeyModes
  <2>2. j \in Nat
    BY ListedParts
  <2> QED
    BY <2>1, <2>2 DEF Precedes, Before
<1>2. {j \in Rest(p) : Precedes(p.mode, j, k)} = {j \in Rest(p) : Before(Descending(p.mode), j, k)}
  BY <1>1
<1> QED
  BY <1>2 DEF Rank, RankIn

\* When there is more, the cursor is the last item of the page: the page is what comes up to
\* it in the rest.
LEMMA PageEndsAtCursor ==
    ASSUME NEW p, p.mode \in KeyModes, NEW limit \in Nat \ {0}, More(p, limit)
    PROVE  /\ Last(p, limit) \in PageOf(p, limit)
           /\ \A k \in Rest(p) :
                 k \in PageOf(p, limit) <=> ~Before(Descending(p.mode), Last(p, limit), k)
<1> DEFINE R == Rest(p)
           d == Descending(p.mode)
           l == Last(p, limit)
<1>1. R \in SUBSET Nat /\ IsFiniteSet(R) /\ d \in BOOLEAN /\ Cardinality(R) \in Nat
  BY ListedParts, FS_CardinalityType DEF Descending
<1>2. \A k \in R : Rank(p, k) = RankIn(R, d, k) /\ RankIn(R, d, k) \in Nat
  BY <1>1, RankIs, RankRange
<1>3. l \in PageOf(p, limit) /\ Rank(p, l) = limit - 1
  <2>1. limit - 1 \in Nat /\ limit - 1 < Cardinality(R)
    BY <1>1 DEF More
  <2>2. PICK k \in R : RankIn(R, d, k) = limit - 1
    BY <1>1, <2>1, RankOnto
  <2>3. k \in PageOf(p, limit) /\ Rank(p, k) = limit - 1
    BY <1>2, <2>2 DEF PageOf
  <2> QED
    BY <2>3 DEF Last
<1>4. l \in R /\ l \in Nat
  BY <1>1, <1>3 DEF PageOf
<1>5. ASSUME NEW k \in R PROVE k \in PageOf(p, limit) <=> ~Before(d, l, k)
  <2>0. k \in Nat /\ Rank(p, k) \in Nat
    BY <1>1, <1>2
  <2>1. CASE k = l
    <3>1. ~Before(d, l, l)
      BY <1>4 DEF Before
    <3> QED
      BY <1>3, <2>1, <3>1
  <2>2. CASE Before(d, l, k)
    <3>1. limit - 1 < Rank(p, k)
      BY <1>1, <1>2, <1>3, <1>4, <2>2, RankMonotone
    <3>2. ~(Rank(p, k) < limit)
      BY <2>0, <3>1
    <3> QED
      BY <2>2, <3>2 DEF PageOf
  <2>3. CASE Before(d, k, l)
    <3>1. Rank(p, k) < limit - 1
      BY <1>1, <1>2, <1>3, <1>4, <2>3, RankMonotone
    <3>2. Rank(p, k) < limit /\ ~Before(d, l, k)
      BY <1>4, <2>0, <2>3, <3>1 DEF Before
    <3> QED
      BY <3>2 DEF PageOf
  <2> QED
    BY <1>1, <1>4, <2>0, <2>1, <2>2, <2>3, BeforeTotal
<1> QED
  BY <1>3, <1>5

\* When there is no more, the page is all of the rest.
LEMMA LastPage ==
    ASSUME NEW p, p.mode \in KeyModes, NEW limit \in Nat \ {0}, ~More(p, limit)
    PROVE  PageOf(p, limit) = Rest(p)
<1> DEFINE R == Rest(p)
           d == Descending(p.mode)
<1>1. R \in SUBSET Nat /\ IsFiniteSet(R) /\ d \in BOOLEAN /\ Cardinality(R) \in Nat
  BY ListedParts, FS_CardinalityType DEF Descending
<1>2. ASSUME NEW k \in R PROVE Rank(p, k) < limit
  <2>1. Rank(p, k) = RankIn(R, d, k) /\ RankIn(R, d, k) \in Nat /\ RankIn(R, d, k) < Cardinality(R)
    BY <1>1, RankIs, RankRange
  <2> QED
    BY <1>1, <2>1 DEF More
<1> QED
  BY <1>2 DEF PageOf

\* What comes after the cursor is what the cursor has not come to.
LEMMA RestIs ==
    ASSUME NEW p, p.mode \in KeyModes, p.cur \in Nat,
           p.mode = "list_streams" /\ p.cur # 0 => p.cur \in Present, NEW k \in Listed(p)
    PROVE  k \in Rest(p) <=> ~Passed(p, k)
<1>1. k \in Nat
  BY ListedParts, PagingAssumption
<1>2. SortKey(p.mode, k) = k /\ p.mode # "hash_index"
  BY DEF SortKey, KeyModes
<1>3. CASE p.cur = 0
  BY <1>3 DEF Rest, Passed
<1>4. CASE p.cur # 0
  <2>1. AfterCursor(p, k) <=> (IF Descending(p.mode) THEN k < p.cur ELSE k > p.cur)
    BY <1>2, <1>4 DEF AfterCursor, Descending
  <2> QED
    BY <1>1, <1>4, <2>1 DEF Rest, Passed
<1> QED
  BY <1>3, <1>4

\* A page never goes back behind the cursor.
LEMMA RestIsNew ==
    ASSUME NEW p, p.mode \in KeyModes, p.cur \in Nat, NEW k \in Rest(p)
    PROVE  ~Passed(p, k)
<1>1. k \in Nat
  BY ListedParts
<1>2. SortKey(p.mode, k) = k /\ p.mode # "hash_index"
  BY DEF SortKey, KeyModes
<1>3. CASE p.cur # 0
  <2>1. AfterCursor(p, k)
    BY <1>3 DEF Rest
  <2>2. IF Descending(p.mode) THEN k < p.cur ELSE k > p.cur
    BY <1>2, <2>1 DEF AfterCursor, Descending
  <2> QED
    BY <1>1, <2>2 DEF Passed
<1> QED
  BY <1>3 DEF Passed

-----------------------------------------------------------------------------
(* The invariant. *)

LEMMA PagingInit == Init => PagingInv
<1> SUFFICES ASSUME Init PROVE PagingInv
  OBVIOUS
<1> DEFINE p == [state |-> "idle", mode |-> "scan", seg |-> 0, cur |-> 0,
                 got |-> {}, twice |-> {}, steady |-> {}, quiet |-> FALSE]
<1>1. p \in Pager
  BY DEF Pager, AllModes
<1>2. PagerInv(val, p)
  BY <1>1, PagingAssumption DEF PagerInv, KeyModes
<1>3. pager = [c \in Clients |-> p]
  BY DEF Init
<1> HIDE DEF p
<1> QED
  BY <1>1, <1>2, <1>3 DEF Init, PagingInv

\* Only the reader that takes a step changes.
LEMMA OneReader ==
    ASSUME PagingInv, NEW c \in Clients, NEW q, PagerInv(val, q), val' = val,
           pager' = [pager EXCEPT ![c] = q]
    PROVE  PagingInv'
<1>1. q \in Pager
  BY DEF PagerInv
<1>2. pager' \in [Clients -> Pager]
  BY <1>1 DEF PagingInv
<1>3. ASSUME NEW d \in Clients PROVE PagerInv(val, pager'[d])
  BY <1>3 DEF PagingInv
<1> QED
  BY <1>2, <1>3 DEF PagingInv

LEMMA PagingOpen ==
    ASSUME PagingInv, Modes \subseteq KeyModes, NEW c \in Clients, Opens(c)
    PROVE  PagingInv'
<1>1. PICK mode \in Modes, seg \in 0..(TotalSegments - 1) : Open(c, mode, seg)
  BY PagingAssumption DEF Opens
<1> DEFINE q == [state |-> "open", mode |-> mode, seg |-> seg, cur |-> 0,
                 got |-> {}, twice |-> {}, steady |-> Present, quiet |-> TRUE]
<1>2. q \in Pager
  BY <1>1, ListedParts, PagingAssumption DEF Pager, Present
<1>3. /\ q.state = "open" /\ q.mode = mode /\ q.seg = seg /\ q.cur = 0 /\ q.got = {}
      /\ q.twice = {} /\ q.steady = Present
  OBVIOUS
<1>4. pager' = [pager EXCEPT ![c] = q] /\ val' = val
  BY <1>1 DEF Open
<1> HIDE DEF q
<1>5. PagerInv(val, q)
  BY <1>2, <1>3, ListedParts DEF PagerInv, Passed
<1> QED
  BY <1>4, <1>5, OneReader

LEMMA PagingPage ==
    ASSUME PagingInv, NEW c \in Clients, NEW limit \in Limits, NextPage(c, limit)
    PROVE  PagingInv'
<1> DEFINE p == pager[c]
           page == PageOf(p, limit)
           more == More(p, limit)
           l == Last(p, limit)
           q == pager'[c]
           d == Descending(p.mode)
<1>1. PagerInv(val, p) /\ p \in Pager /\ p.mode \in KeyModes /\ p.cur \in Nat /\ p.state = "open"
      /\ limit \in Nat \ {0} /\ p.got \subseteq Items
  BY PagingAssumption DEF PagingInv, PagerInv, Pager, NextPage
<1>2. page \subseteq Rest(p) /\ page \subseteq Items
  BY ListedParts DEF PageOf
<1>3. more => l \in page /\ l \in Items /\ l \in Nat /\ l # 0 /\ SortKey(p.mode, l) = l
  <2>1. ASSUME more PROVE l \in page
    BY <1>1, <2>1, PageEndsAtCursor
  <2>2. SortKey(p.mode, l) = l
    BY <1>1 DEF SortKey, KeyModes
  <2> QED
    BY <1>2, <2>1, <2>2, PagingAssumption
<1>4. q = [p EXCEPT !.got = @ \cup page, !.twice = @ \cup (p.got \cap page),
                    !.state = IF more THEN "open" ELSE "done",
                    !.cur = IF more THEN SortKey(p.mode, l) ELSE 0]
      /\ pager' = [pager EXCEPT ![c] = q] /\ val' = val
  BY DEF NextPage, PagingInv
<1> HIDE DEF page, more, l
<1>5. /\ q.mode = p.mode /\ q.seg = p.seg /\ q.steady = p.steady /\ q.quiet = p.quiet
      /\ q.got = p.got \cup page /\ q.twice = p.twice \cup (p.got \cap page)
      /\ q.state = (IF more THEN "open" ELSE "done") /\ q.cur = (IF more THEN l ELSE 0)
  <2>1. q.cur = (IF more THEN SortKey(p.mode, l) ELSE 0)
    BY <1>1, <1>4 DEF Pager
  <2>2. /\ q.mode = p.mode /\ q.seg = p.seg /\ q.steady = p.steady /\ q.quiet = p.quiet
        /\ q.got = p.got \cup page /\ q.twice = p.twice \cup (p.got \cap page)
        /\ q.state = (IF more THEN "open" ELSE "done")
    BY <1>1, <1>4 DEF Pager
  <2> QED
    BY <1>3, <2>1, <2>2
<1>6. q \in Pager
  <2>1. (IF more THEN SortKey(p.mode, l) ELSE 0) \in Nat
    BY <1>3
  <2>2. p.got \cup page \in SUBSET Items /\ p.twice \cup (p.got \cap page) \in SUBSET Items
    BY <1>1, <1>2 DEF Pager
  <2>3. (IF more THEN "open" ELSE "done") \in {"idle", "open", "done"}
    OBVIOUS
  <2> QED
    BY <1>1, <1>4, <2>1, <2>2, <2>3 DEF Pager
<1>7. \A k \in page : ~Passed(p, k)
  BY <1>1, <1>2, RestIsNew
<1>8. q.twice = {}
  BY <1>1, <1>5, <1>7 DEF PagerInv
<1>9. Owed(val, q) = Owed(val, p) /\ Owed(val, p) \subseteq Listed(p)
  <2>1. Owed(val, q) = Owed(val, p)
    BY <1>5 DEF Owed
  <2>2. Owed(val, p) \subseteq Listed(p)
    BY <1>1, ListedParts DEF Owed, ListedIn, PagerInv
  <2> QED
    BY <2>1, <2>2
<1>10. \A k \in Owed(val, p) : k \in p.got \/ k \in Rest(p)
  <2> SUFFICES ASSUME NEW k \in Owed(val, p), k \notin p.got PROVE k \in Rest(p)
    OBVIOUS
  <2>1. ~Passed(p, k)
    BY <1>1 DEF PagerInv
  <2>2. p.mode = "list_streams" /\ p.cur # 0 => p.cur \in Present
    BY <1>1, ListedParts DEF PagerInv, Owed
  <2> QED
    BY <1>1, <1>9, <2>1, <2>2, RestIs
<1>11. p.mode = "segment" /\ p.quiet => page \subseteq SegmentIn(val, p.seg)
  BY <1>2, ListedParts DEF ListedIn
<1>12. PagerInv(val, q)
  <2>1. q.state = "open" => /\ \A k \in q.got : Passed(q, k)
                            /\ \A k \in Owed(val, q) : k \in q.got \/ ~Passed(q, k)
                            /\ q.quiet /\ q.cur # 0 => q.cur \in PresentIn(val)
    <3> SUFFICES ASSUME more
                 PROVE  /\ \A k \in q.got : Passed(q, k)
                        /\ \A k \in Owed(val, q) : k \in q.got \/ ~Passed(q, k)
                        /\ q.cur \in PresentIn(val)
      BY <1>5
    <3>1. /\ l \in page
          /\ \A k \in Rest(p) : k \in page <=> ~Before(d, l, k)
      BY <1>1, PageEndsAtCursor DEF page, more, l
    <3>2. \A k \in Nat : Passed(q, k) <=> ~Before(d, l, k)
      BY <1>3, <1>5 DEF Passed, Before
    <3>3. ASSUME NEW k \in p.got PROVE Passed(q, k)
      <4>1. Passed(p, k) /\ k \in Nat /\ ~Passed(p, l)
        BY <1>1, <1>7, <3>1, PagingAssumption DEF PagerInv
      <4>2. ~Before(d, l, k)
        BY <1>1, <1>3, <4>1 DEF Passed, Before
      <4> QED
        BY <3>2, <4>1, <4>2
    <3>4. ASSUME NEW k \in page PROVE Passed(q, k)
      <4>1. k \in Nat /\ k \in Rest(p)
        BY <1>2, PagingAssumption
      <4> QED
        BY <3>1, <3>2, <4>1
    <3>5. ASSUME NEW k \in Owed(val, q) PROVE k \in q.got \/ ~Passed(q, k)
      <4>1. CASE k \in p.got
        BY <1>5, <4>1
      <4>2. CASE k \in Rest(p)
        <5>1. k \in Nat
          BY <4>2, ListedParts
        <5> QED
          BY <1>5, <3>1, <3>2, <4>2, <5>1
      <4> QED
        BY <1>9, <1>10, <4>1, <4>2
    <3>6. q.cur \in PresentIn(val)
      BY <1>2, <1>3, <1>5, ListedParts
    <3> QED
      BY <1>5, <3>3, <3>4, <3>5, <3>6
  <2>2. q.state = "done" => Owed(val, q) \subseteq q.got
    <3> SUFFICES ASSUME ~more PROVE Owed(val, q) \subseteq q.got
      BY <1>5
    <3>1. page = Rest(p)
      BY <1>1, LastPage DEF page, more
    <3> QED
      BY <1>5, <1>9, <1>10, <3>1
  <2>3. q.mode = "segment" /\ q.quiet => q.got \subseteq SegmentIn(val, q.seg)
    BY <1>1, <1>5, <1>11 DEF PagerInv
  <2> HIDE DEF p, q
  <2> QED
    BY <1>1, <1>5, <1>6, <1>8, <2>1, <2>2, <2>3 DEF PagerInv
<1> QED
  BY <1>4, <1>12, OneReader

LEMMA PagingWrite ==
    ASSUME PagingInv, NEW k \in Items, NEW v \in SortVals \cup {0}, Write(k, v)
    PROVE  PagingInv'
<1>1. val' = [val EXCEPT ![k] = v] /\ val' \in [Items -> SortVals \cup {0}]
  BY DEF Write, PagingInv
<1>2. ASSUME NEW c \in Clients PROVE PagerInv(val', pager'[c])
  <2> DEFINE p == pager[c]
             q == pager'[c]
  <2>1. PagerInv(val, p) /\ p \in Pager
    BY DEF PagingInv, PagerInv
  <2>2. q = [p EXCEPT !.steady = @ \ {k}, !.quiet = FALSE]
    BY DEF Write
  <2>3. /\ q.state = p.state /\ q.mode = p.mode /\ q.seg = p.seg /\ q.cur = p.cur
        /\ q.got = p.got /\ q.twice = p.twice /\ q.steady = p.steady \ {k} /\ ~q.quiet
        /\ q \in Pager
    BY <2>1, <2>2 DEF Pager
  <2> HIDE DEF p, q
  <2>4. Owed(val', q) \subseteq Owed(val, p)
    BY <2>3 DEF Owed
  <2>5. q.steady \subseteq PresentIn(val')
    BY <1>1, <2>1, <2>3 DEF PagerInv, PresentIn, PagingInv
  <2>6. \A j : Passed(q, j) <=> Passed(p, j)
    BY <2>3 DEF Passed
  <2>7. PagerInv(val', q)
    BY <2>1, <2>3, <2>4, <2>5, <2>6 DEF PagerInv
  <2> QED
    BY <2>7 DEF q
<1>3. pager' \in [Clients -> Pager]
  <2>1. \A c \in Clients : pager'[c] \in Pager
    BY <1>2 DEF PagerInv
  <2>2. DOMAIN pager' = Clients /\ pager' = [c \in Clients |-> pager'[c]]
    BY DEF Write
  <2> QED
    BY <2>1, <2>2
<1> QED
  BY <1>1, <1>2, <1>3 DEF PagingInv

LEMMA PagingInvariant == ASSUME Modes \subseteq KeyModes PROVE Spec => []PagingInv
<1>1. PagingInv /\ [Next]_vars => PagingInv'
  <2> SUFFICES ASSUME PagingInv, [Next]_vars PROVE PagingInv'
    OBVIOUS
  <2>1. CASE UNCHANGED vars
    BY <2>1 DEF vars, PagingInv
  <2> QED
    BY <2>1, PagingOpen, PagingPage, PagingWrite DEF Next, Page
<1> QED
  BY <1>1, PagingInit, PTL DEF Spec

-----------------------------------------------------------------------------
(* Theorems. *)

\* A client of a read that resumes after a unique key has been given, when it reaches the last
\* page, every item that was there, unchanged, all the time: whatever its limits, and whatever
\* was written between two pages (for ListStreams: if nothing was).
THEOREM PagesSkipNothing == ASSUME Modes \subseteq KeyModes PROVE Spec => []NothingSkipped
<1>1. PagingInv => NothingSkipped
  <2> SUFFICES ASSUME PagingInv, NEW c \in Clients, pager[c].state = "done",
                      pager[c].mode # "segment", pager[c].mode = "list_streams" => pager[c].quiet
               PROVE  pager[c].steady \subseteq pager[c].got
    BY DEF NothingSkipped
  <2>1. Owed(val, pager[c]) = pager[c].steady
    BY DEF Owed
  <2> QED
    BY <2>1 DEF PagingInv, PagerInv
<1> QED
  BY <1>1, PagingInvariant, PTL

\* No page gives an item that an earlier page of the same read has given, whether it has
\* changed or not: what was returned lies behind the cursor, and the pages ahead of it.
THEOREM PagesRepeatNothing ==
    ASSUME Modes \subseteq KeyModes
    PROVE  Spec => [](NothingTwice /\ \A c \in Clients : pager[c].twice = {})
<1>1. PagingInv => NothingTwice /\ \A c \in Clients : pager[c].twice = {}
  BY DEF PagingInv, PagerInv, NothingTwice
<1> QED
  BY <1>1, PagingInvariant, PTL

\* Together the segments of a parallel scan (storage_query.go) return every item once, page
\* by page and whatever their limits, as long as nothing is written.
SegmentsPartition ==
    LET ended == {c \in Clients : /\ pager[c].state = "done" /\ pager[c].quiet
                                  /\ pager[c].mode = "segment"}
    IN /\ \A c, d \in ended : pager[c].seg # pager[d].seg => pager[c].got \cap pager[d].got = {}
       /\ {pager[c].seg : c \in ended} = 0..(TotalSegments - 1)
             => UNION {pager[c].got : c \in ended} = Present

\* A parallel scan during which nothing is written: two segments have no item in common, and
\* all of them together have every item, whatever the limits and however their pages
\* alternate.
THEOREM SegmentsCoverTheTable ==
    ASSUME Modes \subseteq KeyModes
    PROVE  Spec => []SegmentsPartition
<1>1. PagingInv => SegmentsPartition
  <2> SUFFICES ASSUME PagingInv PROVE SegmentsPartition
    OBVIOUS
  <2> DEFINE ended == {c \in Clients : /\ pager[c].state = "done" /\ pager[c].quiet
                                       /\ pager[c].mode = "segment"}
  <2>1. ASSUME NEW c \in ended PROVE pager[c].got = SegmentIn(val, pager[c].seg)
    <3>1. PagerInv(val, pager[c]) /\ Owed(val, pager[c]) = SegmentIn(val, pager[c].seg)
      BY DEF PagingInv, Owed
    <3> QED
      BY <3>1 DEF PagerInv
  <2>2. ASSUME NEW c \in ended, NEW d \in ended, pager[c].seg # pager[d].seg
        PROVE  pager[c].got \cap pager[d].got = {}
    <3>1. SegmentIn(val, pager[c].seg) \cap SegmentIn(val, pager[d].seg) = {}
      BY <2>2 DEF SegmentIn
    <3> QED
      BY <2>1, <3>1
  <2>3. ASSUME {pager[c].seg : c \in ended} = 0..(TotalSegments - 1)
        PROVE  UNION {pager[c].got : c \in ended} = Present
    <3>0. Present = PresentIn(val)
      BY DEF Present, PresentIn
    <3>1. ASSUME NEW c \in ended, NEW k \in pager[c].got PROVE k \in Present
      BY <2>1, <3>0 DEF SegmentIn
    <3>2. ASSUME NEW k \in Present PROVE \E c \in ended : k \in pager[c].got
      <4> DEFINE B == {j \in Present : j < k}
                 r == Cardinality(B) % TotalSegments
      <4>1. Cardinality(B) \in Nat
        <5>1. B \in SUBSET Items
          BY DEF Present
        <5>2. IsFiniteSet(B)
          BY <5>1, FS_Subset, PagingAssumption
        <5> QED
          BY <5>2, FS_CardinalityType
      <4>2. r \in 0..(TotalSegments - 1)
        <5> HIDE DEF B
        <5> QED
          BY <4>1, PagingAssumption
      <4>3. PICK c \in ended : pager[c].seg = r
        BY <2>3, <4>2
      <4>4. k \in SegmentIn(val, r)
        BY <3>0 DEF SegmentIn
      <4> QED
        BY <2>1, <4>3, <4>4
    <3> QED
      BY <3>1, <3>2
  <2> QED
    BY <2>2, <2>3 DEF SegmentsPartition
<1> QED
  BY <1>1, PagingInvariant, PTL
=============================================================================
