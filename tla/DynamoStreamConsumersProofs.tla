--------------------- MODULE DynamoStreamConsumersProofs ---------------------
(***************************************************************************)
(* Theorems about DynamoStreamConsumers: what a client that follows its     *)
(* iterators can count on, for any number of clients, limits and calls.     *)
(***************************************************************************)
EXTENDS DynamoStreamConsumers, DynamoStreamsProofs, FiniteSetTheorems, SequenceTheorems

-----------------------------------------------------------------------------
(* Slices of records as sets of numbered records. *)

\* The records carry different numbers, none above top.
Numbered(recs, top) ==
    /\ recs \subseteq Record
    /\ \A r \in recs : r.n \in 1..top
    /\ \A r, s \in recs : r.n = s.n => r = s

LEMMA NumberedSubset ==
    ASSUME NEW B, NEW top, Numbered(B, top), NEW A \in SUBSET B
    PROVE  Numbered(A, top)
BY DEF Numbered

LEMMA NumberedFinite ==
    ASSUME NEW top \in Nat, NEW recs, Numbered(recs, top)
    PROVE  IsFiniteSet(recs) /\ Cardinality(recs) \in Nat
<1> DEFINE f == [r \in recs |-> r.n]
           T == 1..top
<1>1. f \in Injection(recs, T)
  BY DEF Numbered, Injection, IsInjective
<1>2. IsFiniteSet(T)
  BY FS_Interval
<1> HIDE DEF f, T
<1>3. IsFiniteSet(recs)
  BY <1>1, <1>2, FS_Injection
<1> QED BY <1>3, FS_CardinalityType

\* A rank is an index into the slice.
LEMMA RankRange ==
    ASSUME NEW top \in Nat, NEW recs, Numbered(recs, top), NEW r \in recs
    PROVE  Rank(recs, r) \in Nat /\ Rank(recs, r) < Cardinality(recs)
<1> DEFINE B == {s \in recs : s.n < r.n}
<1>1. B \in SUBSET recs /\ B # recs
  BY DEF Numbered, Record
<1>2. IsFiniteSet(recs) /\ Cardinality(recs) \in Nat
  BY NumberedFinite
<1> HIDE DEF B
<1>3. IsFiniteSet(B) /\ Cardinality(B) <= Cardinality(recs) /\ Cardinality(recs) # Cardinality(B)
  BY <1>1, <1>2, FS_Subset
<1>4. Cardinality(B) \in Nat
  BY <1>3, FS_CardinalityType
<1>5. Cardinality(B) < Cardinality(recs)
  BY <1>2, <1>3, <1>4
<1> QED BY <1>4, <1>5 DEF Rank, B

\* The slice is in the order of the numbers.
LEMMA RankOrder ==
    ASSUME NEW top \in Nat, NEW recs, Numbered(recs, top), NEW r \in recs, NEW s \in recs
    PROVE  r.n < s.n <=> Rank(recs, r) < Rank(recs, s)
<1> DEFINE A(x) == {y \in recs : y.n < x.n}
<1>1. \A x \in recs : x.n \in Nat /\ Rank(recs, x) \in Nat
  BY RankRange DEF Numbered, Record
<1>2. ASSUME NEW x \in recs, NEW y \in recs, x.n < y.n PROVE Rank(recs, x) < Rank(recs, y)
  <2>1. A(x) \in SUBSET A(y) /\ A(y) \in SUBSET recs
    BY <1>1, <1>2
  <2>2. x \in A(y) /\ x \notin A(x)
    BY <1>1, <1>2
  <2>3. IsFiniteSet(recs) /\ Cardinality(A(x)) = Rank(recs, x) /\ Cardinality(A(y)) = Rank(recs, y)
    BY NumberedFinite DEF Rank
  <2> HIDE DEF A
  <2>4. IsFiniteSet(A(y))
    BY <2>1, <2>3, FS_Subset
  <2>5. Cardinality(A(x)) <= Cardinality(A(y)) /\ Cardinality(A(y)) # Cardinality(A(x))
    BY <2>1, <2>2, <2>4, FS_Subset
  <2> QED BY <1>1, <2>3, <2>5
<1>3. CASE r.n < s.n
  BY <1>2, <1>3
<1>4. CASE s.n < r.n
  BY <1>1, <1>2, <1>4
<1>5. CASE r.n = s.n
  BY <1>1, <1>5 DEF Numbered
<1> QED BY <1>1, <1>3, <1>4, <1>5

\* Every index below the length is the index of a record.
LEMMA RankOnto ==
    ASSUME NEW top \in Nat, NEW recs, Numbered(recs, top),
           NEW i \in Nat, i < Cardinality(recs)
    PROVE  \E r \in recs : Rank(recs, r) = i
<1> DEFINE N == Cardinality(recs)
           T == 0..(N - 1)
           f == [r \in recs |-> Rank(recs, r)]
<1>1. N \in Nat /\ N >= 1
  BY NumberedFinite
<1>2. IsFiniteSet(T) /\ Cardinality(T) = N
  <2>1. 0 \in Int /\ N - 1 \in Int /\ ~(0 > N - 1) /\ (N - 1) - 0 + 1 = N
    BY <1>1
  <2> HIDE DEF N
  <2> QED BY <2>1, FS_Interval
<1>3. f \in [recs -> T]
  <2> SUFFICES ASSUME NEW r \in recs PROVE Rank(recs, r) \in T
    OBVIOUS
  <2>1. Rank(recs, r) \in Nat /\ Rank(recs, r) < N
    BY RankRange
  <2> QED BY <1>1, <2>1
<1>4. ASSUME NEW r \in recs, NEW s \in recs, f[r] = f[s] PROVE r = s
  <2>1. Rank(recs, r) \in Nat /\ Rank(recs, r) = Rank(recs, s) /\ r.n \in Nat /\ s.n \in Nat
    BY <1>4, RankRange DEF Numbered, Record
  <2>2. ~(r.n < s.n) /\ ~(s.n < r.n)
    BY <2>1, RankOrder
  <2> QED BY <2>1, <2>2 DEF Numbered
<1>5. f \in Injection(recs, T)
  BY <1>3, <1>4 DEF Injection, IsInjective
<1>6. f \in Surjection(recs, T)
  <2> HIDE DEF f, T
  <2> QED BY <1>2, <1>5, FS_Injection
<1>7. i \in T
  BY <1>1
<1>8. \E r \in recs : f[r] = i
  BY <1>6, <1>7 DEF Surjection
<1> QED BY <1>8

Ascending(s) == \A i, j \in DOMAIN s : i < j => s[i] < s[j]

\* A batch is delivered as the ascending sequence of its numbers.
LEMMA BatchInOrder ==
    ASSUME NEW top \in Nat, NEW recs, Numbered(recs, top)
    PROVE  /\ InOrder(recs) \in Seq(1..top)
           /\ \A i \in DOMAIN InOrder(recs) : \E r \in recs : InOrder(recs)[i] = r.n
           /\ Ascending(InOrder(recs))
<1> DEFINE N == Cardinality(recs)
           At(i) == CHOOSE r \in recs : Rank(recs, r) = i - 1
<1>1. N \in Nat
  BY NumberedFinite
<1>2. \A i \in 1..N : At(i) \in recs /\ Rank(recs, At(i)) = i - 1
  <2> SUFFICES ASSUME NEW i \in 1..N PROVE \E r \in recs : Rank(recs, r) = i - 1
    OBVIOUS
  <2>1. i - 1 \in Nat /\ i - 1 < N
    BY <1>1
  <2> QED BY <2>1, RankOnto
<1>3. InOrder(recs) = [i \in 1..N |-> At(i).n]
  BY DEF InOrder
<1> HIDE DEF N, At
<1>4. \A i \in 1..N : At(i).n \in 1..top
  BY <1>2 DEF Numbered
<1>5. InOrder(recs) \in Seq(1..top) /\ DOMAIN InOrder(recs) = 1..N
  BY <1>1, <1>3, <1>4
<1>6. \A i, j \in 1..N : i < j => At(i).n < At(j).n
  <2> SUFFICES ASSUME NEW i \in 1..N, NEW j \in 1..N, i < j PROVE At(i).n < At(j).n
    OBVIOUS
  <2>1. Rank(recs, At(i)) < Rank(recs, At(j))
    BY <1>1, <1>2
  <2> QED BY <1>2, <2>1, RankOrder
<1> QED BY <1>2, <1>3, <1>5, <1>6 DEF Ascending

-----------------------------------------------------------------------------
(* One read. *)

\* Whatever stands at pos or later is newer than all of past.
Fresh(recs, pos, past) ==
    \A r \in recs : Rank(recs, r) >= pos => \A i \in DOMAIN past : past[i] < r.n

\* Records may disappear, and new ones may be added at the end, without an old
\* one moving past the position.
LEMMA FreshKept ==
    ASSUME NEW top \in Nat, NEW recs, Numbered(recs, top), NEW new, Numbered(new, top + 1),
           \A r \in new : r \in recs \/ r.n = top + 1,
           NEW pos \in Nat, NEW past \in Seq(0..top), Fresh(recs, pos, past)
    PROVE  Fresh(new, pos, past)
<1> SUFFICES ASSUME NEW r \in new, Rank(new, r) >= pos, NEW i \in DOMAIN past
             PROVE  past[i] < r.n
  BY DEF Fresh
<1>1. past[i] \in 0..top
  BY ElementOfSeq, LenProperties
<1>2. CASE r.n = top + 1
  BY <1>1, <1>2
<1>3. CASE r \in recs
  <2> DEFINE A == {s \in new : s.n < r.n}
             B == {s \in recs : s.n < r.n}
  <2>1. A \in SUBSET B /\ B \in SUBSET recs
    BY <1>3 DEF Numbered, Record
  <2>2. IsFiniteSet(recs)
    BY NumberedFinite
  <2>3. Cardinality(A) = Rank(new, r) /\ Cardinality(B) = Rank(recs, r)
    BY DEF Rank
  <2> HIDE DEF A, B
  <2>4. IsFiniteSet(B)
    BY <2>1, <2>2, FS_Subset
  <2>5. Cardinality(A) <= Cardinality(B)
    BY <2>1, <2>4, FS_Subset
  <2>6. Rank(new, r) \in Nat /\ Rank(recs, r) \in Nat
    <3>1. top + 1 \in Nat
      OBVIOUS
    <3> QED BY <1>3, <3>1, RankRange
  <2>7. Rank(recs, r) >= pos
    BY <2>3, <2>5, <2>6
  <2> QED BY <1>3, <2>7 DEF Fresh
<1> QED BY <1>2, <1>3

\* A batch extends an ascending history, and what follows it is newer still.
LEMMA ReadFresh ==
    ASSUME NEW top \in Nat, NEW recs, Numbered(recs, top),
           NEW past \in Seq(1..top), Ascending(past),
           NEW pos \in Nat, Fresh(recs, pos, past),
           NEW start \in Nat, NEW end \in Nat, start <= end, end <= Cardinality(recs),
           start < pos => start = Cardinality(recs),
           NEW batch \in SUBSET recs,
           \A r \in batch : Rank(recs, r) >= start /\ ~(Rank(recs, r) >= end)
    PROVE  /\ past \o InOrder(batch) \in Seq(1..top)
           /\ Ascending(past \o InOrder(batch))
           /\ Fresh(recs, end, past \o InOrder(batch))
<1> DEFINE add == InOrder(batch)
           all == past \o add
<1>1. \A r \in batch : r \in recs
  OBVIOUS
<1>2. \A r \in recs : Rank(recs, r) \in Nat /\ Rank(recs, r) < Cardinality(recs)
  BY RankRange
<1>3. Cardinality(recs) \in Nat
  BY NumberedFinite
<1>4. \A r \in batch : Rank(recs, r) >= pos /\ Rank(recs, r) < end
  BY <1>2, <1>3
<1>5. /\ add \in Seq(1..top)
      /\ \A i \in DOMAIN add : \E r \in batch : add[i] = r.n
      /\ Ascending(add)
  <2>1. Numbered(batch, top)
    BY NumberedSubset
  <2> QED BY <2>1, BatchInOrder
<1> HIDE DEF add
<1>6. /\ Len(past) \in Nat /\ DOMAIN past = 1..Len(past)
      /\ Len(add) \in Nat /\ DOMAIN add = 1..Len(add)
  BY <1>5, LenProperties
<1>7. /\ all \in Seq(1..top)
      /\ Len(all) = Len(past) + Len(add)
      /\ \A i \in 1..(Len(past) + Len(add)) :
            all[i] = IF i <= Len(past) THEN past[i] ELSE add[i - Len(past)]
  BY <1>5, ConcatProperties
<1>8. DOMAIN all = 1..(Len(past) + Len(add))
  BY <1>7, LenProperties
<1>9. \A i \in DOMAIN past, j \in DOMAIN add : past[i] < add[j]
  <2> SUFFICES ASSUME NEW i \in DOMAIN past, NEW j \in DOMAIN add PROVE past[i] < add[j]
    OBVIOUS
  <2>1. PICK r \in batch : add[j] = r.n
    BY <1>5
  <2> QED BY <1>1, <1>4, <2>1 DEF Fresh
<1>10. \A r \in recs : Rank(recs, r) >= end =>
          (\A i \in DOMAIN past : past[i] < r.n) /\ (\A j \in DOMAIN add : add[j] < r.n)
  <2> SUFFICES ASSUME NEW r \in recs, Rank(recs, r) >= end
               PROVE  (\A i \in DOMAIN past : past[i] < r.n) /\ (\A j \in DOMAIN add : add[j] < r.n)
    OBVIOUS
  <2>1. Rank(recs, r) >= pos
    BY <1>2, <1>3
  <2>2. ASSUME NEW j \in DOMAIN add PROVE add[j] < r.n
    <3>1. PICK s \in batch : add[j] = s.n
      BY <1>5
    <3>2. s \in recs /\ Rank(recs, s) < Rank(recs, r)
      BY <1>1, <1>2, <1>4
    <3> QED BY <3>1, <3>2, RankOrder
  <2> QED BY <2>1, <2>2 DEF Fresh
<1> HIDE DEF all
<1>11. Ascending(all)
  <2> SUFFICES ASSUME NEW i \in 1..(Len(past) + Len(add)), NEW j \in 1..(Len(past) + Len(add)), i < j
               PROVE  all[i] < all[j]
    BY <1>8 DEF Ascending
  <2>1. CASE j <= Len(past)
    <3>1. i \in DOMAIN past /\ j \in DOMAIN past
      BY <1>6, <2>1
    <3> QED BY <1>6, <1>7, <2>1, <3>1 DEF Ascending
  <2>2. CASE i <= Len(past) /\ j > Len(past)
    <3>1. i \in DOMAIN past /\ j - Len(past) \in DOMAIN add
      BY <1>6, <2>2
    <3>2. all[i] = past[i] /\ all[j] = add[j - Len(past)]
      BY <1>6, <1>7, <2>2
    <3> QED BY <1>9, <3>1, <3>2
  <2>3. CASE i > Len(past)
    <3>1. /\ i - Len(past) \in DOMAIN add /\ j - Len(past) \in DOMAIN add
          /\ i - Len(past) < j - Len(past)
      BY <1>6, <2>3
    <3>2. ~(i <= Len(past)) /\ ~(j <= Len(past))
      BY <1>6, <2>3
    <3>3. all[i] = add[i - Len(past)] /\ all[j] = add[j - Len(past)]
      BY <1>7, <3>2
    <3>4. \A k, m \in DOMAIN add : k < m => add[k] < add[m]
      BY <1>5 DEF Ascending
    <3> QED BY <3>1, <3>3, <3>4
  <2> QED BY <1>6, <2>1, <2>2, <2>3
<1>12. Fresh(recs, end, all)
  <2> SUFFICES ASSUME NEW r \in recs, Rank(recs, r) >= end,
                      NEW i \in 1..(Len(past) + Len(add))
               PROVE  all[i] < r.n
    BY <1>8 DEF Fresh
  <2>1. CASE i <= Len(past)
    <3>1. i \in DOMAIN past
      BY <1>6, <2>1
    <3> QED BY <1>7, <1>10, <2>1, <3>1
  <2>2. CASE i > Len(past)
    <3>1. i - Len(past) \in DOMAIN add
      BY <1>6, <2>2
    <3>2. all[i] = add[i - Len(past)]
      BY <1>6, <1>7, <2>2
    <3> QED BY <1>10, <3>1, <3>2
  <2> QED BY <1>6, <2>1, <2>2
<1> QED BY <1>7, <1>11, <1>12 DEF all, add

-----------------------------------------------------------------------------
(* The storage under its readers. *)

\* A step of the composition is a step of the storage, or leaves it alone.
LEMMA StorageStep == [CNext]_allVars => [Next]_vars
<1>1. ASSUME NEW c \in Clients, ConsumerStep(c) PROVE UNCHANGED vars
  BY <1>1 DEF ConsumerStep, CheckStream, Position, GetStreamRecords, CallLost
<1>2. UNCHANGED allVars => UNCHANGED vars
  BY DEF allVars
<1> QED BY <1>1, <1>2 DEF CNext

LEMMA StorageUnchanged == CSpec => Spec
BY StorageStep, PTL DEF CSpec, CInit, Spec

\* A record that is in some file or in some buffer.
Held(r) == (\E t \in Tables : r \in file[t].recs) \/ (\E b \in BufIds : r \in bufs[b].recs)

\* A step adds at most one record to what is held, with the next number.
LEMMA HeldStep ==
    ASSUME TypeOK, [Next]_vars
    PROVE  \/ emitted' = emitted /\ \A r : Held(r)' => Held(r)
           \/ /\ emitted' = emitted + 1 /\ emitted < MaxEvents
              /\ \E q \in Record : q.n = emitted + 1 /\ \A r : Held(r)' => Held(r) \/ r = q
<1> USE StreamsAssumption
<1> DEFINE Shrinks == /\ emitted' = emitted
                      /\ \A t \in Tables : \A r \in file'[t].recs : Held(r)
                      /\ \A b \in BufIds : \A r \in bufs'[b].recs : Held(r)
<1>1. ASSUME NEW t \in Tables, TableOp(t) PROVE Shrinks
  BY <1>1 DEF TableOp, CreateTable, UpdateTable, RewriteMeta, DeleteTable, Held
<1>2. ASSUME NEW t \in Tables, Emit(t)
      PROVE  /\ emitted' = emitted + 1 /\ emitted < MaxEvents
             /\ \E q \in Record : q.n = emitted + 1 /\ \A r : Held(r)' => Held(r) \/ r = q
  <2> DEFINE b == streams[t]
             q == [n |-> emitted + 1, seq |-> seqNum + 1, at |-> now,
                   label |-> meta[t].label]
  <2>1. meta[t] \in Meta /\ b \in BufIds
    BY <1>2 DEF Emit, Readable, TypeOK
  <2>2. q \in Record /\ q.n = emitted + 1
    BY <2>1 DEF TypeOK, Meta, Record
  <2>3. emitted' = emitted + 1 /\ emitted < MaxEvents
    BY <1>2 DEF Emit
  <2>4. CASE UNCHANGED <<bufs, file>>
    BY <2>2, <2>3, <2>4 DEF Held
  <2>5. CASE ~bufs[b].deleted
    <3> HIDE DEF q
    <3>1. PICK g \in AppendOutcomes(file[t], q) :
             /\ file' = [file EXCEPT ![t] = g]
             /\ bufs' = [bufs EXCEPT ![b].recs = @ \cup {q}]
      BY <1>2, <2>5 DEF Emit, q
    <3>2. g.recs \subseteq file[t].recs \cup {q}
      BY <2>2, AppendType DEF TypeOK
    <3>3. \A u \in Tables : file'[u].recs \subseteq file[u].recs \cup {q}
      BY <3>1, <3>2 DEF TypeOK
    <3>4. \A d \in BufIds : bufs'[d].recs \subseteq bufs[d].recs \cup {q}
      BY <2>1, <3>1 DEF TypeOK, Buffer
    <3>5. \A r : Held(r)' => Held(r) \/ r = q
      BY <3>3, <3>4 DEF Held
    <3> QED BY <2>2, <2>3, <3>5
  <2> QED BY <1>2, <2>4, <2>5 DEF Emit
<1>3. ASSUME EnsureStreamBuffer PROVE Shrinks
  <2> DEFINE t == writer.t
  <2>1. t \in Tables /\ emitted' = emitted
    BY <1>3 DEF EnsureStreamBuffer, TypeOK
  <2>2. CASE UNCHANGED <<streams, bufs, file>>
    BY <2>1, <2>2 DEF Held
  <2>3. CASE streams[t] = Nil
    <3>1. PICK b \in BufIds, l \in LoadOutcomes(file[t]) :
             /\ bufs' = [bufs EXCEPT ![b] = [recs |-> l.recs, deleted |-> FALSE]]
             /\ file' = [file EXCEPT ![t] = l.file]
      BY <1>3, <2>3 DEF EnsureStreamBuffer
    <3>2. l.recs \subseteq file[t].recs /\ l.file.recs \subseteq file[t].recs
      BY <2>1, LoadType DEF TypeOK
    <3>3. \A u \in Tables : file'[u].recs \subseteq file[u].recs
      BY <2>1, <3>1, <3>2 DEF TypeOK
    <3>4. \A d \in BufIds : bufs'[d].recs \subseteq bufs[d].recs \cup file[t].recs
      BY <3>1, <3>2 DEF TypeOK
    <3> QED BY <2>1, <3>3, <3>4 DEF Held
  <2> QED BY <1>3, <2>2, <2>3 DEF EnsureStreamBuffer
<1>4. ASSUME MarkDeleted PROVE Shrinks
  <2>1. \A b \in BufIds : bufs'[b].recs = bufs[b].recs
    BY <1>4 DEF MarkDeleted, TypeOK, Buffer
  <2> QED BY <1>4, <2>1 DEF MarkDeleted, Held
<1>5. ASSUME RemoveStreamFile PROVE Shrinks
  <2>1. \A u \in Tables : file'[u].recs \subseteq file[u].recs
    BY <1>5 DEF RemoveStreamFile, TypeOK, NoFile
  <2> QED BY <1>5, <2>1 DEF RemoveStreamFile, Held
<1>6. ASSUME TrimApply PROVE Shrinks
  <2> DEFINE b == trim.buf
             keep == After(bufs[b].recs, trim.cutoff)
  <2>1. b \in BufIds /\ trim.t \in Tables /\ emitted' = emitted
    BY <1>6 DEF TrimApply, TypeOK
  <2>2. CASE bufs' = bufs /\ file' = file
    BY <2>1, <2>2 DEF Held
  <2>3. CASE /\ bufs' = [bufs EXCEPT ![b].recs = keep]
             /\ \E g \in RewriteOutcomes(file[trim.t], keep) :
                   file' = [file EXCEPT ![trim.t] = g]
    <3>1. keep \subseteq bufs[b].recs
      BY AfterSubset
    <3> HIDE DEF keep
    <3>2. PICK g \in RewriteOutcomes(file[trim.t], keep) :
             file' = [file EXCEPT ![trim.t] = g]
      BY <2>3
    <3>3. g = file[trim.t] \/ g = [recs |-> keep, torn |-> FALSE]
      BY DEF RewriteOutcomes
    <3>4. g.recs \subseteq file[trim.t].recs \cup keep
      BY <3>3
    <3>5. \A u \in Tables : file'[u].recs \subseteq file[u].recs \cup bufs[b].recs
      BY <2>1, <3>1, <3>2, <3>4 DEF TypeOK
    <3>6. \A d \in BufIds : bufs'[d].recs \subseteq bufs[d].recs
      BY <2>1, <2>3, <3>1 DEF TypeOK, Buffer
    <3> QED BY <2>1, <3>5, <3>6 DEF Held
  <2> QED BY <1>6, <2>2, <2>3 DEF TrimApply
<1>7. ASSUME Stop PROVE Shrinks
  BY <1>7 DEF Stop, Held
<1>8. ASSUME Start PROVE Shrinks
  <2>1. PICK S, ids, l, m :
           /\ S \subseteq Tables
           /\ ids \in [S -> BufIds]
           /\ m \in {Clock} \cup {x.seq : x \in UNION {l[t].recs : t \in S}}
           /\ Restore(S, ids, l, m)
    BY <1>8, StartChoice
  <2>2. \A t \in S : l[t].recs \subseteq file[t].recs /\ l[t].file.recs \subseteq file[t].recs
    BY <2>1, LoadType DEF Restore, TypeOK
  <2>3. \A t \in Tables : file'[t].recs \subseteq file[t].recs
    BY <2>1, <2>2 DEF Restore
  <2>4. ASSUME NEW b \in BufIds, NEW r \in bufs'[b].recs PROVE Held(r)
    <3>1. bufs'[b].recs = UNION {l[t].recs : t \in {u \in S : ids[u] = b}}
      BY <2>1 DEF Restore
    <3>2. PICK t \in S : r \in l[t].recs
      BY <2>4, <3>1
    <3> QED BY <2>1, <2>2, <3>2 DEF Held
  <2>5. emitted' = emitted
    BY <1>8 DEF Start
  <2> QED BY <2>3, <2>4, <2>5 DEF Held
<1>9. ASSUME Unmap \/ TrimStart \/ (\E t \in Tables : TrimGet(t)) \/ TrimDone \/ Tick
             \/ UNCHANGED vars
      PROVE  Shrinks
  BY <1>9 DEF Unmap, TrimStart, TrimGet, TrimDone, Tick, vars, Held
<1>10. ASSUME Shrinks PROVE emitted' = emitted /\ \A r : Held(r)' => Held(r)
  BY <1>10 DEF Held
<1> HIDE DEF Shrinks
<1> QED BY <1>1, <1>2, <1>3, <1>4, <1>5, <1>6, <1>7, <1>8, <1>9, <1>10
        DEF Next, WriterStep, TrimStep

\* No two records carry the same number, and none a number not yet given.
HeldInv ==
    /\ emitted \in 0..MaxEvents
    /\ \A r : Held(r) => r \in Record /\ r.n \in 1..emitted
    /\ \A r, s : Held(r) /\ Held(s) /\ r.n = s.n => r = s

LEMMA HeldInit == Init => HeldInv
BY StreamsAssumption DEF Init, HeldInv, Held, NoFile

LEMMA HeldInvStep == TypeOK /\ HeldInv /\ [Next]_vars => HeldInv'
<1> SUFFICES ASSUME TypeOK, HeldInv, [Next]_vars PROVE HeldInv'
  OBVIOUS
<1> USE StreamsAssumption
<1>1. emitted \in Nat /\ emitted <= MaxEvents
  BY DEF HeldInv
<1>2. CASE emitted' = emitted /\ \A r : Held(r)' => Held(r)
  BY <1>2 DEF HeldInv
<1>3. CASE /\ emitted' = emitted + 1 /\ emitted < MaxEvents
           /\ \E q \in Record : q.n = emitted + 1 /\ \A r : Held(r)' => Held(r) \/ r = q
  <2>1. PICK q \in Record : q.n = emitted + 1 /\ \A r : Held(r)' => Held(r) \/ r = q
    BY <1>3
  <2>2. emitted' \in 0..MaxEvents
    BY <1>1, <1>3
  <2>3. \A r : Held(r)' => r \in Record /\ r.n \in 1..emitted'
    BY <1>1, <1>3, <2>1 DEF HeldInv
  <2>4. ASSUME NEW r, NEW s, Held(r)', Held(s)', r.n = s.n PROVE r = s
    BY <1>1, <2>1, <2>4 DEF HeldInv
  <2> QED BY <2>2, <2>3, <2>4 DEF HeldInv
<1> QED BY <1>2, <1>3, HeldStep

-----------------------------------------------------------------------------
(* What a reader is shown. *)

\* The records of a buffer that is out of the map and not yet marked: the trim
\* goroutine may still write them to the file.
Leaving(t) == IF writer.step = "mark" /\ writer.t = t /\ writer.buf # Nil
              THEN bufs[writer.buf].recs ELSE {}

\* The records of the live stream; while there is none, the ones that a new
\* buffer may yet be loaded with.
Shown(t) == IF streams[t] = Nil THEN After(file[t].recs, now - Retention) \cup Leaving(t)
            ELSE BufRecs(t)

LEMMA ShownNumbered ==
    ASSUME TypeOK, HeldInv, NEW t \in Tables
    PROVE  Numbered(Shown(t), emitted)
<1>1. \A r \in Shown(t) : Held(r)
  <2>1. streams[t] # Nil => streams[t] \in BufIds
    BY DEF TypeOK
  <2>2. writer.buf # Nil => writer.buf \in BufIds
    BY DEF TypeOK
  <2>3. \A r \in After(file[t].recs, now - Retention) : r \in file[t].recs
    BY AfterSubset
  <2> QED BY <2>1, <2>2, <2>3 DEF Shown, Leaving, BufRecs, Held
<1> QED BY <1>1 DEF HeldInv, Numbered

\* Nothing comes back into view, and a new record comes in at the end.
LEMMA ShownStep ==
    ASSUME "read" \notin Faults, TypeOK, Pointers, NoResurrection, [Next]_vars,
           NEW u \in Tables
    PROVE  \A r \in Shown(u)' : r \in Shown(u) \/ (r.n = emitted + 1 /\ emitted' = emitted + 1)
<1> SUFFICES ASSUME NEW r \in Shown(u)'
             PROVE  r \in Shown(u) \/ (r.n = emitted + 1 /\ emitted' = emitted + 1)
  OBVIOUS
<1> DEFINE Goal == r \in Shown(u) \/ (r.n = emitted + 1 /\ emitted' = emitted + 1)
           Old == After(file[u].recs, now - Retention)
<1> USE StreamsAssumption
<1>0. Old \subseteq Shown(u)
  BY DEF NoResurrection, Shown
<1>a. \A x \in file[u].recs : x.at \in Nat
  BY DEF TypeOK, StreamFile, Record
<1>b. now \in Nat
  BY DEF TypeOK
<1>c. streams[u] = Nil => Leaving(u) \subseteq Shown(u)
  BY DEF Shown
<1>d. ASSUME writer'.step # "mark" PROVE Leaving(u)' = {}
  BY <1>d DEF Leaving
<1>e. ASSUME writer' = writer, \A b \in BufIds : bufs'[b].recs \subseteq bufs[b].recs
      PROVE  Leaving(u)' \subseteq Leaving(u)
  BY <1>e DEF Leaving, TypeOK
\* A step that leaves the table without a stream shows at most the old file.
<1>1. ASSUME streams'[u] = Nil, file'[u].recs \subseteq file[u].recs \cup Leaving(u)',
             Leaving(u)' \subseteq Shown(u), now' >= now, now' \in Nat
      PROVE  Goal
  <2>1. r \in Leaving(u)' \/ (r \in file[u].recs /\ r.at > now' - Retention)
    BY <1>1 DEF Shown, After
  <2>2. ASSUME r \in file[u].recs, r.at > now' - Retention PROVE r \in Old
    <3>1. r.at > now - Retention
      BY <1>1, <1>a, <1>b, <2>2
    <3> QED BY <2>2, <3>1 DEF After
  <2> QED BY <1>0, <1>1, <2>1, <2>2
\* A step that leaves the stream's buffer alone shows at most the old buffer.
<1>2. ASSUME streams'[u] = streams[u], streams[u] # Nil, BufRecs(u)' \subseteq BufRecs(u) PROVE Goal
  BY <1>2 DEF Shown
<1>3. ASSUME streams' = streams, file'[u].recs \subseteq file[u].recs, now' >= now, now' \in Nat,
             \A b \in BufIds : bufs'[b].recs \subseteq bufs[b].recs,
             writer' = writer \/ writer'.step # "mark"
      PROVE  Goal
  <2>1. CASE streams[u] = Nil
    <3>1. Leaving(u)' \subseteq Leaving(u)
      BY <1>3, <1>d, <1>e
    <3> QED BY <1>1, <1>3, <1>c, <2>1, <3>1
  <2>2. CASE streams[u] # Nil
    <3>1. streams[u] \in BufIds
      BY <2>2 DEF TypeOK
    <3>2. BufRecs(u)' \subseteq BufRecs(u)
      BY <1>3, <3>1 DEF BufRecs
    <3> QED BY <1>2, <1>3, <2>2, <3>2
  <2> QED BY <2>1, <2>2
<1> HIDE DEF Goal
<1>4. ASSUME NEW t \in Tables, TableOp(t) PROVE Goal
  <2>1. UNCHANGED <<file, streams, bufs, now>>
    BY <1>4 DEF TableOp, CreateTable, UpdateTable, RewriteMeta, DeleteTable
  <2>2. writer' = writer \/ writer'.step # "mark"
    BY <1>4 DEF TableOp, CreateTable, UpdateTable, RewriteMeta, DeleteTable, StreamStep, Step, Idle
  <2> QED BY <1>3, <1>b, <2>1, <2>2
<1>5. ASSUME NEW t \in Tables, Emit(t) PROVE Goal
  <2> DEFINE b == streams[t]
             q == [n |-> emitted + 1, seq |-> seqNum + 1, at |-> now,
                   label |-> meta[t].label]
  <2>1. /\ meta[t] \in Meta /\ b \in BufIds /\ streams' = streams /\ now' = now
        /\ emitted' = emitted + 1 /\ writer' = writer /\ writer = Idle
    BY <1>5 DEF Emit, MayWrite, Readable, TypeOK
  <2>2. q \in Record /\ q.n = emitted + 1
    BY <2>1 DEF TypeOK, Meta, Record
  <2>3. CASE UNCHANGED <<bufs, file>>
    BY <1>3, <1>b, <2>1, <2>3
  <2>4. CASE ~bufs[b].deleted
    <3> HIDE DEF q
    <3>1. PICK g \in AppendOutcomes(file[t], q) :
             /\ file' = [file EXCEPT ![t] = g]
             /\ bufs' = [bufs EXCEPT ![b].recs = @ \cup {q}]
      BY <1>5, <2>4 DEF Emit, q
    <3>2. CASE u = t
      <4>1. BufRecs(u)' = BufRecs(u) \cup {q} /\ streams[u] # Nil
        BY <2>1, <3>1, <3>2 DEF TypeOK, Buffer, BufRecs
      <4> QED BY <2>1, <2>2, <4>1 DEF Shown, Goal
    <3>3. CASE u # t
      <4>1. file'[u] = file[u]
        BY <3>1, <3>3 DEF TypeOK
      <4>2. CASE streams[u] = Nil
        <5>1. Leaving(u)' = {}
          BY <1>d, <2>1 DEF Idle
        <5> QED BY <1>1, <1>b, <2>1, <4>1, <4>2, <5>1
      <4>3. CASE streams[u] # Nil
        <5>1. streams[u] # b /\ streams[u] \in BufIds
          BY <2>1, <3>3, <4>3 DEF Pointers, OwnBuffer, TypeOK
        <5>2. BufRecs(u)' = BufRecs(u)
          BY <2>1, <3>1, <5>1 DEF TypeOK, BufRecs
        <5> QED BY <1>2, <2>1, <4>3, <5>2
      <4> QED BY <4>2, <4>3
    <3> QED BY <3>2, <3>3
  <2> QED BY <1>5, <2>3, <2>4 DEF Emit
<1>6. ASSUME EnsureStreamBuffer PROVE Goal
  <2> DEFINE t == writer.t
  <2>1. t \in Tables /\ now' = now /\ writer'.step # "mark"
    BY <1>6 DEF EnsureStreamBuffer, TypeOK, Idle
  <2>2. CASE UNCHANGED <<streams, bufs, file>>
    BY <1>3, <1>b, <2>1, <2>2
  <2>3. CASE streams[t] = Nil
    <3>1. PICK b \in BufIds, l \in LoadOutcomes(file[t]) :
             /\ Free(b)
             /\ streams' = [streams EXCEPT ![t] = b]
             /\ bufs' = [bufs EXCEPT ![b] = [recs |-> l.recs, deleted |-> FALSE]]
             /\ file' = [file EXCEPT ![t] = l.file]
      BY <1>6, <2>3 DEF EnsureStreamBuffer
    <3>2. l.recs = After(file[t].recs, now - Retention)
      BY <2>1, LoadType DEF TypeOK
    <3>3. CASE u = t
      <4>1. streams'[u] # Nil /\ BufRecs(u)' = l.recs
        BY <2>1, <3>1, <3>3 DEF TypeOK, BufRecs
      <4> QED BY <1>0, <3>2, <3>3, <4>1 DEF Shown, Goal
    <3>4. CASE u # t
      <4>1. file'[u] = file[u] /\ streams'[u] = streams[u]
        BY <2>1, <3>1, <3>4 DEF TypeOK
      <4>2. CASE streams[u] = Nil
        BY <1>1, <1>b, <1>d, <2>1, <4>1, <4>2
      <4>3. CASE streams[u] # Nil
        <5>1. BufRecs(u)' = BufRecs(u)
          BY <3>1, <4>1, <4>3 DEF TypeOK, BufRecs, Free
        <5> QED BY <1>2, <4>1, <4>3, <5>1
      <4> QED BY <4>2, <4>3
    <3> QED BY <3>3, <3>4
  <2> QED BY <1>6, <2>2, <2>3 DEF EnsureStreamBuffer
<1>7. ASSUME Unmap PROVE Goal
  <2>1. /\ file' = file /\ bufs' = bufs /\ now' = now
        /\ streams'[u] = Nil \/ streams'[u] = streams[u]
        /\ writer'.t = writer.t /\ writer'.buf = streams[writer.t]
    BY <1>7 DEF Unmap, TypeOK
  <2>2. CASE streams'[u] = Nil
    <3>1. Leaving(u)' \subseteq Shown(u)
      BY <2>1 DEF Leaving, Shown, BufRecs
    <3> QED BY <1>1, <1>b, <2>1, <2>2, <3>1
  <2>3. CASE streams'[u] = streams[u] /\ streams[u] # Nil
    <3>1. BufRecs(u)' = BufRecs(u)
      BY <2>1, <2>3 DEF BufRecs
    <3> QED BY <1>2, <2>3, <3>1
  <2> QED BY <2>1, <2>2, <2>3
<1>8. ASSUME MarkDeleted PROVE Goal
  <2>1. \A b \in BufIds : bufs'[b].recs = bufs[b].recs
    BY <1>8 DEF MarkDeleted, TypeOK, Buffer
  <2>2. UNCHANGED <<file, streams, now>> /\ writer'.step # "mark"
    BY <1>8 DEF MarkDeleted, Step
  <2> QED BY <1>3, <1>b, <2>1, <2>2
<1>9. ASSUME RemoveStreamFile PROVE Goal
  <2>1. file'[u].recs \subseteq file[u].recs
    BY <1>9 DEF RemoveStreamFile, TypeOK, NoFile
  <2>2. UNCHANGED <<bufs, streams, now>> /\ writer'.step # "mark"
    BY <1>9 DEF RemoveStreamFile, Idle
  <2> QED BY <1>3, <1>b, <2>1, <2>2
<1>10. ASSUME TrimApply PROVE Goal
  <2> DEFINE b == trim.buf
             keep == After(bufs[b].recs, trim.cutoff)
  <2>1. /\ b \in BufIds /\ trim.t \in Tables /\ now' = now /\ streams' = streams
        /\ writer' = writer
    BY <1>10 DEF TrimApply, TypeOK
  <2>2. CASE bufs' = bufs /\ file' = file
    BY <1>3, <1>b, <2>1, <2>2
  <2>3. CASE /\ ~bufs[b].deleted
             /\ bufs' = [bufs EXCEPT ![b].recs = keep]
             /\ \E g \in RewriteOutcomes(file[trim.t], keep) :
                   file' = [file EXCEPT ![trim.t] = g]
    <3>1. keep \subseteq bufs[b].recs
      BY AfterSubset
    <3>2. \A d \in BufIds : bufs'[d].recs \subseteq bufs[d].recs
      BY <2>1, <2>3, <3>1 DEF TypeOK, Buffer
    <3>3. CASE streams[u] = Nil
      <4>1. Leaving(u)' \subseteq Leaving(u)
        BY <1>e, <2>1, <3>2
      <4>2. CASE u # trim.t
        <5>1. file'[u] = file[u]
          BY <2>1, <2>3, <4>2 DEF TypeOK
        <5> QED BY <1>1, <1>b, <1>c, <2>1, <3>3, <4>1, <5>1
      <4>3. CASE u = trim.t
        <5>1. writer.step = "mark" /\ writer.t = u /\ writer.buf = b
          BY <1>10, <2>1, <2>3, <3>3, <4>3 DEF TrimApply, Pointers, TrimHolds
        <5>2. Leaving(u)' = keep
          BY <2>1, <2>3, <5>1 DEF Leaving, TypeOK, Buffer
        <5> HIDE DEF keep
        <5>3. PICK g \in RewriteOutcomes(file[u], keep) : file' = [file EXCEPT ![u] = g]
          BY <2>3, <4>3
        <5>4. g = file[u] \/ g = [recs |-> keep, torn |-> FALSE]
          BY DEF RewriteOutcomes
        <5>5. file'[u].recs \subseteq file[u].recs \cup keep
          BY <5>3, <5>4 DEF TypeOK
        <5> QED BY <1>1, <1>b, <1>c, <2>1, <3>3, <4>1, <5>2, <5>5
      <4> QED BY <4>2, <4>3
    <3>4. CASE streams[u] # Nil
      <4>1. BufRecs(u)' \subseteq BufRecs(u)
        BY <2>1, <3>2, <3>4 DEF BufRecs, TypeOK
      <4> QED BY <1>2, <2>1, <3>4, <4>1
    <3> QED BY <3>3, <3>4
  <2> QED BY <1>10, <2>2, <2>3 DEF TrimApply
<1>11. ASSUME Stop PROVE Goal
  <2>1. file' = file /\ now' = now /\ streams'[u] = Nil /\ writer'.step # "mark"
    BY <1>11 DEF Stop, Idle
  <2> QED BY <1>1, <1>b, <1>d, <2>1
<1>12. ASSUME Start PROVE Goal
  <2>1. PICK S, ids, l, m :
           /\ S \subseteq Tables
           /\ ids \in [S -> BufIds]
           /\ m \in {Clock} \cup {x.seq : x \in UNION {l[t].recs : t \in S}}
           /\ Restore(S, ids, l, m)
    BY <1>12, StartChoice
  <2>2. now' = now /\ writer'.step # "mark"
    BY <1>12 DEF Start, Pointers, DownIsClear, Idle
  <2>3. CASE streams'[u] # Nil
    <3>1. u \in S /\ bufs'[streams'[u]].recs = l[u].recs
      BY <2>1, <2>3, RestoredBuffer
    <3>2. l[u].recs = After(file[u].recs, now - Retention)
      BY <2>1, <3>1, LoadType DEF TypeOK, Restore
    <3> QED BY <1>0, <2>3, <3>1, <3>2 DEF Shown, BufRecs, Goal
  <2>4. CASE streams'[u] = Nil
    <3>1. u \notin S
      BY <2>1, <2>4 DEF Restore
    <3>2. file'[u] = file[u]
      BY <2>1, <3>1 DEF Restore
    <3> QED BY <1>1, <1>b, <1>d, <2>2, <2>4, <3>2
  <2> QED BY <2>3, <2>4
<1>13. ASSUME TrimStart \/ (\E t \in Tables : TrimGet(t)) \/ TrimDone \/ Tick \/ UNCHANGED vars
       PROVE  Goal
  <2>1. /\ UNCHANGED <<file, bufs, streams, writer>>
        /\ now' = now \/ now' = now + 1
    BY <1>13 DEF TrimStart, TrimGet, TrimDone, Tick, vars
  <2>2. now' >= now /\ now' \in Nat
    BY <1>b, <2>1
  <2> QED BY <1>3, <2>1, <2>2
<1> QED BY <1>4, <1>5, <1>6, <1>7, <1>8, <1>9, <1>10, <1>11, <1>12, <1>13
        DEF Next, WriterStep, TrimStep, Goal

-----------------------------------------------------------------------------
(* The readers. *)

\* A client's iterator and the history of what came through it.
ClientInv(c) ==
    /\ iter[c].step # "none" => iter[c].t \in Tables
    /\ iter[c].step = "checked" => iter[c].type \in IterTypes
    /\ iter[c].step # "ready" => seen[c] = << >>
    /\ seen[c] \in Seq(1..emitted)
    /\ Ascending(seen[c])
    /\ iter[c].step = "ready" => Fresh(Shown(iter[c].t), iter[c].pos, seen[c])

ReaderInv == CTypeOK /\ \A c \in Clients : ClientInv(c)

LEMMA ReaderInit == CInit => ReaderInv
<1> SUFFICES ASSUME CInit PROVE ReaderInv
  OBVIOUS
<1>1. iter = [c \in Clients |-> NoIter] /\ seen = [c \in Clients |-> << >>]
  BY DEF CInit
<1>2. /\ << >> \in Seq(1..MaxEvents) /\ << >> \in Seq(1..emitted)
      /\ Ascending(<< >>)
  BY DEF Ascending
<1>3. CTypeOK
  BY <1>1, <1>2 DEF CTypeOK, NoIter
<1>4. ASSUME NEW c \in Clients PROVE ClientInv(c)
  <2>1. iter[c].step = "none" /\ seen[c] = << >>
    BY <1>1 DEF NoIter
  <2> QED BY <1>2, <2>1 DEF ClientInv
<1> QED BY <1>3, <1>4 DEF ReaderInv

AllNumbered == \A t \in Tables : Numbered(Shown(t), emitted)

LEMMA AllShownNumbered == TypeOK /\ HeldInv => AllNumbered
BY ShownNumbered DEF AllNumbered

LEMMA AllShownNumberedNext == TypeOK' /\ HeldInv' => AllNumbered'
BY AllShownNumbered, PTL

LEMMA SeqMonotone ==
    ASSUME NEW A, NEW B, A \subseteq B, NEW s \in Seq(A)
    PROVE  s \in Seq(B)
OBVIOUS

\* A step of the storage under the feet of a client.
LEMMA ClientUnderStorage ==
    ASSUME "read" \notin Faults, TypeOK, Pointers, NoResurrection, HeldInv, HeldInv', TypeOK',
           [Next]_vars, UNCHANGED consumerVars, CTypeOK, NEW c \in Clients, ClientInv(c)
    PROVE  ClientInv(c)'
<1>1. iter' = iter /\ seen' = seen
  BY DEF consumerVars
<1>2. emitted \in Nat /\ (emitted' = emitted \/ emitted' = emitted + 1)
  BY HeldStep DEF TypeOK
<1>3. seen[c] \in Seq(1..emitted) /\ seen[c] \in Seq(0..emitted) /\ seen[c] \in Seq(1..emitted')
  <2>1. 1..emitted \subseteq 0..emitted /\ 1..emitted \subseteq 1..emitted'
    BY <1>2
  <2>2. seen[c] \in Seq(1..emitted)
    BY DEF ClientInv
  <2> QED BY <2>1, <2>2, SeqMonotone
<1>4. ASSUME iter[c].step = "ready"
      PROVE  Fresh(Shown(iter[c].t)', iter[c].pos, seen[c])
  <2> DEFINE t == iter[c].t
             pos == iter[c].pos
  <2>1. t \in Tables /\ pos \in Nat /\ Fresh(Shown(t), pos, seen[c])
    BY <1>4 DEF ClientInv, CTypeOK
  <2>2. Numbered(Shown(t), emitted)
    BY <2>1, ShownNumbered
  <2>3. AllNumbered'
    BY AllShownNumberedNext
  <2>4. Numbered(Shown(t)', emitted')
    BY <1>1, <2>1, <2>3 DEF AllNumbered
  <2>5. Numbered(Shown(t)', emitted + 1)
    <3>1. 1..emitted' \subseteq 1..(emitted + 1)
      BY <1>2
    <3> QED BY <2>4, <3>1 DEF Numbered
  <2>6. \A r \in Shown(t)' : r \in Shown(t) \/ r.n = emitted + 1
    BY <1>1, <2>1, ShownStep
  <2> DEFINE old == Shown(t)
             new == Shown(t)'
  <2> HIDE DEF old, new
  <2>7. Fresh(new, pos, seen[c])
    <3>1. /\ Numbered(old, emitted) /\ Numbered(new, emitted + 1)
          /\ \A r \in new : r \in old \/ r.n = emitted + 1
          /\ Fresh(old, pos, seen[c])
      BY <2>1, <2>2, <2>5, <2>6 DEF old, new
    <3> HIDE DEF pos
    <3> QED BY <1>2, <1>3, <2>1, <3>1, FreshKept
  <2> QED BY <1>1, <2>7 DEF new
<1> QED BY <1>1, <1>3, <1>4 DEF ClientInv

-----------------------------------------------------------------------------
(* Positions. *)

\* Some record of a slice is its first.
LEMMA FirstExists ==
    ASSUME NEW top \in Nat, NEW recs, Numbered(recs, top), recs # {}
    PROVE  \E r \in recs : \A s \in recs : r.n <= s.n
<1>1. Cardinality(recs) \in Nat /\ Cardinality(recs) # 0
  BY NumberedFinite, FS_EmptySet
<1>2. 0 \in Nat /\ 0 < Cardinality(recs)
  BY <1>1
<1>3. PICK r \in recs : Rank(recs, r) = 0
  BY <1>2, RankOnto
<1>4. ASSUME NEW s \in recs PROVE r.n <= s.n
  <2>1. Rank(recs, s) \in Nat
    BY RankRange
  <2>2. ~(s.n < r.n)
    BY <1>3, <2>1, RankOrder
  <2>3. r.n \in Nat /\ s.n \in Nat
    BY DEF Numbered, Record
  <2> QED BY <2>2, <2>3
<1> QED BY <1>4

\* What the scan of findSeqPos stops at.
LEMMA FindSeqPosStops ==
    ASSUME NEW top \in Nat, NEW recs, Numbered(recs, top), NEW seq, NEW type
    PROVE  \/ /\ \A r \in recs : ~(r.seq >= seq)
              /\ FindSeqPos(recs, seq, type) = Cardinality(recs)
           \/ \E r \in recs :
                 /\ r.seq >= seq
                 /\ \A s \in recs : s.seq >= seq => r.n <= s.n
                 /\ FindSeqPos(recs, seq, type) =
                       IF r.seq = seq /\ type = "AFTER_SEQUENCE_NUMBER"
                       THEN Rank(recs, r) + 1 ELSE Rank(recs, r)
<1> DEFINE hits == {r \in recs : r.seq >= seq}
           first == CHOOSE r \in hits : \A s \in hits : r.n <= s.n
<1>1. CASE hits = {}
  BY <1>1 DEF FindSeqPos
<1>2. CASE hits # {}
  <2>1. Numbered(hits, top)
    BY DEF Numbered
  <2>2. FindSeqPos(recs, seq, type) =
           IF first.seq = seq /\ type = "AFTER_SEQUENCE_NUMBER"
           THEN Rank(recs, first) + 1 ELSE Rank(recs, first)
    BY <1>2 DEF FindSeqPos
  <2>3. \E r \in hits : \A s \in hits : r.n <= s.n
    <3> HIDE DEF hits
    <3> QED BY <1>2, <2>1, FirstExists
  <2>4. first \in hits /\ \A s \in hits : first.n <= s.n
    BY <2>3
  <2> HIDE DEF first
  <2> QED BY <2>2, <2>4
<1> QED BY <1>1, <1>2

LEMMA StartPosType ==
    ASSUME NEW top \in Nat, NEW recs, Numbered(recs, top), NEW it, it.type \in IterTypes
    PROVE  StartPos(recs, it) \in Nat
<1>1. Cardinality(recs) \in Nat /\ \A r \in recs : Rank(recs, r) \in Nat
  BY NumberedFinite, RankRange
<1>2. FindSeqPos(recs, it.seq, it.type) \in Nat
  <2> DEFINE pos == FindSeqPos(recs, it.seq, it.type)
  <2> HIDE DEF pos
  <2>1. pos = Cardinality(recs) \/ \E r \in recs : pos = Rank(recs, r) + 1 \/ pos = Rank(recs, r)
    BY FindSeqPosStops DEF pos
  <2> QED BY <1>1, <2>1 DEF pos
<1>3. CASE it.type = "TRIM_HORIZON"
  BY <1>3 DEF StartPos, BySeq
<1>4. CASE it.type = "LATEST"
  BY <1>1, <1>4 DEF StartPos, BySeq
<1>5. CASE it.type \in BySeq
  BY <1>2, <1>5 DEF StartPos, BySeq
<1> QED BY <1>3, <1>4, <1>5 DEF IterTypes, BySeq

\* Over a slice whose sequence numbers grow, a position found by sequence
\* number stands before exactly the records with a larger one and, for AT, an
\* equal one.
LEMMA FindSeqPosExact ==
    ASSUME NEW top \in Nat, NEW recs, Numbered(recs, top), Ordered(recs),
           NEW seq \in Nat, NEW type \in BySeq
    PROVE  AtOrAfter(recs, FindSeqPos(recs, seq, type)) =
              {r \in recs : r.seq > seq \/ (r.seq = seq /\ type = "AT_SEQUENCE_NUMBER")}
<1> DEFINE pos == FindSeqPos(recs, seq, type)
<1>1. \A r \in recs : r.n \in Nat /\ r.seq \in Nat /\ Rank(recs, r) \in Nat
                      /\ Rank(recs, r) < Cardinality(recs)
  BY RankRange DEF Numbered, Record
<1>2. Cardinality(recs) \in Nat
  BY NumberedFinite
<1>3. \A r, s \in recs : r.n < s.n => r.seq < s.seq
  BY DEF Ordered
<1>4. \A r, s \in recs : r.n = s.n => r = s
  BY DEF Numbered
<1>5. \A r, s \in recs : r.n < s.n <=> Rank(recs, r) < Rank(recs, s)
  BY RankOrder
<1>6. CASE (\A r \in recs : ~(r.seq >= seq)) /\ pos = Cardinality(recs)
  BY <1>1, <1>2, <1>6 DEF AtOrAfter
<1>7. ASSUME NEW f \in recs, f.seq >= seq, \A s \in recs : s.seq >= seq => f.n <= s.n,
             pos = IF f.seq = seq /\ type = "AFTER_SEQUENCE_NUMBER"
                   THEN Rank(recs, f) + 1 ELSE Rank(recs, f)
      PROVE  \A r \in recs : Rank(recs, r) >= pos <=>
                r.seq > seq \/ (r.seq = seq /\ type = "AT_SEQUENCE_NUMBER")
  <2> SUFFICES ASSUME NEW r \in recs
               PROVE  Rank(recs, r) >= pos <=>
                         r.seq > seq \/ (r.seq = seq /\ type = "AT_SEQUENCE_NUMBER")
    OBVIOUS
  <2> HIDE DEF pos
  <2>1. type \in {"AT_SEQUENCE_NUMBER", "AFTER_SEQUENCE_NUMBER"}
    BY DEF BySeq
  <2>2. CASE r.n < f.n
    <3>1. Rank(recs, r) < Rank(recs, f) /\ r.seq < seq
      BY <1>1, <1>5, <1>7, <2>2
    <3> QED BY <1>1, <1>7, <3>1
  <2>3. CASE r.n > f.n
    <3>1. Rank(recs, f) < Rank(recs, r) /\ f.seq < r.seq
      BY <1>1, <1>3, <1>5, <2>3
    <3> QED BY <1>1, <1>7, <3>1
  <2>4. CASE r.n = f.n
    <3>1. r = f
      BY <1>4, <2>4
    <3> QED BY <1>1, <1>7, <2>1, <3>1
  <2> QED BY <1>1, <2>2, <2>3, <2>4
<1>8. CASE \E f \in recs :
             /\ f.seq >= seq
             /\ \A s \in recs : s.seq >= seq => f.n <= s.n
             /\ pos = IF f.seq = seq /\ type = "AFTER_SEQUENCE_NUMBER"
                      THEN Rank(recs, f) + 1 ELSE Rank(recs, f)
  <2>1. \A r \in recs : Rank(recs, r) >= pos <=>
           r.seq > seq \/ (r.seq = seq /\ type = "AT_SEQUENCE_NUMBER")
    BY <1>7, <1>8
  <2> QED BY <2>1 DEF AtOrAfter
<1> QED BY <1>6, <1>8, FindSeqPosStops

-----------------------------------------------------------------------------
(* The steps of the readers. *)

IterType == [step : {"none", "checked", "ready"}, t : Tables \cup {Nil},
             type : IterTypes \cup {"none"}, seq : Nat, pos : Nat, reads : Nat]

LEMMA ShownStays ==
    ASSUME UNCHANGED vars, NEW c
    PROVE  Shown(iter[c].t)' = Shown(iter'[c].t)
<1>1. UNCHANGED <<streams, bufs, file, now, writer>>
  BY DEF vars
<1>2. Leaving(iter[c].t)' = Leaving(iter'[c].t)
  BY <1>1 DEF Leaving
<1>3. BufRecs(iter[c].t)' = BufRecs(iter'[c].t)
  BY <1>1 DEF BufRecs
<1>4. After(file[iter[c].t].recs, now - Retention)' = After(file[iter'[c].t].recs, now - Retention)
  BY <1>1
<1> QED BY <1>1, <1>2, <1>3, <1>4 DEF Shown

\* A client's step changes its own iterator i and history s only.
LEMMA ClientSteps ==
    ASSUME ReaderInv, UNCHANGED vars, NEW c \in Clients,
           NEW i \in IterType, NEW s \in Seq(1..emitted),
           iter' = [iter EXCEPT ![c] = i], seen' = [seen EXCEPT ![c] = s],
           HeldInv,
           i.step # "none" => i.t \in Tables,
           i.step = "checked" => i.type \in IterTypes,
           i.step # "ready" => s = << >>,
           Ascending(s),
           i.step = "ready" => Fresh(Shown(i.t), i.pos, s)
    PROVE  ReaderInv'
<1>1. CTypeOK /\ iter \in [Clients -> IterType] /\ seen \in [Clients -> Seq(1..MaxEvents)]
  BY DEF ReaderInv, CTypeOK, IterType
<1>2. s \in Seq(1..MaxEvents)
  <2>1. 1..emitted \subseteq 1..MaxEvents
    BY StreamsAssumption DEF HeldInv
  <2> QED BY <2>1, SeqMonotone
<1>3. CTypeOK'
  BY <1>1, <1>2 DEF CTypeOK, IterType
<1>4. emitted' = emitted
  BY DEF vars
<1>5. ASSUME NEW d \in Clients, d # c PROVE ClientInv(d)'
  <2>1. iter'[d] = iter[d] /\ seen'[d] = seen[d] /\ ClientInv(d)
    BY <1>1, <1>5 DEF ReaderInv
  <2>2. Shown(iter[d].t)' = Shown(iter[d].t)
    BY <2>1, ShownStays
  <2> QED BY <1>4, <2>1, <2>2 DEF ClientInv
<1>6. ClientInv(c)'
  <2>1. iter'[c] = i /\ seen'[c] = s
    BY <1>1
  <2>2. Shown(iter[c].t)' = Shown(i.t)
    BY <2>1, ShownStays
  <2> QED BY <1>4, <2>1, <2>2 DEF ClientInv
<1> QED BY <1>3, <1>5, <1>6 DEF ReaderInv

\* The steps of a client.
LEMMA ReaderStep ==
    ASSUME TypeOK, HeldInv, ReaderInv, NEW c \in Clients, ConsumerStep(c)
    PROVE  ReaderInv'
<1> USE StreamsAssumption, ConsumersAssumption
<1>1. /\ iter \in [Clients -> IterType] /\ seen \in [Clients -> Seq(1..MaxEvents)]
      /\ ClientInv(c) /\ emitted \in Nat
  BY DEF ReaderInv, CTypeOK, IterType, TypeOK
<1>2. iter[c] \in IterType /\ seen[c] \in Seq(1..emitted) /\ Ascending(seen[c])
  BY <1>1 DEF ClientInv
<1>3. << >> \in Seq(1..emitted) /\ Ascending(<< >>)
  BY DEF Ascending
<1>4. ASSUME NEW t \in Tables, NEW type \in IterTypes, NEW seq \in Nat, CheckStream(c, t, type, seq)
      PROVE  ReaderInv'
  <2> DEFINE i == [step |-> "checked", t |-> t, type |-> type, seq |-> seq, pos |-> 0, reads |-> 0]
  <2>1. /\ i \in IterType /\ i.step = "checked" /\ i.t = t /\ i.type = type
        /\ iter' = [iter EXCEPT ![c] = i] /\ seen' = [seen EXCEPT ![c] = << >>]
        /\ UNCHANGED vars
    BY <1>4 DEF CheckStream, IterType
  <2> HIDE DEF i
  <2> QED BY <1>3, <2>1, ClientSteps
<1>5. ASSUME Position(c) PROVE ReaderInv'
  <2> DEFINE t == iter[c].t
             pos == IF streams[t] = Nil THEN 0 ELSE StartPos(Records(t), iter[c])
             i == [NoIter EXCEPT !.step = "ready", !.t = t, !.pos = pos]
  <2>1. /\ iter' = [iter EXCEPT ![c] = i] /\ UNCHANGED vars
        /\ iter[c].step = "checked" /\ seen' = seen
    BY <1>5 DEF Position
  <2>2. t \in Tables /\ iter[c].type \in IterTypes /\ seen[c] = << >>
    BY <1>1, <2>1 DEF ClientInv
  <2>3. pos \in Nat
    <3>1. CASE streams[t] = Nil
      BY <3>1
    <3>2. CASE streams[t] # Nil
      <4>1. Numbered(Records(t), emitted)
        BY <2>2, <3>2, ShownNumbered DEF Records, Shown
      <4>2. StartPos(Records(t), iter[c]) \in Nat
        BY <1>1, <2>2, <4>1, StartPosType
      <4> QED BY <3>2, <4>2
    <3> QED BY <3>1, <3>2
  <2>4. i \in IterType /\ i.step = "ready" /\ i.t = t
    <3> HIDE DEF t, pos
    <3> QED BY <2>2, <2>3 DEF NoIter, IterType
  <2>5. seen' = [seen EXCEPT ![c] = << >>]
    BY <1>1, <2>1, <2>2
  <2> HIDE DEF i, pos, t
  <2>6. Fresh(Shown(i.t), i.pos, << >>)
    BY DEF Fresh
  <2> QED BY <1>3, <2>1, <2>2, <2>4, <2>5, <2>6, ClientSteps
<1>6. ASSUME NEW limit \in Limits, GetStreamRecords(c, limit) PROVE ReaderInv'
  <2> DEFINE t == iter[c].t
  <2>1. /\ iter[c].step = "ready" /\ UNCHANGED vars /\ t \in Tables
        /\ Fresh(Shown(t), iter[c].pos, seen[c]) /\ limit \in Nat
    BY <1>1, <1>6 DEF GetStreamRecords, ClientInv
  <2>2. CASE streams[t] = Nil
    <3> DEFINE i == [iter[c] EXCEPT !.reads = @ + 1]
    <3>1. iter' = [iter EXCEPT ![c] = i] /\ seen' = [seen EXCEPT ![c] = seen[c]]
      BY <1>1, <1>6, <2>2 DEF GetStreamRecords
    <3>2. i \in IterType /\ i.step = "ready" /\ i.t = t /\ i.pos = iter[c].pos
      BY <1>2, <2>1 DEF IterType
    <3> HIDE DEF i
    <3> QED BY <1>2, <2>1, <3>1, <3>2, ClientSteps
  <2>3. CASE streams[t] # Nil
    <3> DEFINE recs == Records(t)
               len == Cardinality(recs)
               start == IF iter[c].pos > len THEN len ELSE iter[c].pos
               end == IF start + limit < len THEN start + limit ELSE len
               batch == AtOrAfter(recs, start) \ AtOrAfter(recs, end)
               i == [iter[c] EXCEPT !.pos = end, !.reads = @ + 1]
               s == seen[c] \o InOrder(batch)
    <3>1. iter' = [iter EXCEPT ![c] = i] /\ seen' = [seen EXCEPT ![c] = s]
      BY <1>1, <1>6, <2>3 DEF GetStreamRecords
    <3>2. recs = Shown(t) /\ Numbered(recs, emitted)
      BY <2>1, <2>3, ShownNumbered DEF Records, Shown
    <3>3. len \in Nat
      BY <1>1, <3>2, NumberedFinite
    <3>4. iter[c].pos \in Nat
      BY <1>2 DEF IterType
    <3>5. /\ batch \in SUBSET recs
          /\ \A r \in batch : Rank(recs, r) >= start /\ ~(Rank(recs, r) >= end)
      BY DEF AtOrAfter
    <3> HIDE DEF recs, batch
    <3>6. /\ start \in Nat /\ end \in Nat /\ start <= end /\ end <= Cardinality(recs)
          /\ start < iter[c].pos => start = Cardinality(recs)
      BY <2>1, <3>3, <3>4
    <3> HIDE DEF len, start, end
    <3>7. i \in IterType /\ i.step = "ready" /\ i.t = t /\ i.pos = end
      <4>1. iter[c].reads + 1 \in Nat
        BY <1>2 DEF IterType
      <4> QED BY <1>2, <2>1, <3>6, <4>1 DEF IterType
    <3> HIDE DEF i
    <3>8. s \in Seq(1..emitted) /\ Ascending(s) /\ Fresh(recs, end, s)
      BY <1>1, <1>2, <2>1, <3>2, <3>4, <3>5, <3>6, ReadFresh
    <3> HIDE DEF s
    <3>9. Fresh(Shown(i.t), i.pos, s)
      BY <3>2, <3>7, <3>8
    <3> QED BY <2>1, <3>1, <3>7, <3>8, <3>9, ClientSteps
  <2> QED BY <2>2, <2>3
<1>7. ASSUME CallLost(c) PROVE ReaderInv'
  <2>1. /\ iter[c].step = "checked" /\ iter' = [iter EXCEPT ![c] = NoIter]
        /\ UNCHANGED vars /\ seen' = seen
    BY <1>7 DEF CallLost
  <2>2. seen' = [seen EXCEPT ![c] = << >>]
    BY <1>1, <2>1 DEF ClientInv
  <2>3. NoIter \in IterType /\ NoIter.step = "none"
    BY DEF NoIter, IterType
  <2> QED BY <1>3, <2>1, <2>2, <2>3, ClientSteps
<1>8. \A n \in 1..MaxEvents : MsPerTick + n \in Nat
  OBVIOUS
<1>9. BySeq \subseteq IterTypes
  BY DEF BySeq, IterTypes
<1> QED BY <1>4, <1>5, <1>6, <1>7, <1>8, <1>9 DEF ConsumerStep

LEMMA ReaderInvStep ==
    ASSUME "read" \notin Faults
    PROVE  TypeOK /\ TypeOK' /\ Pointers /\ NoResurrection /\ HeldInv /\ HeldInv' /\ ReaderInv
              /\ [CNext]_allVars => ReaderInv'
<1> SUFFICES ASSUME TypeOK, TypeOK', Pointers, NoResurrection, HeldInv, HeldInv', ReaderInv,
                    [CNext]_allVars
             PROVE  ReaderInv'
  OBVIOUS
<1>1. ASSUME NEW c \in Clients, ConsumerStep(c) PROVE ReaderInv'
  BY <1>1, ReaderStep
<1>2. ASSUME [Next]_vars, UNCHANGED consumerVars PROVE ReaderInv'
  <2>1. CTypeOK /\ CTypeOK'
    BY <1>2 DEF ReaderInv, CTypeOK, consumerVars
  <2>2. ASSUME NEW c \in Clients PROVE ClientInv(c)'
    BY <1>2, <2>1, ClientUnderStorage DEF ReaderInv
  <2> QED BY <2>1, <2>2 DEF ReaderInv
<1>3. UNCHANGED allVars => UNCHANGED vars /\ UNCHANGED consumerVars
  BY DEF allVars
<1> QED BY <1>1, <1>2, <1>3 DEF CNext

\* Unless reading a stream file fails, a client that follows its iterator gets
\* records in the order of their emission and none twice, whatever is trimmed,
\* deleted, restarted or recreated between its calls.
THEOREM ReadersSeeEachOnce ==
    ASSUME "read" \notin Faults
    PROVE  CSpec => []InOrderOnce
<1>1. Init => NoResurrection
  BY DEF Init, NoResurrection
<1>2. ReaderInv => InOrderOnce
  BY DEF ReaderInv, ClientInv, Ascending, InOrderOnce
<1>3. CInit => Init
  BY DEF CInit
<1> QED BY <1>1, <1>2, <1>3, StorageStep, TypeInit, TypeStep, PointersInit, PointersStep,
           NoResurrectionStep, HeldInit, HeldInvStep, ReaderInit, ReaderInvStep, PTL
        DEF CSpec

\* The same clients in view, a kill still loses no record they can read.
THEOREM ReadRecordsAreDurable ==
    ASSUME "open" \notin Faults, "write" \notin Faults
    PROVE  CSpec => []BufferIsDurable
BY StorageUnchanged, KillLosesNoRecord, PTL

-----------------------------------------------------------------------------
(* Resuming by sequence number. *)

\* What is known of an iterator even where a failed read lets old records
\* come back.
IterInv ==
    /\ iter \in [Clients -> IterType]
    /\ \A c \in Clients : iter[c].step # "none" => iter[c].t \in Tables
    /\ \A c \in Clients : iter[c].step = "checked" => iter[c].type \in IterTypes

LEMMA IterInit == CInit => IterInv
BY DEF CInit, IterInv, IterType, NoIter

LEMMA IterStep == TypeOK /\ HeldInv /\ IterInv /\ [CNext]_allVars => IterInv'
<1> SUFFICES ASSUME TypeOK, HeldInv, IterInv, [CNext]_allVars PROVE IterInv'
  OBVIOUS
<1> USE StreamsAssumption, ConsumersAssumption
<1>1. iter \in [Clients -> IterType] /\ emitted \in Nat
  BY DEF IterInv, TypeOK
<1>2. ASSUME NEW c \in Clients, NEW i \in IterType, iter' = [iter EXCEPT ![c] = i],
             i.step # "none" => i.t \in Tables,
             i.step = "checked" => i.type \in IterTypes
      PROVE  IterInv'
  BY <1>1, <1>2 DEF IterInv
<1>3. ASSUME UNCHANGED iter PROVE IterInv'
  BY <1>3 DEF IterInv
<1>4. ASSUME NEW c \in Clients, NEW t \in Tables, NEW type \in IterTypes, NEW seq \in Nat,
             CheckStream(c, t, type, seq)
      PROVE  IterInv'
  <2> DEFINE i == [step |-> "checked", t |-> t, type |-> type, seq |-> seq, pos |-> 0, reads |-> 0]
  <2>1. /\ i \in IterType /\ i.step = "checked" /\ i.t = t /\ i.type = type
        /\ iter' = [iter EXCEPT ![c] = i]
    BY <1>4 DEF CheckStream, IterType
  <2> HIDE DEF i
  <2> QED BY <1>2, <2>1
<1>5. ASSUME NEW c \in Clients, Position(c) PROVE IterInv'
  <2> DEFINE t == iter[c].t
             pos == IF streams[t] = Nil THEN 0 ELSE StartPos(Records(t), iter[c])
             i == [NoIter EXCEPT !.step = "ready", !.t = t, !.pos = pos]
  <2>1. iter' = [iter EXCEPT ![c] = i] /\ iter[c].step = "checked"
    BY <1>5 DEF Position
  <2>2. t \in Tables /\ iter[c].type \in IterTypes
    BY <2>1 DEF IterInv
  <2>3. pos \in Nat
    <3>1. CASE streams[t] = Nil
      BY <3>1
    <3>2. CASE streams[t] # Nil
      <4>1. Numbered(Records(t), emitted)
        BY <2>2, <3>2, ShownNumbered DEF Records, Shown
      <4>2. StartPos(Records(t), iter[c]) \in Nat
        BY <1>1, <2>2, <4>1, StartPosType
      <4> QED BY <3>2, <4>2
    <3> QED BY <3>1, <3>2
  <2>4. i \in IterType /\ i.step = "ready" /\ i.t = t
    <3> HIDE DEF t, pos
    <3> QED BY <2>2, <2>3 DEF NoIter, IterType
  <2> HIDE DEF i, pos, t
  <2> QED BY <1>2, <2>1, <2>2, <2>4
<1>6. ASSUME NEW c \in Clients, NEW limit \in Limits, GetStreamRecords(c, limit) PROVE IterInv'
  <2> DEFINE t == iter[c].t
  <2>1. iter[c] \in IterType /\ iter[c].step = "ready" /\ t \in Tables /\ limit \in Nat
    BY <1>1, <1>6 DEF GetStreamRecords, IterInv
  <2>2. iter[c].reads + 1 \in Nat /\ iter[c].pos \in Nat
    BY <2>1 DEF IterType
  <2>3. CASE streams[t] = Nil
    <3> DEFINE i == [iter[c] EXCEPT !.reads = @ + 1]
    <3>1. iter' = [iter EXCEPT ![c] = i]
      BY <1>1, <1>6, <2>3 DEF GetStreamRecords
    <3>2. i \in IterType /\ i.step = "ready" /\ i.t = t
      BY <2>1, <2>2 DEF IterType
    <3> HIDE DEF i
    <3> QED BY <1>2, <2>1, <3>1, <3>2
  <2>4. CASE streams[t] # Nil
    <3> DEFINE recs == Records(t)
               len == Cardinality(recs)
               start == IF iter[c].pos > len THEN len ELSE iter[c].pos
               end == IF start + limit < len THEN start + limit ELSE len
               i == [iter[c] EXCEPT !.pos = end, !.reads = @ + 1]
    <3>1. iter' = [iter EXCEPT ![c] = i]
      BY <1>1, <1>6, <2>4 DEF GetStreamRecords
    <3>2. Numbered(recs, emitted)
      BY <2>1, <2>4, ShownNumbered DEF Records, Shown
    <3>3. len \in Nat
      BY <1>1, <3>2, NumberedFinite
    <3> HIDE DEF recs, len
    <3>4. end \in Nat
      BY <2>1, <2>2, <3>3
    <3> HIDE DEF start, end
    <3>5. i \in IterType /\ i.step = "ready" /\ i.t = t
      BY <2>1, <2>2, <3>4 DEF IterType
    <3> HIDE DEF i
    <3> QED BY <1>2, <2>1, <3>1, <3>5
  <2> QED BY <2>3, <2>4
<1>7. ASSUME NEW c \in Clients, CallLost(c) PROVE IterInv'
  <2>1. NoIter \in IterType /\ NoIter.step = "none"
    BY DEF NoIter, IterType
  <2> QED BY <1>2, <1>7, <2>1 DEF CallLost
<1>8. \A n \in 1..MaxEvents : MsPerTick + n \in Nat
  OBVIOUS
<1>9. BySeq \subseteq IterTypes
  BY DEF BySeq, IterTypes
<1>10. ASSUME NEW c \in Clients, ConsumerStep(c) PROVE IterInv'
  BY <1>4, <1>5, <1>6, <1>7, <1>8, <1>9, <1>10 DEF ConsumerStep
<1> QED BY <1>3, <1>10 DEF CNext, allVars, consumerVars

\* A step that gives a resuming client its position.
Resumes(c) ==
    (iter[c].step = "checked" /\ iter'[c].step = "ready" /\ iter[c].type \in BySeq
       /\ streams[iter[c].t] # Nil)
    => AtOrAfter(Records(iter[c].t), iter'[c].pos) =
          {r \in Records(iter[c].t) :
              \/ r.seq > iter[c].seq
              \/ r.seq = iter[c].seq /\ iter[c].type = "AT_SEQUENCE_NUMBER"}

LEMMA ResumeStep ==
    TypeOK /\ HeldInv /\ SeqOrdered /\ IterInv /\ [CNext]_allVars
        => [\A c \in Clients : Resumes(c)]_allVars
<1> SUFFICES ASSUME TypeOK, HeldInv, SeqOrdered, IterInv, CNext, NEW c \in Clients,
                    iter[c].step = "checked", iter'[c].step = "ready", iter[c].type \in BySeq,
                    streams[iter[c].t] # Nil
             PROVE  AtOrAfter(Records(iter[c].t), iter'[c].pos) =
                       {r \in Records(iter[c].t) :
                           \/ r.seq > iter[c].seq
                           \/ r.seq = iter[c].seq /\ iter[c].type = "AT_SEQUENCE_NUMBER"}
  BY DEF Resumes
<1> DEFINE t == iter[c].t
           recs == Records(t)
<1>1. iter \in [Clients -> IterType] /\ t \in Tables /\ emitted \in Nat /\ iter[c].seq \in Nat
  BY DEF IterInv, IterType, TypeOK
<1>2. Position(c)
  <2>1. ASSUME Next /\ UNCHANGED consumerVars PROVE FALSE
    BY <2>1 DEF consumerVars
  <2>2. ASSUME NEW d \in Clients, ConsumerStep(d), d # c PROVE FALSE
    <3>1. iter'[c] = iter[c]
      BY <1>1, <2>2 DEF ConsumerStep, CheckStream, Position, GetStreamRecords, CallLost
    <3> QED BY <3>1
  <2>3. ASSUME ConsumerStep(c), ~Position(c) PROVE FALSE
    BY <1>1, <2>3 DEF ConsumerStep, CheckStream, GetStreamRecords, CallLost, NoIter
  <2> QED BY <2>1, <2>2, <2>3 DEF CNext
<1>3. iter'[c].pos = StartPos(recs, iter[c])
  BY <1>1, <1>2 DEF Position, NoIter
<1>4. StartPos(recs, iter[c]) = FindSeqPos(recs, iter[c].seq, iter[c].type)
  BY DEF StartPos, BySeq
<1>5. Numbered(recs, emitted)
  BY <1>1, ShownNumbered DEF Records, Shown
<1>6. Ordered(recs)
  BY <1>1 DEF SeqOrdered, Records
<1> HIDE DEF t, recs
<1>7. AtOrAfter(recs, FindSeqPos(recs, iter[c].seq, iter[c].type)) =
         {r \in recs : r.seq > iter[c].seq \/
                       (r.seq = iter[c].seq /\ iter[c].type = "AT_SEQUENCE_NUMBER")}
  BY <1>1, <1>5, <1>6, FindSeqPosExact
<1> QED BY <1>3, <1>4, <1>7 DEF t, recs

\* While the sequence counter does not overtake the clock, an iterator made by
\* sequence number stands before exactly the records it should: resuming
\* neither skips nor repeats, across restarts and failed reads too.
THEOREM ResumingIsExact ==
    ASSUME ClockLeads
    PROVE  CSpec => ResumeIsExact
<1>1. CInit => Init
  BY DEF CInit
<1> QED BY <1>1, StorageStep, StorageUnchanged, TypeInit, TypeStep, HeldInit, HeldInvStep,
           SequenceNumbersOrdered, IterInit, IterStep, ResumeStep, PTL
        DEF CSpec, ResumeIsExact, Resumes

=============================================================================
