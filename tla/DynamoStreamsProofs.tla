------------------------- MODULE DynamoStreamsProofs -------------------------
(***************************************************************************)
(* Theorems about DynamoStreams, for every set of tables, views and        *)
(* buffers, every retention period and every choice of failing calls.      *)
(***************************************************************************)
EXTENDS DynamoStreams, TLAPS

-----------------------------------------------------------------------------
(* The operators on files. *)

\* A filtered set of records is a part of it.
LEMMA AfterSubset ==
    ASSUME NEW recs, NEW cutoff
    PROVE  After(recs, cutoff) \subseteq recs
BY DEF After

\* An append keeps the records of the file and adds at most the new one.
LEMMA AppendType ==
    ASSUME NEW f \in StreamFile, NEW r \in Record, NEW g \in AppendOutcomes(f, r)
    PROVE  /\ g \in StreamFile
           /\ f.recs \subseteq g.recs
           /\ g.recs \subseteq f.recs \cup {r}
<1>1. CASE g = [recs |-> IF f.torn THEN f.recs ELSE f.recs \cup {r}, torn |-> FALSE]
  BY <1>1 DEF StreamFile
<1>2. CASE g = f
  BY <1>2 DEF StreamFile
<1>3. CASE g = [f EXCEPT !.torn = TRUE]
  BY <1>3 DEF StreamFile
<1> QED BY <1>1, <1>2, <1>3 DEF AppendOutcomes

\* A rewrite leaves the old file or a file of exactly the records given.
LEMMA RewriteType ==
    ASSUME NEW f \in StreamFile, NEW recs, recs \subseteq Record,
           NEW g \in RewriteOutcomes(f, recs)
    PROVE  /\ g \in StreamFile
           /\ g = f \/ (g.recs = recs /\ ~g.torn)
<1>1. CASE g = [recs |-> recs, torn |-> FALSE]
  BY <1>1 DEF StreamFile
<1>2. CASE g = f
  BY <1>2
<1> QED BY <1>1, <1>2 DEF RewriteOutcomes

\* Loading reads a part of the file, leaves a part of it, and, when it does not
\* fail, reads every record that has not expired.
LEMMA LoadType ==
    ASSUME NEW f \in StreamFile, NEW l \in LoadOutcomes(f)
    PROVE  /\ l.recs \in SUBSET Record
           /\ l.file \in StreamFile
           /\ l.recs \subseteq f.recs
           /\ l.file.recs \subseteq f.recs
           /\ "read" \notin Faults => l.recs = After(f.recs, now - Retention)
<1> DEFINE keep == After(f.recs, now - Retention)
<1>1. keep \subseteq f.recs /\ keep \in SUBSET Record
  BY AfterSubset DEF StreamFile
<1>2. CASE keep = f.recs /\ ~f.torn /\ l = [recs |-> keep, file |-> f]
  BY <1>1, <1>2 DEF StreamFile
<1>3. CASE \E g \in RewriteOutcomes(f, keep) : l = [recs |-> keep, file |-> g]
  <2>1. PICK g \in RewriteOutcomes(f, keep) : l = [recs |-> keep, file |-> g]
    BY <1>3
  <2>2. g \in StreamFile /\ (g = f \/ g.recs = keep)
    BY <1>1, RewriteType
  <2> QED BY <1>1, <2>1, <2>2
<1>4. CASE "read" \in Faults /\ l = [recs |-> {}, file |-> f]
  BY <1>4 DEF StreamFile
<1> QED BY <1>2, <1>3, <1>4 DEF LoadOutcomes, Fails

\* The choices of a start: the tables loaded, their buffers, what was loaded
\* and the counter's new value.
LEMMA StartChoice ==
    ASSUME Start
    PROVE  \E S, ids, l, m :
              /\ S \subseteq Tables
              /\ ids \in [S -> BufIds]
              /\ m \in {Clock} \cup {r.seq : r \in UNION {l[t].recs : t \in S}}
              /\ Restore(S, ids, l, m)
<1>1. PICK S \in Loads :
       \E ids \in [S -> BufIds] :
       \E l \in [S -> UNION {LoadOutcomes(file[t]) : t \in S}] :
       \E m \in {Clock} \cup {r.seq : r \in UNION {l[t].recs : t \in S}} :
          Restore(S, ids, l, m)
  BY DEF Start
<1>2. PICK ids \in [S -> BufIds] :
       \E l \in [S -> UNION {LoadOutcomes(file[t]) : t \in S}] :
       \E m \in {Clock} \cup {r.seq : r \in UNION {l[t].recs : t \in S}} :
          Restore(S, ids, l, m)
  BY <1>1
<1>3. PICK l \in [S -> UNION {LoadOutcomes(file[t]) : t \in S}] :
       \E m \in {Clock} \cup {r.seq : r \in UNION {l[t].recs : t \in S}} :
          Restore(S, ids, l, m)
  BY <1>2
<1>4. S \subseteq Tables
  BY DEF Loads
<1> QED BY <1>3, <1>4

-----------------------------------------------------------------------------
(* Type correctness. *)

LEMMA TypeInit == Init => TypeOK
BY StreamsAssumption
   DEF Init, TypeOK, NoFile, StreamFile, Buffer, Idle, TrimIdle, WriterSteps

LEMMA TypeStep == TypeOK /\ [Next]_vars => TypeOK'
<1> SUFFICES ASSUME TypeOK, [Next]_vars PROVE TypeOK'
  OBVIOUS
<1> USE StreamsAssumption
<1>1. ASSUME NEW t \in Tables, NEW view \in Views \cup {"nil", "off"}, CreateTable(t, view)
      PROVE  TypeOK'
  BY <1>1 DEF CreateTable, TypeOK, Meta, CorruptMeta, Step, Idle, WriterSteps
<1>2. ASSUME NEW t \in Tables, NEW view \in Views \cup {"nil", "off"}, UpdateTable(t, view)
      PROVE  TypeOK'
  <2>1. meta[t] \in Meta
    BY <1>2 DEF UpdateTable, Readable, TypeOK
  <2>2. meta' \in [Tables -> Meta \cup {NoTable, CorruptMeta}]
    BY <1>2, <2>1 DEF UpdateTable, TypeOK, Meta
  <2>3. /\ writer' \in [step : WriterSteps, t : Tables \cup {Nil}, buf : BufIds \cup {Nil}]
        /\ writer'.step # "idle" => writer'.t \in Tables
    BY <1>2 DEF UpdateTable, StreamStep, Step, Idle, WriterSteps
  <2>4. labels' \in Nat
    BY <1>2 DEF UpdateTable, TypeOK
  <2> QED BY <1>2, <2>2, <2>3, <2>4 DEF UpdateTable, TypeOK
<1>3. ASSUME NEW t \in Tables, RewriteMeta(t) PROVE TypeOK'
  BY <1>3 DEF RewriteMeta, TypeOK
<1>4. ASSUME NEW t \in Tables, DeleteTable(t) PROVE TypeOK'
  BY <1>4 DEF DeleteTable, TypeOK, Step, WriterSteps
<1>5. ASSUME NEW t \in Tables, Emit(t) PROVE TypeOK'
  <2> DEFINE b == streams[t]
             r == [n |-> emitted + 1, seq |-> seqNum + 1, at |-> now,
                   label |-> meta[t].label]
  <2>1. meta[t] \in Meta
    BY <1>5 DEF Emit, Readable, TypeOK
  <2>2. r \in Record
    BY <2>1 DEF TypeOK, Meta, Record
  <2>3. b \in BufIds
    BY <1>5 DEF Emit, TypeOK
  <2>4. CASE bufs[b].deleted
    BY <1>5, <2>4 DEF Emit, TypeOK
  <2>5. CASE ~bufs[b].deleted
    <3> HIDE DEF r
    <3>1. PICK g \in AppendOutcomes(file[t], r) :
             /\ file' = [file EXCEPT ![t] = g]
             /\ bufs' = [bufs EXCEPT ![b].recs = @ \cup {r}]
      BY <1>5, <2>5 DEF Emit, r
    <3>2. file[t] \in StreamFile
      BY DEF TypeOK
    <3>3. g \in StreamFile
      BY <2>2, <3>2, AppendType
    <3>4. bufs' \in [BufIds -> Buffer]
      BY <2>2, <2>3, <3>1 DEF TypeOK, Buffer
    <3> QED BY <1>5, <3>1, <3>3, <3>4 DEF Emit, TypeOK
  <2> QED BY <2>4, <2>5
<1>6. ASSUME EnsureStreamBuffer PROVE TypeOK'
  <2> DEFINE t == writer.t
  <2>1. t \in Tables
    BY <1>6 DEF EnsureStreamBuffer, TypeOK
  <2>2. CASE streams[t] # Nil
    BY <1>6, <2>2 DEF EnsureStreamBuffer, TypeOK, Idle, WriterSteps
  <2>3. CASE streams[t] = Nil
    <3>1. PICK b \in {x \in BufIds : Free(x)}, l \in LoadOutcomes(file[t]) :
             /\ streams' = [streams EXCEPT ![t] = b]
             /\ bufs' = [bufs EXCEPT ![b] = [recs |-> l.recs, deleted |-> FALSE]]
             /\ file' = [file EXCEPT ![t] = l.file]
      BY <1>6, <2>3 DEF EnsureStreamBuffer
    <3>2. file[t] \in StreamFile
      BY <2>1 DEF TypeOK
    <3>3. l.recs \in SUBSET Record /\ l.file \in StreamFile
      BY <3>2, LoadType
    <3>4. bufs' \in [BufIds -> Buffer]
      BY <3>1, <3>3 DEF TypeOK, Buffer
    <3> QED BY <1>6, <2>1, <3>1, <3>3, <3>4
            DEF EnsureStreamBuffer, TypeOK, Idle, WriterSteps
  <2> QED BY <2>2, <2>3
<1>7. ASSUME Unmap PROVE TypeOK'
  BY <1>7 DEF Unmap, TypeOK, WriterSteps
<1>8. ASSUME MarkDeleted PROVE TypeOK'
  <2>1. bufs' \in [BufIds -> Buffer]
    BY <1>8 DEF MarkDeleted, TypeOK, Buffer
  <2> QED BY <1>8, <2>1 DEF MarkDeleted, TypeOK, Step, WriterSteps
<1>9. ASSUME RemoveStreamFile PROVE TypeOK'
  <2>1. NoFile \in StreamFile
    BY DEF NoFile, StreamFile
  <2> QED BY <1>9, <2>1 DEF RemoveStreamFile, TypeOK, Idle, WriterSteps
<1>10. ASSUME TrimStart PROVE TypeOK'
  BY <1>10 DEF TrimStart, TypeOK
<1>11. ASSUME NEW t \in Tables, TrimGet(t) PROVE TypeOK'
  BY <1>11 DEF TrimGet, TypeOK
<1>12. ASSUME TrimApply PROVE TypeOK'
  <2> DEFINE b == trim.buf
             keep == After(bufs[b].recs, trim.cutoff)
  <2>1. /\ b \in BufIds /\ trim.t \in Tables
        /\ trim' \in [step : {"wait", "next", "apply"}, todo : SUBSET Tables,
                      cutoff : Int, t : Tables \cup {Nil}, buf : BufIds \cup {Nil}]
        /\ trim'.step = "next"
    BY <1>12 DEF TrimApply, TypeOK
  <2>2. CASE bufs' = bufs /\ file' = file
    BY <1>12, <2>1, <2>2 DEF TrimApply, TypeOK
  <2>3. CASE /\ bufs' = [bufs EXCEPT ![b].recs = keep]
             /\ \E g \in RewriteOutcomes(file[trim.t], keep) :
                   file' = [file EXCEPT ![trim.t] = g]
    <3>1. keep \subseteq Record
      BY <2>1, AfterSubset DEF TypeOK, Buffer
    <3>2. bufs' \in [BufIds -> Buffer]
      BY <2>1, <2>3, <3>1 DEF TypeOK, Buffer
    <3> HIDE DEF keep
    <3>3. file[trim.t] \in StreamFile
      BY <2>1 DEF TypeOK
    <3>4. PICK g \in RewriteOutcomes(file[trim.t], keep) :
             file' = [file EXCEPT ![trim.t] = g]
      BY <2>3
    <3>5. g \in StreamFile
      BY <3>1, <3>3, RewriteType
    <3>6. file' \in [Tables -> StreamFile]
      BY <3>4, <3>5 DEF TypeOK
    <3> QED BY <1>12, <2>1, <3>2, <3>6 DEF TrimApply, TypeOK
  <2> QED BY <1>12, <2>2, <2>3 DEF TrimApply
<1>13. ASSUME TrimDone PROVE TypeOK'
  BY <1>13 DEF TrimDone, TypeOK, TrimIdle
<1>14. ASSUME Tick PROVE TypeOK'
  BY <1>14 DEF Tick, TypeOK
<1>15. ASSUME Stop PROVE TypeOK'
  <2>1. /\ bufs' \in [BufIds -> Buffer]
        /\ streams' \in [Tables -> BufIds \cup {Nil}]
    BY <1>15 DEF Stop, Buffer
  <2>2. /\ writer' \in [step : WriterSteps, t : Tables \cup {Nil}, buf : BufIds \cup {Nil}]
        /\ writer'.step = "idle"
    BY <1>15 DEF Stop, Idle, WriterSteps
  <2>3. /\ trim' \in [step : {"wait", "next", "apply"}, todo : SUBSET Tables,
                      cutoff : Int, t : Tables \cup {Nil}, buf : BufIds \cup {Nil}]
        /\ trim'.step = "wait"
    BY <1>15 DEF Stop, TrimIdle
  <2> QED BY <1>15, <2>1, <2>2, <2>3 DEF Stop, TypeOK
<1>16. ASSUME Start PROVE TypeOK'
  <2>1. PICK S, ids, l, m :
           /\ S \subseteq Tables
           /\ ids \in [S -> BufIds]
           /\ m \in {Clock} \cup {r.seq : r \in UNION {l[t].recs : t \in S}}
           /\ Restore(S, ids, l, m)
    BY <1>16, StartChoice
  <2>3. \A t \in S : l[t].recs \in SUBSET Record /\ l[t].file \in StreamFile
    BY <2>1, LoadType DEF TypeOK, Restore
  <2>4. bufs' \in [BufIds -> Buffer]
    BY <2>1, <2>3 DEF Buffer, Restore
  <2>5. file' \in [Tables -> StreamFile]
    BY <2>1, <2>3 DEF TypeOK, Restore
  <2>6. streams' \in [Tables -> BufIds \cup {Nil}]
    BY <2>1 DEF Restore
  <2>7. seqNum' \in Nat
    <3>1. Clock \in Nat
      BY DEF Clock, TypeOK
    <3>2. \A r \in UNION {l[t].recs : t \in S} : r.seq \in Nat
      BY <2>3 DEF Record
    <3> QED BY <2>1, <3>1, <3>2 DEF Restore
  <2> QED BY <1>16, <2>4, <2>5, <2>6, <2>7 DEF Start, TypeOK
<1>17. ASSUME UNCHANGED vars PROVE TypeOK'
  BY <1>17 DEF vars, TypeOK
<1> QED BY <1>1, <1>2, <1>3, <1>4, <1>5, <1>6, <1>7, <1>8, <1>9, <1>10, <1>11,
           <1>12, <1>13, <1>14, <1>15, <1>16, <1>17
        DEF Next, TableOp, WriterStep, TrimStep

\* The model's type invariant holds in every reachable state: no operation, and
\* no failure of one, leaves metadata, file, buffer or pointer ill-formed.
THEOREM TypeCorrect == Spec => []TypeOK
BY TypeInit, TypeStep, PTL DEF Spec

-----------------------------------------------------------------------------
(* Who can hold which buffer.  A buffer serves one table; the one that      *)
(* deleteStreamBuffer is about to mark is out of the map; the one that the  *)
(* trim goroutine holds is the table's own, or is about to be marked, or is *)
(* marked.                                                                 *)

DownIsClear ==
    ~up => writer = Idle /\ trim = TrimIdle /\ \A t \in Tables : streams[t] = Nil

OwnBuffer ==
    \A t, u \in Tables : streams[t] # Nil /\ streams[t] = streams[u] => t = u

WriterHolds ==
    /\ writer.step # "mark" => writer.buf = Nil
    /\ writer.step \in {"mark", "rmfile"} => streams[writer.t] = Nil
    /\ \A t \in Tables : streams[t] # Nil => streams[t] # writer.buf

TrimHolds ==
    (trim.step = "apply" /\ ~bufs[trim.buf].deleted)
        => \/ streams[trim.t] = trim.buf
           \/ writer.step = "mark" /\ writer.t = trim.t /\ writer.buf = trim.buf

CutoffPassed == trim.step # "wait" => trim.cutoff <= now - Retention

Pointers == DownIsClear /\ OwnBuffer /\ WriterHolds /\ TrimHolds /\ CutoffPassed

LEMMA PointersInit == Init => Pointers
BY StreamsAssumption
   DEF Init, Pointers, DownIsClear, OwnBuffer, WriterHolds, TrimHolds, CutoffPassed,
       Idle, TrimIdle

LEMMA PointersStep == TypeOK /\ Pointers /\ [Next]_vars => Pointers'
<1> SUFFICES ASSUME TypeOK, Pointers, [Next]_vars PROVE Pointers'
  OBVIOUS
<1> USE StreamsAssumption DEF Pointers
<1>1. ASSUME NEW t \in Tables, NEW view \in Views \cup {"nil", "off"}, CreateTable(t, view)
      PROVE  Pointers'
  BY <1>1 DEF CreateTable, MayWrite, Idle, Step,
              DownIsClear, OwnBuffer, WriterHolds, TrimHolds, CutoffPassed
<1>2. ASSUME NEW t \in Tables, NEW view \in Views \cup {"nil", "off"}, UpdateTable(t, view)
      PROVE  Pointers'
  BY <1>2 DEF UpdateTable, MayWrite, Idle, Step, StreamStep,
              DownIsClear, OwnBuffer, WriterHolds, TrimHolds, CutoffPassed
<1>3. ASSUME NEW t \in Tables, RewriteMeta(t) PROVE Pointers'
  BY <1>3 DEF RewriteMeta,
              DownIsClear, OwnBuffer, WriterHolds, TrimHolds, CutoffPassed
<1>4. ASSUME NEW t \in Tables, DeleteTable(t) PROVE Pointers'
  BY <1>4 DEF DeleteTable, MayWrite, Idle, Step,
              DownIsClear, OwnBuffer, WriterHolds, TrimHolds, CutoffPassed
<1>5. ASSUME NEW t \in Tables, Emit(t) PROVE Pointers'
  <2>1. \A b \in BufIds : bufs'[b].deleted = bufs[b].deleted
    BY <1>5 DEF Emit, TypeOK, Buffer
  <2> QED BY <1>5, <2>1 DEF Emit, TypeOK,
              DownIsClear, OwnBuffer, WriterHolds, TrimHolds, CutoffPassed
<1>6. ASSUME EnsureStreamBuffer PROVE Pointers'
  <2> DEFINE t == writer.t
  <2>0. t \in Tables /\ up /\ writer' = Idle /\ trim' = trim /\ now' = now /\ up' = up
    BY <1>6 DEF EnsureStreamBuffer, TypeOK
  <2>1. CASE UNCHANGED <<streams, bufs>>
    BY <1>6, <2>0, <2>1 DEF EnsureStreamBuffer, Idle,
              DownIsClear, OwnBuffer, WriterHolds, TrimHolds, CutoffPassed
  <2>2. CASE \E b \in {x \in BufIds : Free(x)}, l \in LoadOutcomes(file[t]) :
                /\ streams[t] = Nil
                /\ streams' = [streams EXCEPT ![t] = b]
                /\ bufs' = [bufs EXCEPT ![b] = [recs |-> l.recs, deleted |-> FALSE]]
    <3>1. PICK b \in BufIds, l \in LoadOutcomes(file[t]) :
                /\ Free(b)
                /\ streams[t] = Nil
                /\ streams' = [streams EXCEPT ![t] = b]
                /\ bufs' = [bufs EXCEPT ![b] = [recs |-> l.recs, deleted |-> FALSE]]
      BY <2>2
    <3>2. OwnBuffer'
      BY <2>0, <3>1 DEF OwnBuffer, Free, TypeOK
    <3>3. WriterHolds'
      BY <2>0, <3>1 DEF WriterHolds, Idle, TypeOK
    <3>4. TrimHolds'
      <4>1. trim.buf # b
        BY <3>1 DEF Free
      <4>2. trim.step = "apply" => bufs'[trim.buf] = bufs[trim.buf] /\ trim.t \in Tables
        BY <3>1, <4>1 DEF TypeOK
      <4>3. writer.step # "mark"
        BY <1>6 DEF EnsureStreamBuffer
      <4>4. ASSUME trim.step = "apply", ~bufs[trim.buf].deleted
            PROVE  streams'[trim.t] = trim.buf
        BY <2>0, <3>1, <4>2, <4>3, <4>4 DEF TrimHolds, TypeOK
      <4> QED BY <2>0, <4>2, <4>4 DEF TrimHolds
    <3> QED BY <2>0, <3>2, <3>3, <3>4 DEF DownIsClear, CutoffPassed
  <2> QED BY <1>6, <2>1, <2>2 DEF EnsureStreamBuffer
<1>7. ASSUME Unmap PROVE Pointers'
  <2>1. /\ writer.t \in Tables /\ writer.buf = Nil
        /\ streams' = [streams EXCEPT ![writer.t] = Nil]
        /\ writer'.step = "mark" /\ writer'.t = writer.t /\ writer'.buf = streams[writer.t]
        /\ UNCHANGED <<up, bufs, trim, now>> /\ up
    BY <1>7 DEF Unmap, TypeOK, WriterHolds
  <2>2. DownIsClear' /\ CutoffPassed'
    BY <2>1 DEF DownIsClear, CutoffPassed
  <2>3. OwnBuffer'
    BY <2>1 DEF OwnBuffer, TypeOK
  <2>4. WriterHolds'
    BY <2>1 DEF WriterHolds, OwnBuffer, TypeOK
  <2>5. TrimHolds'
    <3>1. ASSUME trim.step = "apply", ~bufs[trim.buf].deleted
          PROVE  streams[trim.t] = trim.buf
      BY <1>7, <3>1 DEF TrimHolds, Unmap
    <3>2. ASSUME trim.step = "apply" PROVE trim.t \in Tables
      BY <3>2 DEF TypeOK
    <3> QED BY <2>1, <3>1, <3>2 DEF TrimHolds, TypeOK
  <2> QED BY <2>2, <2>3, <2>4, <2>5
<1>8. ASSUME MarkDeleted PROVE Pointers'
  <2>1. /\ writer.step = "mark" /\ writer'.step = "rmfile" /\ writer'.t = writer.t
        /\ writer'.buf = Nil /\ UNCHANGED <<up, streams, trim, now>> /\ up
        /\ writer.buf \in BufIds => bufs'[writer.buf].deleted
        /\ \A b \in BufIds : bufs[b].deleted => bufs'[b].deleted
    BY <1>8 DEF MarkDeleted, Step, TypeOK, Buffer
  <2>2. DownIsClear' /\ CutoffPassed' /\ OwnBuffer' /\ WriterHolds'
    BY <2>1 DEF DownIsClear, CutoffPassed, OwnBuffer, WriterHolds
  <2>3. TrimHolds'
    BY <2>1 DEF TrimHolds, TypeOK
  <2> QED BY <2>2, <2>3
<1>9. ASSUME RemoveStreamFile PROVE Pointers'
  BY <1>9 DEF RemoveStreamFile, Idle,
              DownIsClear, OwnBuffer, WriterHolds, TrimHolds, CutoffPassed
<1>10. ASSUME TrimStart PROVE Pointers'
  BY <1>10 DEF TrimStart, TypeOK,
              DownIsClear, OwnBuffer, WriterHolds, TrimHolds, CutoffPassed
<1>11. ASSUME NEW t \in Tables, TrimGet(t) PROVE Pointers'
  BY <1>11 DEF TrimGet, TypeOK,
              DownIsClear, OwnBuffer, WriterHolds, TrimHolds, CutoffPassed
<1>12. ASSUME TrimApply PROVE Pointers'
  BY <1>12 DEF TrimApply, TypeOK,
              DownIsClear, OwnBuffer, WriterHolds, TrimHolds, CutoffPassed
<1>13. ASSUME TrimDone PROVE Pointers'
  BY <1>13 DEF TrimDone, TrimIdle,
              DownIsClear, OwnBuffer, WriterHolds, TrimHolds, CutoffPassed
<1>14. ASSUME Tick PROVE Pointers'
  BY <1>14 DEF Tick, TypeOK,
              DownIsClear, OwnBuffer, WriterHolds, TrimHolds, CutoffPassed
<1>15. ASSUME Stop PROVE Pointers'
  BY <1>15 DEF Stop, Idle, TrimIdle,
              DownIsClear, OwnBuffer, WriterHolds, TrimHolds, CutoffPassed
<1>16. ASSUME Start PROVE Pointers'
  <2>1. PICK S, ids, l, m :
           /\ S \subseteq Tables
           /\ ids \in [S -> BufIds]
           /\ m \in {Clock} \cup {r.seq : r \in UNION {l[t].recs : t \in S}}
           /\ Restore(S, ids, l, m)
    BY <1>16, StartChoice
  <2>2. up' /\ writer' = Idle /\ trim' = TrimIdle
    BY <1>16 DEF Start, DownIsClear
  <2>3. OwnBuffer'
    BY <2>1 DEF OwnBuffer, Restore
  <2>4. WriterHolds' /\ TrimHolds' /\ CutoffPassed' /\ DownIsClear'
    BY <2>2 DEF WriterHolds, TrimHolds, CutoffPassed, DownIsClear, Idle, TrimIdle
  <2> QED BY <2>3, <2>4
<1>17. ASSUME UNCHANGED vars PROVE Pointers'
  BY <1>17 DEF vars, DownIsClear, OwnBuffer, WriterHolds, TrimHolds, CutoffPassed
<1> QED BY <1>1, <1>2, <1>3, <1>4, <1>5, <1>6, <1>7, <1>8, <1>9, <1>10, <1>11,
           <1>12, <1>13, <1>14, <1>15, <1>16, <1>17
        DEF Next, TableOp, WriterStep, TrimStep

LEMMA PointersInvariant == Spec => []Pointers
BY TypeInit, TypeStep, PointersInit, PointersStep, PTL DEF Spec

-----------------------------------------------------------------------------
(* The file of a deleted stream. *)

LEMMA OrphanStep == TypeOK /\ Pointers /\ [Next]_vars => [OrphanFileKept]_vars
<1> SUFFICES ASSUME TypeOK, Pointers, Next,
                    NEW t \in Tables, streams[t] = Nil, streams'[t] = Nil, ~Deleting(t)
             PROVE  file'[t] = file[t]
  BY DEF OrphanFileKept
<1> USE StreamsAssumption
<1>1. ASSUME NEW u \in Tables, TableOp(u) PROVE file'[t] = file[t]
  BY <1>1 DEF TableOp, CreateTable, UpdateTable, RewriteMeta, DeleteTable
<1>2. ASSUME NEW u \in Tables, Emit(u) PROVE file'[t] = file[t]
  BY <1>2 DEF Emit, TypeOK
<1>3. ASSUME EnsureStreamBuffer PROVE file'[t] = file[t]
  BY <1>3 DEF EnsureStreamBuffer, TypeOK
<1>4. ASSUME Unmap \/ MarkDeleted PROVE file'[t] = file[t]
  BY <1>4 DEF Unmap, MarkDeleted
<1>5. ASSUME RemoveStreamFile PROVE file'[t] = file[t]
  BY <1>5 DEF RemoveStreamFile, Deleting, TypeOK
<1>6. ASSUME TrimStart \/ (\E u \in Tables : TrimGet(u)) \/ TrimDone PROVE file'[t] = file[t]
  BY <1>6 DEF TrimStart, TrimGet, TrimDone
<1>7. ASSUME TrimApply PROVE file'[t] = file[t]
  <2>1. trim.t \in Tables /\ trim.buf \in BufIds
    BY <1>7 DEF TrimApply, TypeOK
  <2>2. CASE bufs[trim.buf].deleted
    BY <1>7, <2>2 DEF TrimApply
  <2>3. CASE ~bufs[trim.buf].deleted
    <3>1. t # trim.t
      BY <1>7, <2>1, <2>3 DEF TrimApply, Pointers, TrimHolds, Deleting
    <3> QED BY <1>7, <2>1, <3>1 DEF TrimApply, TypeOK
  <2> QED BY <2>2, <2>3
<1>8. ASSUME Tick \/ Stop PROVE file'[t] = file[t]
  BY <1>8 DEF Tick, Stop
<1>9. ASSUME Start PROVE file'[t] = file[t]
  BY <1>9, StartChoice DEF Restore
<1> QED BY <1>1, <1>2, <1>3, <1>4, <1>5, <1>6, <1>7, <1>8, <1>9
        DEF Next, WriterStep, TrimStep

\* The deleted flag does its work for any number of tables and any failures: a
\* trim that holds a pointer to a deleted buffer never writes the file of a
\* stream that is gone.
THEOREM OrphanFileStaysFrozen == Spec => OrphanFileFrozen
BY TypeInit, TypeStep, PointersInit, PointersStep, OrphanStep, PTL
   DEF Spec, OrphanFileFrozen

-----------------------------------------------------------------------------
(* The order of sequence numbers.  Every record anywhere has a number that   *)
(* the clock has reached, and one the running counter has reached; hence a  *)
(* new record comes after all of them.                                     *)

SeqInv ==
    /\ \A t \in Tables : Ordered(file[t].recs)
    /\ \A b \in BufIds : Ordered(bufs[b].recs)
    /\ \A t \in Tables : \A r \in file[t].recs :
          r.n <= emitted /\ r.seq <= Clock /\ (up => r.seq <= seqNum)
    /\ \A b \in BufIds : \A r \in bufs[b].recs :
          r.n <= emitted /\ r.seq <= Clock /\ (up => r.seq <= seqNum)

LEMMA OrderedSubset ==
    ASSUME NEW A, NEW B, A \subseteq B, Ordered(B)
    PROVE  Ordered(A)
BY DEF Ordered

LEMMA ClockMonotone ==
    ASSUME NEW a \in Nat
    PROVE  a * MsPerTick \in Nat /\ a * MsPerTick <= (a + 1) * MsPerTick
<1>1. (a + 1) * MsPerTick = a * MsPerTick + MsPerTick
  BY StreamsAssumption
<1> QED BY <1>1, StreamsAssumption

LEMMA SeqInit == Init => SeqInv
BY DEF Init, SeqInv, NoFile, Ordered

LEMMA SeqStep ==
    ASSUME ClockLeads
    PROVE  TypeOK /\ SeqInv /\ [Next]_vars => SeqInv'
<1> SUFFICES ASSUME TypeOK, SeqInv, [Next]_vars PROVE SeqInv'
  OBVIOUS
<1> USE StreamsAssumption
<1>0. Clock \in Nat
  BY DEF Clock, TypeOK
\* Steps that touch neither records, nor counters, nor the clock.
<1>a. ASSUME UNCHANGED <<up, now, file, bufs, seqNum, emitted>> PROVE SeqInv'
  BY <1>a DEF SeqInv, Clock
<1>1. ASSUME NEW t \in Tables, TableOp(t) PROVE SeqInv'
  BY <1>a, <1>1 DEF TableOp, CreateTable, UpdateTable, RewriteMeta, DeleteTable
<1>2. ASSUME NEW t \in Tables, Emit(t) PROVE SeqInv'
  <2> DEFINE b == streams[t]
             r == [n |-> emitted + 1, seq |-> seqNum + 1, at |-> now,
                   label |-> meta[t].label]
  <2>1. meta[t] \in Meta /\ b \in BufIds
    BY <1>2 DEF Emit, Readable, TypeOK
  <2>2. r \in Record
    BY <2>1 DEF TypeOK, Meta, Record
  <2>3. /\ up /\ up' = up /\ now' = now /\ seqNum < Clock
        /\ seqNum' = seqNum + 1 /\ emitted' = emitted + 1 /\ Clock' = Clock
    BY <1>2 DEF Emit, MayWrite, Clock
  <2>4. r.n = emitted + 1 /\ r.seq = seqNum + 1
    OBVIOUS
  <2>5. CASE UNCHANGED <<bufs, file>>
    BY <1>0, <2>3, <2>5 DEF SeqInv, TypeOK, StreamFile, Buffer, Record
  <2>6. CASE ~bufs[b].deleted
    <3> HIDE DEF r
    <3>1. PICK g \in AppendOutcomes(file[t], r) :
             /\ file' = [file EXCEPT ![t] = g]
             /\ bufs' = [bufs EXCEPT ![b].recs = @ \cup {r}]
      BY <1>2, <2>6 DEF Emit, r
    <3>2. g.recs \subseteq file[t].recs \cup {r}
      BY <2>2, AppendType DEF TypeOK
    <3>3. \A u \in Tables : file'[u].recs \subseteq file[u].recs \cup {r}
      BY <3>1, <3>2 DEF TypeOK
    <3>4. \A x \in BufIds : bufs'[x].recs \subseteq bufs[x].recs \cup {r}
      BY <3>1 DEF TypeOK, Buffer
    <3>5. ASSUME NEW A, A \subseteq Record, Ordered(A),
                 \A s \in A : s.n <= emitted /\ s.seq <= Clock /\ s.seq <= seqNum,
                 NEW B, B \subseteq A \cup {r}
          PROVE  /\ Ordered(B)
                 /\ \A s \in B : s.n <= emitted' /\ s.seq <= Clock' /\ s.seq <= seqNum'
      <4>1. \A s \in A : s.n \in Nat /\ s.seq \in Nat
        BY <3>5 DEF Record
      <4>2. emitted \in Nat /\ seqNum \in Nat
        BY DEF TypeOK
      <4> QED BY <1>0, <2>3, <2>4, <3>5, <4>1, <4>2 DEF Ordered
    <3>6. /\ \A u \in Tables : file[u].recs \subseteq Record
          /\ \A x \in BufIds : bufs[x].recs \subseteq Record
      BY DEF TypeOK, StreamFile, Buffer
    <3>7. ASSUME NEW u \in Tables
          PROVE  /\ Ordered(file'[u].recs)
                 /\ \A s \in file'[u].recs :
                       s.n <= emitted' /\ s.seq <= Clock' /\ s.seq <= seqNum'
      <4>1. /\ Ordered(file[u].recs)
            /\ \A s \in file[u].recs : s.n <= emitted /\ s.seq <= Clock /\ s.seq <= seqNum
        BY <2>3 DEF SeqInv
      <4> DEFINE A == file[u].recs
                 B == file'[u].recs
      <4>2. A \subseteq Record /\ B \subseteq A \cup {r}
        BY <3>3, <3>4, <3>6
      <4> HIDE DEF A, B
      <4>3. Ordered(A) /\ \A s \in A : s.n <= emitted /\ s.seq <= Clock /\ s.seq <= seqNum
        BY <4>1 DEF A
      <4>4. /\ Ordered(B)
            /\ \A s \in B : s.n <= emitted' /\ s.seq <= Clock' /\ s.seq <= seqNum'
        BY <4>2, <4>3, <3>5
      <4> QED BY <4>4 DEF B
    <3>8. ASSUME NEW x \in BufIds
          PROVE  /\ Ordered(bufs'[x].recs)
                 /\ \A s \in bufs'[x].recs :
                       s.n <= emitted' /\ s.seq <= Clock' /\ s.seq <= seqNum'
      <4>1. /\ Ordered(bufs[x].recs)
            /\ \A s \in bufs[x].recs : s.n <= emitted /\ s.seq <= Clock /\ s.seq <= seqNum
        BY <2>3 DEF SeqInv
      <4> DEFINE A == bufs[x].recs
                 B == bufs'[x].recs
      <4>2. A \subseteq Record /\ B \subseteq A \cup {r}
        BY <3>3, <3>4, <3>6
      <4> HIDE DEF A, B
      <4>3. Ordered(A) /\ \A s \in A : s.n <= emitted /\ s.seq <= Clock /\ s.seq <= seqNum
        BY <4>1 DEF A
      <4>4. /\ Ordered(B)
            /\ \A s \in B : s.n <= emitted' /\ s.seq <= Clock' /\ s.seq <= seqNum'
        BY <4>2, <4>3, <3>5
      <4> QED BY <4>4 DEF B
    <3> QED BY <3>7, <3>8 DEF SeqInv
  <2> QED BY <1>2, <2>5, <2>6 DEF Emit
\* Steps after which every file and every buffer holds a part of what one
\* file or one buffer held before.
<1>b. ASSUME UNCHANGED <<now, emitted>>,
             up' => \A u \in Tables : \A r \in file'[u].recs : r.seq <= seqNum',
             up' => \A b \in BufIds : \A r \in bufs'[b].recs : r.seq <= seqNum',
             \A u \in Tables : \/ \E v \in Tables : file'[u].recs \subseteq file[v].recs
                               \/ \E b \in BufIds : file'[u].recs \subseteq bufs[b].recs,
             \A b \in BufIds : \/ bufs'[b].recs = {}
                               \/ \E v \in Tables : bufs'[b].recs \subseteq file[v].recs
                               \/ \E c \in BufIds : bufs'[b].recs \subseteq bufs[c].recs
      PROVE  SeqInv'
  <2>1. Clock' = Clock
    BY <1>b DEF Clock
  <2>2. ASSUME NEW u \in Tables
        PROVE  Ordered(file'[u].recs) /\ \A r \in file'[u].recs : r.n <= emitted /\ r.seq <= Clock
    BY <1>b, OrderedSubset DEF SeqInv
  <2>3. ASSUME NEW b \in BufIds
        PROVE  Ordered(bufs'[b].recs) /\ \A r \in bufs'[b].recs : r.n <= emitted /\ r.seq <= Clock
    <3>1. CASE bufs'[b].recs = {}
      BY <3>1 DEF Ordered
    <3>2. CASE \/ \E v \in Tables : bufs'[b].recs \subseteq file[v].recs
               \/ \E c \in BufIds : bufs'[b].recs \subseteq bufs[c].recs
      BY <3>2, OrderedSubset DEF SeqInv
    <3> QED BY <1>b, <3>1, <3>2
  <2> QED BY <1>b, <2>1, <2>2, <2>3 DEF SeqInv
<1>3. ASSUME EnsureStreamBuffer PROVE SeqInv'
  <2> DEFINE t == writer.t
  <2>1. t \in Tables /\ UNCHANGED <<up, now, seqNum, emitted>> /\ up
    BY <1>3 DEF EnsureStreamBuffer, TypeOK
  <2>2. CASE UNCHANGED <<bufs, file>>
    BY <1>a, <2>1, <2>2
  <2>3. CASE streams[t] = Nil
    <3>1. PICK b \in BufIds, l \in LoadOutcomes(file[t]) :
             /\ bufs' = [bufs EXCEPT ![b] = [recs |-> l.recs, deleted |-> FALSE]]
             /\ file' = [file EXCEPT ![t] = l.file]
      BY <1>3, <2>3 DEF EnsureStreamBuffer
    <3>2. l.recs \subseteq file[t].recs /\ l.file.recs \subseteq file[t].recs
      BY <2>1, LoadType DEF TypeOK
    <3>3. \A u \in Tables : file'[u].recs \subseteq file[u].recs
      BY <2>1, <3>1, <3>2 DEF TypeOK
    <3>4. \A c \in BufIds : bufs'[c].recs \subseteq file[t].recs \/ bufs'[c].recs \subseteq bufs[c].recs
      BY <2>1, <3>1, <3>2 DEF TypeOK
    <3>5. /\ \A u \in Tables : \A r \in file'[u].recs : r.seq <= seqNum'
          /\ \A c \in BufIds : \A r \in bufs'[c].recs : r.seq <= seqNum'
      BY <2>1, <3>3, <3>4 DEF SeqInv
    <3> QED BY <1>b, <2>1, <3>3, <3>4, <3>5
  <2> QED BY <1>3, <2>2, <2>3 DEF EnsureStreamBuffer
<1>4. ASSUME Unmap PROVE SeqInv'
  BY <1>a, <1>4 DEF Unmap
<1>5. ASSUME MarkDeleted PROVE SeqInv'
  <2>1. \A b \in BufIds : bufs'[b].recs = bufs[b].recs
    BY <1>5 DEF MarkDeleted, TypeOK, Buffer
  <2> QED BY <1>5, <2>1 DEF MarkDeleted, SeqInv, Clock
<1>6. ASSUME RemoveStreamFile PROVE SeqInv'
  <2>1. \A u \in Tables : file'[u].recs \subseteq file[u].recs
    BY <1>6 DEF RemoveStreamFile, TypeOK, NoFile
  <2> QED BY <1>6, <1>b, <2>1 DEF RemoveStreamFile, SeqInv
<1>7. ASSUME TrimStart \/ (\E t \in Tables : TrimGet(t)) \/ TrimDone PROVE SeqInv'
  BY <1>a, <1>7 DEF TrimStart, TrimGet, TrimDone
<1>8. ASSUME TrimApply PROVE SeqInv'
  <2> DEFINE b == trim.buf
             keep == After(bufs[b].recs, trim.cutoff)
  <2>1. b \in BufIds /\ trim.t \in Tables /\ UNCHANGED <<up, now, seqNum, emitted>> /\ up
    BY <1>8 DEF TrimApply, TypeOK
  <2>2. CASE bufs' = bufs /\ file' = file
    BY <1>a, <2>1, <2>2
  <2>3. CASE /\ bufs' = [bufs EXCEPT ![b].recs = keep]
             /\ \E g \in RewriteOutcomes(file[trim.t], keep) :
                   file' = [file EXCEPT ![trim.t] = g]
    <3>1. keep \subseteq Record /\ keep \subseteq bufs[b].recs
      BY <2>1, AfterSubset DEF TypeOK, Buffer
    <3>2. \A c \in BufIds : bufs'[c].recs \subseteq bufs[c].recs
      BY <2>1, <2>3, <3>1 DEF TypeOK, Buffer
    <3> HIDE DEF keep
    <3>3. PICK g \in RewriteOutcomes(file[trim.t], keep) :
             file' = [file EXCEPT ![trim.t] = g]
      BY <2>3
    <3>4. g = file[trim.t] \/ g.recs = keep
      BY <2>1, <3>1, RewriteType DEF TypeOK
    <3>5. \A u \in Tables : file'[u].recs \subseteq file[u].recs
                            \/ file'[u].recs \subseteq bufs[b].recs
      BY <2>1, <3>1, <3>3, <3>4 DEF TypeOK
    <3>6. /\ \A u \in Tables : \A r \in file'[u].recs : r.seq <= seqNum'
          /\ \A c \in BufIds : \A r \in bufs'[c].recs : r.seq <= seqNum'
      BY <2>1, <3>2, <3>5 DEF SeqInv
    <3> QED BY <1>b, <2>1, <3>2, <3>5, <3>6
  <2> QED BY <1>8, <2>2, <2>3 DEF TrimApply
<1>9. ASSUME Tick PROVE SeqInv'
  <2>1. /\ UNCHANGED <<up, file, bufs, seqNum, emitted>>
        /\ Clock' \in Nat /\ Clock <= Clock'
    BY <1>9, ClockMonotone DEF Tick, Clock, TypeOK
  <2>2. ASSUME NEW x \in Nat, x <= Clock PROVE x <= Clock'
    BY <1>0, <2>1, <2>2
  <2>3. /\ \A t \in Tables : \A r \in file[t].recs : r.seq \in Nat
        /\ \A b \in BufIds : \A r \in bufs[b].recs : r.seq \in Nat
    BY DEF TypeOK, StreamFile, Buffer, Record
  <2> QED BY <2>1, <2>2, <2>3 DEF SeqInv
<1>10. ASSUME Stop PROVE SeqInv'
  <2>1. \A b \in BufIds : bufs'[b].recs = {}
    BY <1>10 DEF Stop
  <2> QED BY <1>10, <1>b, <2>1 DEF Stop
<1>11. ASSUME Start PROVE SeqInv'
  <2>1. PICK S, ids, l, m :
           /\ S \subseteq Tables
           /\ ids \in [S -> BufIds]
           /\ m \in {Clock} \cup {r.seq : r \in UNION {l[t].recs : t \in S}}
           /\ Restore(S, ids, l, m)
    BY <1>11, StartChoice
  <2>2. \A t \in S : l[t].recs \subseteq file[t].recs /\ l[t].file.recs \subseteq file[t].recs
    BY <2>1, LoadType DEF TypeOK, Restore
  <2>3. \A u \in Tables : file'[u].recs \subseteq file[u].recs
    BY <2>1, <2>2 DEF Restore
  <2>4. ASSUME NEW b \in BufIds
        PROVE  bufs'[b].recs = {} \/ \E v \in Tables : bufs'[b].recs \subseteq file[v].recs
    <3>1. bufs'[b].recs = UNION {l[t].recs : t \in {u \in S : ids[u] = b}}
      BY <2>1 DEF Restore
    <3>2. CASE \E v \in S : ids[v] = b
      <4>1. PICK v \in S : ids[v] = b
        BY <3>2
      <4>2. {u \in S : ids[u] = b} = {v}
        BY <2>1, <4>1 DEF Restore
      <4>3. bufs'[b].recs = l[v].recs
        BY <3>1, <4>2
      <4> QED BY <2>1, <2>2, <4>3
    <3>3. CASE ~\E v \in S : ids[v] = b
      BY <3>1, <3>3
    <3> QED BY <3>2, <3>3
  <2>5. /\ \A u \in Tables : \A r \in file[u].recs : r.seq <= Clock /\ r.seq \in Nat
        /\ seqNum' = m /\ Clock <= m /\ m \in Nat
    <3>1. \A t \in S : \A r \in l[t].recs : r.seq \in Nat
      BY <2>1, <2>2 DEF TypeOK, StreamFile, Record
    <3> QED BY <1>0, <2>1, <3>1 DEF SeqInv, Restore, TypeOK, StreamFile, Record
  <2>6. \A u \in Tables : \A r \in file'[u].recs : r.seq <= seqNum'
    BY <1>0, <2>3, <2>5
  <2>7. \A b \in BufIds : \A r \in bufs'[b].recs : r.seq <= seqNum'
    BY <1>0, <2>4, <2>5
  <2>8. UNCHANGED <<now, emitted>>
    BY <1>11 DEF Start
  <2> QED BY <1>b, <2>3, <2>4, <2>6, <2>7, <2>8
<1>12. ASSUME UNCHANGED vars PROVE SeqInv'
  BY <1>a, <1>12 DEF vars
<1> QED BY <1>1, <1>2, <1>3, <1>4, <1>5, <1>6, <1>7, <1>8, <1>9, <1>10, <1>11, <1>12
        DEF Next, WriterStep, TrimStep

\* As long as fewer records are emitted than milliseconds pass, sequence numbers
\* follow the order of emission in every live stream and in every file, through
\* restarts, failed writes and reloaded files of earlier streams.
THEOREM SequenceNumbersOrdered ==
    ASSUME ClockLeads
    PROVE  Spec => []SeqOrdered
<1>1. TypeOK /\ SeqInv => SeqOrdered
  BY DEF SeqOrdered, SeqInv, TypeOK, BufRecs
<1> QED BY TypeInit, TypeStep, SeqInit, SeqStep, <1>1, PTL DEF Spec

-----------------------------------------------------------------------------
(* The buffer and its file.  Both theorems need to know whose buffer a step  *)
(* changes, which is what Pointers says.                                   *)

\* A trim that is not too late changes the buffer and the file of one live
\* stream, or of a stream that is being deleted.
LEMMA TrimTarget ==
    ASSUME TypeOK, Pointers, TrimApply, ~bufs[trim.buf].deleted,
           NEW u \in Tables, streams[u] # Nil
    PROVE  streams[u] = trim.buf <=> u = trim.t
<1>1. trim.step = "apply" /\ trim.t \in Tables
  BY DEF TrimApply, TypeOK
<1>2. CASE streams[trim.t] = trim.buf
  BY <1>1, <1>2 DEF Pointers, OwnBuffer
<1>3. CASE writer.step = "mark" /\ writer.t = trim.t /\ writer.buf = trim.buf
  BY <1>3 DEF Pointers, WriterHolds
<1> QED BY <1>1, <1>2, <1>3 DEF Pointers, TrimHolds

\* A started process gives each loaded table exactly what was loaded for it.
LEMMA RestoredBuffer ==
    ASSUME NEW S, S \subseteq Tables, NEW ids \in [S -> BufIds], NEW l, NEW m,
           Restore(S, ids, l, m), NEW u \in Tables, streams'[u] # Nil
    PROVE  u \in S /\ bufs'[streams'[u]].recs = l[u].recs
<1>1. u \in S /\ streams'[u] = ids[u] /\ ids[u] \in BufIds
  BY DEF Restore
<1>2. {v \in S : ids[v] = ids[u]} = {u}
  BY <1>1 DEF Restore
<1>3. bufs'[ids[u]].recs = UNION {l[v].recs : v \in {w \in S : ids[w] = ids[u]}}
  BY <1>1 DEF Restore
<1> QED BY <1>1, <1>2, <1>3

LEMMA NoResurrectionStep ==
    ASSUME "read" \notin Faults
    PROVE  TypeOK /\ Pointers /\ NoResurrection /\ [Next]_vars => NoResurrection'
<1> SUFFICES ASSUME TypeOK, Pointers, NoResurrection, [Next]_vars,
                    NEW u \in Tables, streams'[u] # Nil,
                    NEW r \in file'[u].recs, r.at > now' - Retention
             PROVE  r \in bufs'[streams'[u]].recs
  BY DEF NoResurrection, After, BufRecs
<1> USE StreamsAssumption
<1>0. ASSUME streams[u] # Nil, r \in file[u].recs, r.at > now - Retention
      PROVE  r \in bufs[streams[u]].recs
  BY <1>0 DEF NoResurrection, After, BufRecs
<1>1. ASSUME NEW t \in Tables, TableOp(t) PROVE r \in bufs'[streams'[u]].recs
  BY <1>0, <1>1 DEF TableOp, CreateTable, UpdateTable, RewriteMeta, DeleteTable
<1>2. ASSUME NEW t \in Tables, Emit(t) PROVE r \in bufs'[streams'[u]].recs
  <2> DEFINE b == streams[t]
             q == [n |-> emitted + 1, seq |-> seqNum + 1, at |-> now,
                   label |-> meta[t].label]
  <2>1. /\ meta[t] \in Meta /\ b \in BufIds /\ streams' = streams /\ now' = now
        /\ streams[u] \in BufIds
    BY <1>2 DEF Emit, Readable, TypeOK
  <2>2. q \in Record
    BY <2>1 DEF TypeOK, Meta, Record
  <2>3. CASE UNCHANGED <<bufs, file>>
    BY <1>0, <2>1, <2>3
  <2>4. CASE ~bufs[b].deleted
    <3> HIDE DEF q
    <3>1. PICK g \in AppendOutcomes(file[t], q) :
             /\ file' = [file EXCEPT ![t] = g]
             /\ bufs' = [bufs EXCEPT ![b].recs = @ \cup {q}]
      BY <1>2, <2>4 DEF Emit, q
    <3>2. g.recs \subseteq file[t].recs \cup {q}
      BY <2>2, AppendType DEF TypeOK
    <3>3. CASE u = t
      BY <1>0, <2>1, <3>1, <3>2, <3>3 DEF TypeOK, Buffer
    <3>4. CASE u # t
      <4>1. streams[u] # b
        BY <2>1, <3>4 DEF Pointers, OwnBuffer
      <4> QED BY <1>0, <2>1, <3>1, <3>4, <4>1 DEF TypeOK
    <3> QED BY <3>3, <3>4
  <2> QED BY <1>2, <2>3, <2>4 DEF Emit
<1>3. ASSUME EnsureStreamBuffer PROVE r \in bufs'[streams'[u]].recs
  <2> DEFINE t == writer.t
  <2>1. t \in Tables /\ now' = now
    BY <1>3 DEF EnsureStreamBuffer, TypeOK
  <2>2. CASE UNCHANGED <<streams, bufs, file>>
    BY <1>0, <2>1, <2>2
  <2>3. CASE streams[t] = Nil
    <3>1. PICK b \in BufIds, l \in LoadOutcomes(file[t]) :
             /\ Free(b)
             /\ streams' = [streams EXCEPT ![t] = b]
             /\ bufs' = [bufs EXCEPT ![b] = [recs |-> l.recs, deleted |-> FALSE]]
             /\ file' = [file EXCEPT ![t] = l.file]
      BY <1>3, <2>3 DEF EnsureStreamBuffer
    <3>2. l.recs = After(file[t].recs, now - Retention) /\ l.file.recs \subseteq file[t].recs
      BY <2>1, LoadType DEF TypeOK
    <3>3. CASE u = t
      BY <2>1, <3>1, <3>2, <3>3 DEF TypeOK, After
    <3>4. CASE u # t
      BY <1>0, <2>1, <3>1, <3>4 DEF TypeOK, Free
    <3> QED BY <3>3, <3>4
  <2> QED BY <1>3, <2>2, <2>3 DEF EnsureStreamBuffer
<1>4. ASSUME Unmap PROVE r \in bufs'[streams'[u]].recs
  BY <1>0, <1>4 DEF Unmap, TypeOK
<1>5. ASSUME MarkDeleted PROVE r \in bufs'[streams'[u]].recs
  <2>1. \A b \in BufIds : bufs'[b].recs = bufs[b].recs
    BY <1>5 DEF MarkDeleted, TypeOK, Buffer
  <2> QED BY <1>0, <1>5, <2>1 DEF MarkDeleted, TypeOK
<1>6. ASSUME RemoveStreamFile PROVE r \in bufs'[streams'[u]].recs
  BY <1>0, <1>6 DEF RemoveStreamFile, TypeOK, NoFile
<1>7. ASSUME TrimStart \/ (\E t \in Tables : TrimGet(t)) \/ TrimDone
      PROVE  r \in bufs'[streams'[u]].recs
  BY <1>0, <1>7 DEF TrimStart, TrimGet, TrimDone
<1>8. ASSUME TrimApply PROVE r \in bufs'[streams'[u]].recs
  <2> DEFINE b == trim.buf
             keep == After(bufs[b].recs, trim.cutoff)
  <2>1. /\ b \in BufIds /\ trim.t \in Tables /\ now' = now /\ streams' = streams
        /\ streams[u] \in BufIds /\ trim.cutoff \in Int /\ now \in Nat
        /\ trim.cutoff <= now - Retention
    BY <1>8 DEF TrimApply, TypeOK, Pointers, CutoffPassed
  <2>2. CASE bufs' = bufs /\ file' = file
    BY <1>0, <2>1, <2>2
  <2>3. CASE /\ ~bufs[b].deleted
             /\ bufs' = [bufs EXCEPT ![b].recs = keep]
             /\ \E g \in RewriteOutcomes(file[trim.t], keep) :
                   file' = [file EXCEPT ![trim.t] = g]
    <3>1. keep \subseteq Record
      BY <2>1, AfterSubset DEF TypeOK, Buffer
    <3>2. streams[u] = b <=> u = trim.t
      BY <1>8, <2>1, <2>3, TrimTarget
    <3>3. CASE u # trim.t
      BY <1>0, <2>1, <2>3, <3>2, <3>3 DEF TypeOK
    <3>4. CASE u = trim.t
      <4>1. bufs'[streams'[u]].recs = keep
        BY <2>1, <2>3, <3>2, <3>4 DEF TypeOK, Buffer
      <4>2. ASSUME r \in bufs[b].recs PROVE r \in keep
        <5>1. r.at \in Nat
          BY <2>1, <4>2 DEF TypeOK, Buffer, Record
        <5> QED BY <2>1, <4>2, <5>1 DEF After
      <4> HIDE DEF keep
      <4>3. PICK g \in RewriteOutcomes(file[trim.t], keep) :
               file' = [file EXCEPT ![trim.t] = g]
        BY <2>3
      <4>4. g = file[trim.t] \/ g.recs = keep
        BY <2>1, <3>1, RewriteType DEF TypeOK
      <4>5. CASE g = file[trim.t]
        <5>1. r \in file[u].recs
          BY <2>1, <3>4, <4>3, <4>5 DEF TypeOK
        <5>2. r \in bufs[b].recs
          BY <1>0, <2>1, <3>2, <3>4, <5>1
        <5> QED BY <4>1, <4>2, <5>2
      <4>6. CASE g.recs = keep
        BY <2>1, <3>4, <4>1, <4>3, <4>6 DEF TypeOK
      <4> QED BY <4>4, <4>5, <4>6
    <3> QED BY <3>3, <3>4
  <2> QED BY <1>8, <2>2, <2>3 DEF TrimApply
<1>9. ASSUME Tick PROVE r \in bufs'[streams'[u]].recs
  <2>1. now' = now + 1 /\ now \in Nat /\ UNCHANGED <<file, bufs, streams>>
    BY <1>9 DEF Tick, TypeOK
  <2>2. r.at \in Nat
    BY <2>1 DEF TypeOK, StreamFile, Record
  <2>3. r.at > now - Retention
    BY <2>1, <2>2
  <2> QED BY <1>0, <2>1, <2>3
<1>10. ASSUME Stop PROVE r \in bufs'[streams'[u]].recs
  BY <1>10 DEF Stop
<1>11. ASSUME Start PROVE r \in bufs'[streams'[u]].recs
  <2>1. PICK S, ids, l, m :
           /\ S \subseteq Tables
           /\ ids \in [S -> BufIds]
           /\ m \in {Clock} \cup {x.seq : x \in UNION {l[t].recs : t \in S}}
           /\ Restore(S, ids, l, m)
    BY <1>11, StartChoice
  <2>2. u \in S /\ bufs'[streams'[u]].recs = l[u].recs
    BY <2>1, RestoredBuffer
  <2>3. l[u].recs = After(file[u].recs, now - Retention) /\ l[u].file.recs \subseteq file[u].recs
    BY <2>1, <2>2, LoadType DEF TypeOK, Restore
  <2>4. file'[u] = l[u].file /\ now' = now
    BY <1>11, <2>1, <2>2 DEF Restore, Start
  <2> QED BY <2>2, <2>3, <2>4 DEF After
<1>12. ASSUME UNCHANGED vars PROVE r \in bufs'[streams'[u]].recs
  BY <1>0, <1>12 DEF vars
<1> QED BY <1>1, <1>2, <1>3, <1>4, <1>5, <1>6, <1>7, <1>8, <1>9, <1>10, <1>11, <1>12
        DEF Next, WriterStep, TrimStep

\* Unless reading a stream file fails, a restart shows no record that the
\* running process had stopped showing.
THEOREM RestartResurrectsNothing ==
    ASSUME "read" \notin Faults
    PROVE  Spec => []NoResurrection
<1>1. Init => NoResurrection
  BY DEF Init, NoResurrection
<1> QED BY TypeInit, TypeStep, PointersInit, PointersStep, NoResurrectionStep, <1>1, PTL
        DEF Spec

-----------------------------------------------------------------------------
(* Durability.  Without a failed open or write no file ever ends in a       *)
(* partial line, and then every append reaches the file it is meant for.    *)

Untorn == \A t \in Tables : ~file[t].torn

LEMMA SafeAppend ==
    ASSUME "open" \notin Faults, "write" \notin Faults,
           NEW f \in StreamFile, ~f.torn, NEW r, NEW g \in AppendOutcomes(f, r)
    PROVE  g.recs = f.recs \cup {r} /\ ~g.torn
  BY DEF AppendOutcomes, Fails

LEMMA SafeLoad ==
    ASSUME NEW f \in StreamFile, ~f.torn, NEW l \in LoadOutcomes(f)
    PROVE  l.recs \subseteq l.file.recs /\ ~l.file.torn
<1> DEFINE keep == After(f.recs, now - Retention)
<1>1. keep \subseteq f.recs
  BY AfterSubset
<1>2. CASE l = [recs |-> {}, file |-> f]
  BY <1>2
<1>3. CASE l = [recs |-> keep, file |-> f]
  BY <1>1, <1>3
<1>4. CASE \E g \in RewriteOutcomes(f, keep) : l = [recs |-> keep, file |-> g]
  <2> HIDE DEF keep
  <2>1. PICK g \in RewriteOutcomes(f, keep) : l = [recs |-> keep, file |-> g]
    BY <1>4
  <2>2. g = f \/ g = [recs |-> keep, torn |-> FALSE]
    BY DEF RewriteOutcomes
  <2> QED BY <1>1, <2>1, <2>2
<1> QED BY <1>2, <1>3, <1>4 DEF LoadOutcomes

LEMMA UntornStep ==
    ASSUME "open" \notin Faults, "write" \notin Faults
    PROVE  TypeOK /\ Pointers /\ Untorn /\ [Next]_vars => Untorn'
<1> SUFFICES ASSUME TypeOK, Pointers, Untorn, [Next]_vars, NEW u \in Tables
             PROVE  ~file'[u].torn
  BY DEF Untorn
<1>0. file \in [Tables -> StreamFile] /\ \A t \in Tables : file[t] \in StreamFile /\ ~file[t].torn
  BY DEF Untorn, TypeOK
<1>1. ASSUME NEW t \in Tables, Emit(t) PROVE ~file'[u].torn
  <2>1. CASE UNCHANGED file
    BY <1>0, <2>1
  <2>2. CASE \E r : \E g \in AppendOutcomes(file[t], r) : file' = [file EXCEPT ![t] = g]
    BY <1>0, <2>2, SafeAppend
  <2> QED BY <1>1, <2>1, <2>2 DEF Emit
<1>2. ASSUME EnsureStreamBuffer PROVE ~file'[u].torn
  <2>1. CASE UNCHANGED file
    BY <1>0, <2>1
  <2>2. CASE \E l \in LoadOutcomes(file[writer.t]) : file' = [file EXCEPT ![writer.t] = l.file]
    <3>1. writer.t \in Tables
      BY <1>2 DEF EnsureStreamBuffer, TypeOK
    <3> QED BY <1>0, <2>2, <3>1, SafeLoad
  <2> QED BY <1>2, <2>1, <2>2 DEF EnsureStreamBuffer
<1>3. ASSUME RemoveStreamFile PROVE ~file'[u].torn
  BY <1>0, <1>3 DEF RemoveStreamFile, NoFile
<1>4. ASSUME TrimApply PROVE ~file'[u].torn
  <2> DEFINE keep == After(bufs[trim.buf].recs, trim.cutoff)
  <2>1. CASE UNCHANGED file
    BY <1>0, <2>1
  <2>2. CASE \E g \in RewriteOutcomes(file[trim.t], keep) : file' = [file EXCEPT ![trim.t] = g]
    <3> HIDE DEF keep
    <3>1. trim.t \in Tables
      BY <1>4 DEF TrimApply, TypeOK
    <3>2. PICK g \in RewriteOutcomes(file[trim.t], keep) : file' = [file EXCEPT ![trim.t] = g]
      BY <2>2
    <3>3. g = file[trim.t] \/ g = [recs |-> keep, torn |-> FALSE]
      BY DEF RewriteOutcomes
    <3>4. ~g.torn
      BY <1>0, <3>1, <3>3
    <3> QED BY <1>0, <3>1, <3>2, <3>4
  <2> QED BY <1>4, <2>1, <2>2 DEF TrimApply
<1>5. ASSUME Start PROVE ~file'[u].torn
  <2>1. PICK S, ids, l, m :
           /\ S \subseteq Tables
           /\ ids \in [S -> BufIds]
           /\ m \in {Clock} \cup {x.seq : x \in UNION {l[t].recs : t \in S}}
           /\ Restore(S, ids, l, m)
    BY <1>5, StartChoice
  <2>2. file'[u] = IF u \in S THEN l[u].file ELSE file[u]
    BY <2>1 DEF Restore
  <2>3. ASSUME u \in S PROVE ~l[u].file.torn
    <3>1. l[u] \in LoadOutcomes(file[u])
      BY <2>1, <2>3 DEF Restore
    <3> QED BY <1>0, <3>1, SafeLoad
  <2> QED BY <1>0, <2>2, <2>3
<1>6. ASSUME UNCHANGED file PROVE ~file'[u].torn
  BY <1>0, <1>6
<1>7. ASSUME NEW t \in Tables, TableOp(t) PROVE UNCHANGED file
  BY <1>7 DEF TableOp, CreateTable, UpdateTable, RewriteMeta, DeleteTable
<1>8. ASSUME Unmap \/ MarkDeleted \/ TrimStart \/ (\E t \in Tables : TrimGet(t)) \/ TrimDone
             \/ Tick \/ Stop \/ UNCHANGED vars
      PROVE  UNCHANGED file
  BY <1>8 DEF Unmap, MarkDeleted, TrimStart, TrimGet, TrimDone, Tick, Stop, vars
<1> QED BY <1>1, <1>2, <1>3, <1>4, <1>5, <1>6, <1>7, <1>8 DEF Next, WriterStep, TrimStep

LEMMA DurableStep ==
    ASSUME "open" \notin Faults, "write" \notin Faults
    PROVE  TypeOK /\ Pointers /\ Untorn /\ BufferIsDurable /\ [Next]_vars => BufferIsDurable'
<1> SUFFICES ASSUME TypeOK, Pointers, Untorn, BufferIsDurable, [Next]_vars,
                    NEW u \in Tables, streams'[u] # Nil,
                    NEW r \in bufs'[streams'[u]].recs
             PROVE  r \in file'[u].recs
  BY UntornStep DEF BufferIsDurable, BufRecs, Untorn
<1> USE StreamsAssumption
<1>0. ASSUME streams[u] # Nil, r \in bufs[streams[u]].recs
      PROVE  r \in file[u].recs
  BY <1>0 DEF BufferIsDurable, BufRecs
<1>1. ASSUME NEW t \in Tables, TableOp(t) PROVE r \in file'[u].recs
  BY <1>0, <1>1 DEF TableOp, CreateTable, UpdateTable, RewriteMeta, DeleteTable
<1>2. ASSUME NEW t \in Tables, Emit(t) PROVE r \in file'[u].recs
  <2> DEFINE b == streams[t]
             q == [n |-> emitted + 1, seq |-> seqNum + 1, at |-> now,
                   label |-> meta[t].label]
  <2>1. /\ b \in BufIds /\ streams' = streams /\ streams[u] \in BufIds
    BY <1>2 DEF Emit, TypeOK
  <2>2. CASE UNCHANGED <<bufs, file>>
    BY <1>0, <2>1, <2>2
  <2>3. CASE ~bufs[b].deleted
    <3> HIDE DEF q
    <3>1. PICK g \in AppendOutcomes(file[t], q) :
             /\ file' = [file EXCEPT ![t] = g]
             /\ bufs' = [bufs EXCEPT ![b].recs = @ \cup {q}]
      BY <1>2, <2>3 DEF Emit, q
    <3>2. g.recs = file[t].recs \cup {q}
      BY SafeAppend DEF TypeOK, Untorn
    <3>3. CASE u = t
      BY <1>0, <2>1, <3>1, <3>2, <3>3 DEF TypeOK, Buffer
    <3>4. CASE u # t
      <4>1. streams[u] # b
        BY <2>1, <3>4 DEF Pointers, OwnBuffer
      <4> QED BY <1>0, <2>1, <3>1, <3>4, <4>1 DEF TypeOK
    <3> QED BY <3>3, <3>4
  <2> QED BY <1>2, <2>2, <2>3 DEF Emit
<1>3. ASSUME EnsureStreamBuffer PROVE r \in file'[u].recs
  <2> DEFINE t == writer.t
  <2>1. t \in Tables
    BY <1>3 DEF EnsureStreamBuffer, TypeOK
  <2>2. CASE UNCHANGED <<streams, bufs, file>>
    BY <1>0, <2>2
  <2>3. CASE streams[t] = Nil
    <3>1. PICK b \in BufIds, l \in LoadOutcomes(file[t]) :
             /\ Free(b)
             /\ streams' = [streams EXCEPT ![t] = b]
             /\ bufs' = [bufs EXCEPT ![b] = [recs |-> l.recs, deleted |-> FALSE]]
             /\ file' = [file EXCEPT ![t] = l.file]
      BY <1>3, <2>3 DEF EnsureStreamBuffer
    <3>2. l.recs \subseteq l.file.recs
      BY <2>1, SafeLoad DEF TypeOK, Untorn
    <3>3. CASE u = t
      BY <2>1, <3>1, <3>2, <3>3 DEF TypeOK
    <3>4. CASE u # t
      BY <1>0, <2>1, <3>1, <3>4 DEF TypeOK, Free
    <3> QED BY <3>3, <3>4
  <2> QED BY <1>3, <2>2, <2>3 DEF EnsureStreamBuffer
<1>4. ASSUME Unmap PROVE r \in file'[u].recs
  BY <1>0, <1>4 DEF Unmap, TypeOK
<1>5. ASSUME MarkDeleted PROVE r \in file'[u].recs
  <2>1. \A b \in BufIds : bufs'[b].recs = bufs[b].recs
    BY <1>5 DEF MarkDeleted, TypeOK, Buffer
  <2> QED BY <1>0, <1>5, <2>1 DEF MarkDeleted, TypeOK
<1>6. ASSUME RemoveStreamFile PROVE r \in file'[u].recs
  <2>1. writer.t \in Tables /\ streams[writer.t] = Nil /\ UNCHANGED <<streams, bufs>>
    BY <1>6 DEF RemoveStreamFile, TypeOK, Pointers, WriterHolds
  <2>2. file'[u] = file[u]
    BY <1>6, <2>1 DEF RemoveStreamFile, TypeOK
  <2> QED BY <1>0, <2>1, <2>2
<1>7. ASSUME TrimStart \/ (\E t \in Tables : TrimGet(t)) \/ TrimDone
      PROVE  r \in file'[u].recs
  BY <1>0, <1>7 DEF TrimStart, TrimGet, TrimDone
<1>8. ASSUME TrimApply PROVE r \in file'[u].recs
  <2> DEFINE b == trim.buf
             keep == After(bufs[b].recs, trim.cutoff)
  <2>1. /\ b \in BufIds /\ trim.t \in Tables /\ streams' = streams
        /\ streams[u] \in BufIds
    BY <1>8 DEF TrimApply, TypeOK
  <2>2. CASE bufs' = bufs /\ file' = file
    BY <1>0, <2>1, <2>2
  <2>3. CASE /\ ~bufs[b].deleted
             /\ bufs' = [bufs EXCEPT ![b].recs = keep]
             /\ \E g \in RewriteOutcomes(file[trim.t], keep) :
                   file' = [file EXCEPT ![trim.t] = g]
    <3>1. keep \subseteq bufs[b].recs
      BY AfterSubset
    <3>2. streams[u] = b <=> u = trim.t
      BY <1>8, <2>1, <2>3, TrimTarget
    <3>3. CASE u # trim.t
      BY <1>0, <2>1, <2>3, <3>2, <3>3 DEF TypeOK
    <3>4. CASE u = trim.t
      <4>1. bufs'[streams'[u]].recs = keep
        BY <2>1, <2>3, <3>2, <3>4 DEF TypeOK, Buffer
      <4> HIDE DEF keep
      <4>2. PICK g \in RewriteOutcomes(file[trim.t], keep) :
               file' = [file EXCEPT ![trim.t] = g]
        BY <2>3
      <4>3. g = file[trim.t] \/ g = [recs |-> keep, torn |-> FALSE]
        BY DEF RewriteOutcomes
      <4>4. keep \subseteq g.recs
        <5>1. keep \subseteq file[trim.t].recs
          BY <2>1, <3>1, <3>2, <3>4 DEF BufferIsDurable, BufRecs
        <5> QED BY <4>3, <5>1
      <4>5. file'[u] = g
        BY <2>1, <3>4, <4>2 DEF TypeOK
      <4> QED BY <4>1, <4>4, <4>5
    <3> QED BY <3>3, <3>4
  <2> QED BY <1>8, <2>2, <2>3 DEF TrimApply
<1>9. ASSUME Tick \/ UNCHANGED vars PROVE r \in file'[u].recs
  BY <1>0, <1>9 DEF Tick, vars
<1>10. ASSUME Stop PROVE r \in file'[u].recs
  BY <1>10 DEF Stop
<1>11. ASSUME Start PROVE r \in file'[u].recs
  <2>1. PICK S, ids, l, m :
           /\ S \subseteq Tables
           /\ ids \in [S -> BufIds]
           /\ m \in {Clock} \cup {x.seq : x \in UNION {l[t].recs : t \in S}}
           /\ Restore(S, ids, l, m)
    BY <1>11, StartChoice
  <2>2. u \in S /\ bufs'[streams'[u]].recs = l[u].recs
    BY <2>1, RestoredBuffer
  <2>3. l[u].recs \subseteq l[u].file.recs
    BY <2>1, <2>2, SafeLoad DEF TypeOK, Restore, Untorn
  <2>4. file'[u] = l[u].file
    BY <2>1, <2>2 DEF Restore
  <2> QED BY <2>2, <2>3, <2>4
<1> QED BY <1>1, <1>2, <1>3, <1>4, <1>5, <1>6, <1>7, <1>8, <1>9, <1>10, <1>11
        DEF Next, WriterStep, TrimStep

\* While opening and writing stream files do not fail, every record that a
\* consumer can read from a live buffer is in its file, whatever the trim
\* goroutine, a deletion or a restart is in the middle of.
THEOREM KillLosesNoRecord ==
    ASSUME "open" \notin Faults, "write" \notin Faults
    PROVE  Spec => []BufferIsDurable
<1>1. Init => Untorn /\ BufferIsDurable
  BY DEF Init, Untorn, BufferIsDurable, NoFile
<1> QED BY TypeInit, TypeStep, PointersInit, PointersStep, UntornStep, DurableStep, <1>1, PTL
        DEF Spec

=============================================================================
