---------------------------- MODULE DynamoStreams ----------------------------
(***************************************************************************)
(* The change streams of the DynamoDB backend: internal/dynamodb/storage.go, *)
(* storage_table.go and storage_streams.go.                                *)
(*                                                                         *)
(* A table has a metadata file <t>.table.json (meta), an optional JSONL    *)
(* file <t>.stream.jsonl (file) and, while streaming is enabled, a         *)
(* streamBuffer in memory (bufs, reached through the map streams).  Item   *)
(* and table operations hold s.mu and are therefore serial; the trim       *)
(* goroutine holds no s.mu, so it interleaves with the steps of an         *)
(* operation that are separated by an unlock of streamsMu or of buf.mu.    *)
(* The process can be killed at any point and started again.               *)
(*                                                                         *)
(* A slice of records is only ever appended to, filtered, or reloaded from *)
(* a file that was appended to in the same order.  It is therefore         *)
(* represented by the set of its records, each of which carries its place  *)
(* n in the order of emission; record n has index Position(recs, n).       *)
(***************************************************************************)
EXTENDS Integers, FiniteSets

CONSTANTS
    Tables,        \* table names
    Views,         \* stream view types
    BufIds,        \* identities of streamBuffer objects
    Nil,           \* no buffer
    Retention,     \* streamRetentionPeriod, in ticks of the model's clock
    MsPerTick,     \* milliseconds in one tick
    Faults,        \* the I/O calls that may fail: open, write, remove, read
    ClockLeads,    \* TRUE: the sequence counter never overtakes the clock
    MaxNow,        \* bound on the clock
    MaxEvents,     \* bound on the number of records emitted
    MaxLabels,     \* bound on the number of stream labels
    Stops          \* TRUE: the process may end and be started again

FaultKinds == {"open", "write", "remove", "read"}

ASSUME StreamsAssumption ==
    /\ Nil \notin BufIds
    /\ Retention \in Nat
    /\ MsPerTick \in Nat
    /\ Faults \subseteq FaultKinds
    /\ ClockLeads \in BOOLEAN
    /\ MaxNow \in Nat
    /\ MaxEvents \in Nat
    /\ MaxLabels \in Nat
    /\ Stops \in BOOLEAN
    /\ Views \cap {"nil", "off"} = {}

VARIABLES
    up,        \* the process is running
    now,       \* the wall clock
    meta,      \* content of <t>.table.json
    file,      \* content of <t>.stream.jsonl
    streams,   \* s.streams: table -> buffer
    bufs,      \* the streamBuffer objects
    seqNum,    \* s.seqNum
    emitted,   \* records emitted so far (numbers the records)
    labels,    \* stream labels handed out so far
    writer,    \* what the holder of s.mu still has to do
    trim       \* the trim goroutine

vars == <<up, now, meta, file, streams, bufs, seqNum, emitted, labels,
          writer, trim>>

-----------------------------------------------------------------------------
(* Data. *)

\* A stream record: n numbers the records in order of emission, label is the
\* StreamLabel the table's metadata carried when the record was emitted.
Record == [n : Nat, seq : Nat, at : Nat, label : Nat]

\* view "nil": StreamSpec is nil; "off": StreamEnabled is false.
Meta == [view : Views \cup {"nil", "off"}, label : Nat]
NoTable == [view |-> "absent", label |-> 0]
CorruptMeta == [view |-> "corrupt", label |-> 0]

\* torn: the file ends in a partially written line.
StreamFile == [recs : SUBSET Record, torn : BOOLEAN]
NoFile == [recs |-> {}, torn |-> FALSE]

Buffer == [recs : SUBSET Record, deleted : BOOLEAN]

WriterSteps == {"idle", "ensure", "unmap", "mark", "rmfile"}
Idle == [step |-> "idle", t |-> Nil, buf |-> Nil]
TrimIdle == [step |-> "wait", todo |-> {}, cutoff |-> 0, t |-> Nil, buf |-> Nil]

Fails(kind) == kind \in Faults

Exists(t) == meta[t] # NoTable
Readable(t) == meta[t] \notin {NoTable, CorruptMeta}
Enabled(t) == meta[t].view \in Views

Clock == now * MsPerTick

\* Mutant of After: a record exactly as old as the retention period is kept.
AfterOrAt(recs, cutoff) == {r \in recs : r.at >= cutoff}

After(recs, cutoff) == {r \in recs : r.at > cutoff}

-----------------------------------------------------------------------------
(* The JSONL file. *)

\* Mutant of AppendOutcomes: the file is opened with O_TRUNC.
AppendTruncates(f, r) == {[recs |-> {r}, torn |-> FALSE]}

\* appendToStreamFile: the line is appended; or the file cannot be opened; or
\* the write stops part way.  A line appended after a partial one is part of
\* that corrupt line.
AppendOutcomes(f, r) ==
    {[recs |-> IF f.torn THEN f.recs ELSE f.recs \cup {r}, torn |-> FALSE]}
        \cup (IF Fails("open") THEN {f} ELSE {})
        \cup (IF Fails("write") THEN {[f EXCEPT !.torn = TRUE]} ELSE {})

\* rewriteStreamFile: temporary file and rename, or removal when there is
\* nothing left; a failure leaves the original file.
RewriteOutcomes(f, recs) ==
    {[recs |-> recs, torn |-> FALSE]}
        \cup (IF Faults \cap {"open", "write", "remove"} # {} THEN {f} ELSE {})

\* loadStreamRecordsFromDisk: what is read, and what the file becomes.
LoadOutcomes(f) ==
    LET keep == After(f.recs, now - Retention) IN
    (IF keep = f.recs /\ ~f.torn
        THEN {[recs |-> keep, file |-> f]}
        ELSE {[recs |-> keep, file |-> g] : g \in RewriteOutcomes(f, keep)})
    \cup (IF Fails("read") THEN {[recs |-> {}, file |-> f]} ELSE {})

-----------------------------------------------------------------------------
(* Table operations.  Each holds s.mu from its first step to the step that *)
(* returns writer to Idle.                                                 *)

Free(b) == /\ \A t \in Tables : streams[t] # b
           /\ writer.buf # b
           /\ trim.buf # b

Step(s, t) == [step |-> s, t |-> t, buf |-> Nil]

\* What follows a successful write of the metadata m.
StreamStep(m, t) == IF m.view \in Views THEN Step("ensure", t) ELSE Step("unmap", t)

MayWrite == up /\ writer = Idle

\* CreateTable with StreamSpecification view ("nil": none).
CreateTable(t, view) ==
    /\ MayWrite
    /\ ~Exists(t)
    /\ view \in Views => labels < MaxLabels
    /\ labels' = IF view \in Views THEN labels + 1 ELSE labels
    /\ \/ /\ meta' = [meta EXCEPT ![t] =
                [view |-> view, label |-> IF view \in Views THEN labels + 1 ELSE 0]]
          /\ writer' = IF view \in Views THEN Step("ensure", t) ELSE Idle
       \/ /\ Fails("write")
          /\ meta' = [meta EXCEPT ![t] = CorruptMeta]
          /\ writer' = Idle
    /\ UNCHANGED <<up, now, file, streams, bufs, seqNum, emitted, trim>>

\* A request that enables streaming or changes the view type gets a new label.
Rotates(m, view) == view \in Views /\ m.view # view

\* UpdateTable; view "nil" is a request without a StreamSpecification.
UpdateTable(t, view) ==
    /\ MayWrite
    /\ Readable(t)
    /\ Rotates(meta[t], view) => labels < MaxLabels
    /\ labels' = IF Rotates(meta[t], view) THEN labels + 1 ELSE labels
    /\ LET m == [view  |-> IF view = "nil" THEN meta[t].view ELSE view,
                 label |-> IF Rotates(meta[t], view) THEN labels + 1 ELSE meta[t].label]
       IN \/ /\ meta' = [meta EXCEPT ![t] = m]
             /\ writer' = StreamStep(m, t)
          \/ /\ Fails("write")
             /\ meta' = [meta EXCEPT ![t] = CorruptMeta]
             /\ writer' = Idle
    /\ UNCHANGED <<up, now, file, streams, bufs, seqNum, emitted, trim>>

\* TagResource, UntagResource, UpdateTimeToLive and the backup and Kinesis
\* settings rewrite the metadata and leave its stream fields alone; only a
\* failed write changes what this module sees of it.
RewriteMeta(t) ==
    /\ MayWrite
    /\ Readable(t)
    /\ Fails("write")
    /\ meta' = [meta EXCEPT ![t] = CorruptMeta]
    /\ UNCHANGED <<up, now, file, streams, bufs, seqNum, emitted, labels,
                   writer, trim>>

\* DeleteTable up to the removal of the metadata file.  A failed removal
\* returns an error before the metadata is touched.
DeleteTable(t) ==
    /\ MayWrite
    /\ Exists(t)
    /\ meta' = [meta EXCEPT ![t] = NoTable]
    /\ writer' = Step("unmap", t)
    /\ UNCHANGED <<up, now, file, streams, bufs, seqNum, emitted, labels,
                   trim>>

\* Mutant of EnsureStreamBuffer: a new buffer starts empty, the file is not read.
EnsureEmptyBuffer ==
    /\ up /\ writer.step = "ensure"
    /\ \/ streams[writer.t] # Nil /\ UNCHANGED <<streams, bufs>>
       \/ /\ streams[writer.t] = Nil
          /\ \E b \in {x \in BufIds : Free(x)} :
                /\ streams' = [streams EXCEPT ![writer.t] = b]
                /\ bufs' = [bufs EXCEPT ![b] = [recs |-> {}, deleted |-> FALSE]]
    /\ writer' = Idle
    /\ UNCHANGED <<up, now, meta, file, seqNum, emitted, labels, trim>>

\* ensureStreamBuffer, under streamsMu.
EnsureStreamBuffer ==
    /\ up /\ writer.step = "ensure"
    /\ LET t == writer.t IN
       \/ /\ streams[t] # Nil
          /\ UNCHANGED <<streams, bufs, file>>
       \/ /\ streams[t] = Nil
          /\ \E b \in {x \in BufIds : Free(x)}, l \in LoadOutcomes(file[t]) :
                /\ streams' = [streams EXCEPT ![t] = b]
                /\ bufs' = [bufs EXCEPT ![b] = [recs |-> l.recs, deleted |-> FALSE]]
                /\ file' = [file EXCEPT ![t] = l.file]
    /\ writer' = Idle
    /\ UNCHANGED <<up, now, meta, seqNum, emitted, labels, trim>>

\* deleteStreamBuffer, in three steps: the map entry, the flag, the file.
Unmap ==
    /\ up /\ writer.step = "unmap"
    /\ streams' = [streams EXCEPT ![writer.t] = Nil]
    /\ writer' = [writer EXCEPT !.step = "mark", !.buf = streams[writer.t]]
    /\ UNCHANGED <<up, now, meta, file, bufs, seqNum, emitted, labels, trim>>

MarkDeleted ==
    /\ up /\ writer.step = "mark"
    /\ bufs' = IF writer.buf = Nil THEN bufs
               ELSE [bufs EXCEPT ![writer.buf].deleted = TRUE]
    /\ writer' = Step("rmfile", writer.t)
    /\ UNCHANGED <<up, now, meta, file, streams, seqNum, emitted, labels, trim>>

RemoveStreamFile ==
    /\ up /\ writer.step = "rmfile"
    /\ \/ file' = [file EXCEPT ![writer.t] = NoFile]
       \/ Fails("remove") /\ UNCHANGED file
    /\ writer' = Idle
    /\ UNCHANGED <<up, now, meta, streams, bufs, seqNum, emitted, labels, trim>>

-----------------------------------------------------------------------------
(* emitStreamRecord, called under s.mu by every successful item write on a *)
(* table whose metadata says that streaming is enabled.                    *)

Emit(t) ==
    /\ MayWrite
    /\ Readable(t) /\ Enabled(t)
    /\ streams[t] # Nil
    /\ emitted < MaxEvents
    /\ ClockLeads => seqNum < Clock
    /\ seqNum' = seqNum + 1
    /\ emitted' = emitted + 1
    /\ LET b == streams[t]
           r == [n |-> emitted + 1, seq |-> seqNum + 1, at |-> now,
                 label |-> meta[t].label]
       IN IF bufs[b].deleted
          THEN UNCHANGED <<bufs, file>>
          ELSE /\ bufs' = [bufs EXCEPT ![b].recs = @ \cup {r}]
               /\ \E g \in AppendOutcomes(file[t], r) :
                     file' = [file EXCEPT ![t] = g]
    /\ UNCHANGED <<up, now, meta, streams, labels, writer, trim>>

-----------------------------------------------------------------------------
(* The trim goroutine. *)

\* trimAllStreams: the tables that have a buffer now, and the cutoff.
TrimStart ==
    /\ up /\ trim.step = "wait"
    /\ trim' = [step |-> "next", todo |-> {t \in Tables : streams[t] # Nil},
                cutoff |-> now - Retention, t |-> Nil, buf |-> Nil]
    /\ UNCHANGED <<up, now, meta, file, streams, bufs, seqNum, emitted, labels,
                   writer>>

\* trimStreamForTable takes a pointer to the buffer, if there still is one.
TrimGet(t) ==
    /\ up /\ trim.step = "next"
    /\ t \in trim.todo
    /\ trim' = IF streams[t] = Nil
               THEN [trim EXCEPT !.todo = @ \ {t}]
               ELSE [trim EXCEPT !.todo = @ \ {t}, !.step = "apply",
                                 !.t = t, !.buf = streams[t]]
    /\ UNCHANGED <<up, now, meta, file, streams, bufs, seqNum, emitted, labels,
                   writer>>

\* Mutant of TrimApply: buf.deleted is not looked at.
TrimApplyDeleted ==
    /\ up /\ trim.step = "apply"
    /\ LET keep == After(bufs[trim.buf].recs, trim.cutoff)
       IN IF keep = bufs[trim.buf].recs
          THEN UNCHANGED <<bufs, file>>
          ELSE /\ bufs' = [bufs EXCEPT ![trim.buf].recs = keep]
               /\ \E g \in RewriteOutcomes(file[trim.t], keep) :
                     file' = [file EXCEPT ![trim.t] = g]
    /\ trim' = [trim EXCEPT !.step = "next", !.t = Nil, !.buf = Nil]
    /\ UNCHANGED <<up, now, meta, streams, seqNum, emitted, labels, writer>>

\* ... and, under buf.mu, drops the expired records and rewrites the file.
TrimApply ==
    /\ up /\ trim.step = "apply"
    /\ LET b == trim.buf
           keep == After(bufs[b].recs, trim.cutoff)
       IN IF bufs[b].deleted \/ keep = bufs[b].recs
          THEN UNCHANGED <<bufs, file>>
          ELSE /\ bufs' = [bufs EXCEPT ![b].recs = keep]
               /\ \E g \in RewriteOutcomes(file[trim.t], keep) :
                     file' = [file EXCEPT ![trim.t] = g]
    /\ trim' = [trim EXCEPT !.step = "next", !.t = Nil, !.buf = Nil]
    /\ UNCHANGED <<up, now, meta, streams, seqNum, emitted, labels, writer>>

TrimDone ==
    /\ up /\ trim.step = "next" /\ trim.todo = {}
    /\ trim' = TrimIdle
    /\ UNCHANGED <<up, now, meta, file, streams, bufs, seqNum, emitted, labels,
                   writer>>

-----------------------------------------------------------------------------
(* Time and the process. *)

Tick ==
    /\ now < MaxNow
    /\ now' = now + 1
    /\ UNCHANGED <<up, meta, file, streams, bufs, seqNum, emitted, labels,
                   writer, trim>>

\* The process ends, by Close or by being killed in any state: memory is gone.
Stop ==
    /\ Stops /\ up
    /\ up' = FALSE
    /\ streams' = [t \in Tables |-> Nil]
    /\ bufs' = [b \in BufIds |-> [recs |-> {}, deleted |-> FALSE]]
    /\ writer' = Idle
    /\ trim' = TrimIdle
    /\ UNCHANGED <<now, meta, file, seqNum, emitted, labels>>

\* The loads of a start: one per table with readable, stream-enabled metadata,
\* none when the root directory cannot be read.
Loads == IF Fails("read")
         THEN {{t \in Tables : Readable(t) /\ Enabled(t)}, {}}
         ELSE {{t \in Tables : Readable(t) /\ Enabled(t)}}

\* Mutant of Restore: the counter starts at zero after a restart.
RestoreUnseeded(S, ids, l, m) ==
    /\ \A t, u \in S : ids[t] = ids[u] => t = u
    /\ \A t \in S : l[t] \in LoadOutcomes(file[t])
    /\ streams' = [t \in Tables |-> IF t \in S THEN ids[t] ELSE Nil]
    /\ bufs' = [b \in BufIds |->
          [recs |-> UNION {l[t].recs : t \in {u \in S : ids[u] = b}}, deleted |-> FALSE]]
    /\ file' = [t \in Tables |-> IF t \in S THEN l[t].file ELSE file[t]]
    /\ seqNum' = 0

\* loadAllStreamBuffers: the tables of S get the buffers ids with the records
\* l; then newStorage raises seqNum to m, beyond every restored record.
Restore(S, ids, l, m) ==
    /\ \A t, u \in S : ids[t] = ids[u] => t = u
    /\ \A t \in S : l[t] \in LoadOutcomes(file[t])
    /\ streams' = [t \in Tables |-> IF t \in S THEN ids[t] ELSE Nil]
    /\ bufs' = [b \in BufIds |->
          [recs |-> UNION {l[t].recs : t \in {u \in S : ids[u] = b}}, deleted |-> FALSE]]
    /\ file' = [t \in Tables |-> IF t \in S THEN l[t].file ELSE file[t]]
    /\ \A t \in S : \A r \in l[t].recs : r.seq <= m
    /\ Clock <= m
    /\ seqNum' = m

Start ==
    /\ ~up
    /\ up' = TRUE
    /\ \E S \in Loads :
       \E ids \in [S -> BufIds] :
       \E l \in [S -> UNION {LoadOutcomes(file[t]) : t \in S}] :
       \E m \in {Clock} \cup {r.seq : r \in UNION {l[t].recs : t \in S}} :
          Restore(S, ids, l, m)
    /\ UNCHANGED <<now, meta, emitted, labels, writer, trim>>

-----------------------------------------------------------------------------
Init ==
    /\ up = TRUE
    /\ now = 1
    /\ meta = [t \in Tables |-> NoTable]
    /\ file = [t \in Tables |-> NoFile]
    /\ streams = [t \in Tables |-> Nil]
    /\ bufs = [b \in BufIds |-> [recs |-> {}, deleted |-> FALSE]]
    /\ seqNum = MsPerTick
    /\ emitted = 0
    /\ labels = 0
    /\ writer = Idle
    /\ trim = TrimIdle

TableOp(t) ==
    \/ \E view \in Views \cup {"nil", "off"} : CreateTable(t, view)
    \/ \E view \in Views \cup {"nil", "off"} : UpdateTable(t, view)
    \/ RewriteMeta(t)
    \/ DeleteTable(t)

WriterStep == EnsureStreamBuffer \/ Unmap \/ MarkDeleted \/ RemoveStreamFile

TrimStep == TrimStart \/ (\E t \in Tables : TrimGet(t)) \/ TrimApply \/ TrimDone

Next ==
    \/ \E t \in Tables : TableOp(t) \/ Emit(t)
    \/ WriterStep
    \/ TrimStep
    \/ Tick
    \/ Stop
    \/ Start

Spec == Init /\ [][Next]_vars

\* startTrimLoop's ticker fires for ever while the process runs, and no lock
\* the goroutine takes (streamsMu, buf.mu) is held across a wait.
FairSpec == Spec /\ WF_vars(TrimStep)

-----------------------------------------------------------------------------
(* Properties. *)

\* Every variable holds a value of its type; a held pointer is a buffer.
TypeOK ==
    /\ up \in BOOLEAN
    /\ now \in Nat
    /\ meta \in [Tables -> Meta \cup {NoTable, CorruptMeta}]
    /\ file \in [Tables -> StreamFile]
    /\ streams \in [Tables -> BufIds \cup {Nil}]
    /\ bufs \in [BufIds -> Buffer]
    /\ seqNum \in Nat
    /\ emitted \in Nat
    /\ labels \in Nat
    /\ writer \in [step : WriterSteps, t : Tables \cup {Nil}, buf : BufIds \cup {Nil}]
    /\ writer.step # "idle" => writer.t \in Tables
    /\ trim \in [step : {"wait", "next", "apply"}, todo : SUBSET Tables,
                 cutoff : Int, t : Tables \cup {Nil}, buf : BufIds \cup {Nil}]
    /\ trim.step = "apply" => trim.t \in Tables /\ trim.buf \in BufIds

BufRecs(t) == bufs[streams[t]].recs

Ordered(recs) == \A r, s \in recs : r.n < s.n => r.seq < s.seq

\* Sequence numbers grow in the order of emission, in every live buffer and in
\* every file, across restarts, failed appends and files left over from an
\* earlier stream (newStorage's promise that no number is handed out twice).
SeqOrdered ==
    \A t \in Tables :
        /\ Ordered(file[t].recs)
        /\ streams[t] # Nil => Ordered(BufRecs(t))

\* The file never holds an unexpired record that the live stream does not
\* show: what loadStreamRecordsFromDisk finds after a restart was readable
\* before it.  (Whenever reading the file does not fail.)
NoResurrection ==
    \A t \in Tables :
        streams[t] # Nil => After(file[t].recs, now - Retention) \subseteq BufRecs(t)

\* Every record a consumer can read from a live stream is in its file, so that a
\* kill at any point loses none.  (Whenever appends do not fail.)
BufferIsDurable ==
    \A t \in Tables :
        streams[t] # Nil => BufRecs(t) \subseteq file[t].recs /\ ~file[t].torn

\* deleteStreamBuffer is at work on t.
Deleting(t) == writer.t = t /\ writer.step \in {"unmap", "mark", "rmfile"}

\* Once a stream is gone its file stays as it is until a new stream loads it: a
\* trim that took its pointer before the deletion never brings the file back.
OrphanFileKept ==
    \A t \in Tables :
        (streams[t] = Nil /\ streams'[t] = Nil /\ ~Deleting(t)) => file'[t] = file[t]
OrphanFileFrozen == [][OrphanFileKept]_vars

\* A record older than the retention period does not stay readable for ever.
ExpiredEventuallyTrimmed ==
    \A t \in Tables, m \in 1..MaxEvents :
        (streams[t] # Nil /\ \E r \in BufRecs(t) : r.n = m /\ r.at <= now - Retention)
            ~> (streams[t] = Nil \/ \A r \in BufRecs(t) : r.n # m)

=============================================================================
