----------------------------- MODULE DynamoItems -----------------------------
(***************************************************************************)
(* The item files of the DynamoDB backend: internal/dynamodb/storage_item.go *)
(* and storage_transaction.go.                                             *)
(*                                                                         *)
(* An item is a JSON file that every write truncates and writes again, so  *)
(* that a failed write leaves a file that no longer parses.  The requests  *)
(* hold s.mu from beginning to end: no request sees another one half way.  *)
(* What can cut a request short is an I/O error, an update that turns out  *)
(* invalid while it is applied, or the end of the process.                 *)
(*                                                                         *)
(* replica is what a consumer of the change stream holds that applies the  *)
(* NewImage of every record it is sent.                                    *)
(***************************************************************************)
EXTENDS DynamoItemActions, FiniteSets

CONSTANTS
    Streamed,      \* the keys of the tables whose stream is enabled
    Corrupt,       \* the file is not valid JSON
    Faults,        \* the I/O calls that may fail: open, write, close, remove
    DoubleFaults,  \* TRUE: a call of a rollback may fail too
    Kills,         \* TRUE: the process may be killed
    NestedUpdates, \* TRUE: UpdateItem is also given document paths
    Kinds,         \* the kinds of actions in transactions and batches
    MaxActions,    \* bound on the actions of one transaction
    MaxBatch       \* bound on the actions of one batch

FaultKinds == {"open", "write", "close", "remove"}

ASSUME ItemsAssumption ==
    /\ Streamed \subseteq Keys
    /\ Corrupt \notin Item \cup {Absent}
    /\ Faults \subseteq FaultKinds
    /\ DoubleFaults \in BOOLEAN
    /\ Kills \in BOOLEAN
    /\ NestedUpdates \in BOOLEAN
    /\ Kinds \subseteq {"put", "update", "delete", "check"}
    /\ MaxActions \in Nat
    /\ MaxBatch \in Nat

VARIABLES
    items,     \* the item files
    req,       \* the batch or the transaction that holds s.mu
    replica,   \* the images that the stream has sent so far
    rec,       \* the stream record emitted by the last step
    reply,     \* the answer to the last request
    doubt      \* the streamed keys of requests that a kill cut short, until the next
               \* record about them

vars == <<items, req, replica, rec, reply, doubt>>

-----------------------------------------------------------------------------
(* Requests. *)

Snapshot == [key : Keys, content : Item \cup {Absent}]

Idle == [kind |-> "idle", step |-> "none", acts |-> << >>, i |-> 0, snaps |-> << >>,
         base |-> << >>]

NoRec == [key |-> Absent, old |-> Absent, new |-> Absent]

Fails(kind) == kind \in Faults

-----------------------------------------------------------------------------
(* Files. *)

\* writeJSON: open with O_TRUNC, write, close.
WriteOutcomes(file, new) ==
    {[file |-> new, ok |-> TRUE]}
        \cup (IF Fails("open")  THEN {[file |-> file, ok |-> FALSE]}    ELSE {})
        \cup (IF Fails("write") THEN {[file |-> Corrupt, ok |-> FALSE]} ELSE {})
        \cup (IF Fails("close") THEN {[file |-> new, ok |-> FALSE]}     ELSE {})

\* removeFile; a file that is not there is not an error.
RemoveOutcomes(file) ==
    {[file |-> Absent, ok |-> TRUE]}
        \cup (IF Fails("remove") /\ file # Absent THEN {[file |-> file, ok |-> FALSE]} ELSE {})

Outcomes(file, new) == IF new = Absent THEN RemoveOutcomes(file) ELSE WriteOutcomes(file, new)

-----------------------------------------------------------------------------
(* The stream. *)

NoRecord == rec' = NoRec /\ UNCHANGED <<replica, doubt>>

\* emitStreamRecord
Emit(k, old, new) ==
    /\ rec' = [key |-> k, old |-> old, new |-> new]
    /\ replica' = [replica EXCEPT ![k] = new]
    /\ doubt' = doubt \ {k}

\* After a write: a record, unless the table has no stream or the write
\* deleted what was not there.
EmitChange(k, old, new) ==
    IF k \in Streamed /\ ~(old = Absent /\ new = Absent) THEN Emit(k, old, new) ELSE NoRecord

-----------------------------------------------------------------------------
(* Requests on one item. *)

\* Mutant of WriteOne: the record is emitted even when the write failed.
WriteOneAnyway(k, old, new) ==
    \E o \in Outcomes(items[k], new) :
        /\ items' = [items EXCEPT ![k] = o.file]
        /\ reply' = IF o.ok THEN "ok" ELSE "failed"
        /\ EmitChange(k, old, new)
        /\ UNCHANGED req

\* The write of one item, the record about it and the reply.
WriteOne(k, old, new) ==
    \E o \in Outcomes(items[k], new) :
        /\ items' = [items EXCEPT ![k] = o.file]
        /\ reply' = IF o.ok THEN "ok" ELSE "failed"
        /\ IF o.ok THEN EmitChange(k, old, new) ELSE NoRecord
        /\ UNCHANGED req

\* The old item can be read and satisfies the condition.
Admits(k, cond) == req = Idle /\ items[k] # Corrupt /\ Holds(cond, items[k])

PutItem(k, item, cond) == Admits(k, cond) /\ WriteOne(k, items[k], item)

DeleteItem(k, cond) == Admits(k, cond) /\ WriteOne(k, items[k], Absent)

\* The copy that UpdateItem takes before it applies the updates: the maps
\* inside are shared with the item, which applyNestedSet changes in place.
Before(file, upd) ==
    IF file # Absent /\ upd.nested THEN upd.val ELSE file

UpdateItem(k, upd, cond) ==
    /\ Admits(k, cond)
    /\ upd.nested => NestedUpdates
    /\ Valid(items[k], upd)
    /\ WriteOne(k, Before(items[k], upd), upd.val)

\* Any request that is refused before it writes: no such table, invalid, a
\* condition that does not hold, an old item that cannot be read.
Refuse ==
    /\ req = Idle
    /\ reply' = "failed"
    /\ NoRecord
    /\ UNCHANGED <<items, req>>

-----------------------------------------------------------------------------
(* BatchWriteItems: the puts, then the deletes, each one for itself. *)

Finish(answer) == req' = Idle /\ reply' = answer

BatchBegin(acts) ==
    /\ req = Idle
    /\ \A i \in 1..Len(acts) : acts[i].kind \in {"put", "delete"}
    /\ \A i, j \in 1..Len(acts) :
          /\ i < j => ~(acts[i].kind = "delete" /\ acts[j].kind = "put")
          /\ acts[i].key \in Streamed <=> acts[j].key \in Streamed
    /\ req' = [Idle EXCEPT !.kind = "batch", !.step = "apply", !.acts = acts, !.i = 1]
    /\ reply' = "none"
    /\ NoRecord
    /\ UNCHANGED items

BatchStep ==
    /\ req.kind = "batch"
    /\ LET act == req.acts[req.i]
           k == act.key
           new == Result(act, items[k])
       IN \/ /\ k \in Streamed /\ items[k] = Corrupt
             /\ Finish("failed")
             /\ NoRecord
             /\ UNCHANGED items
          \/ /\ ~(k \in Streamed /\ items[k] = Corrupt)
             /\ \E o \in Outcomes(items[k], new) :
                   /\ items' = [items EXCEPT ![k] = o.file]
                   /\ IF o.ok THEN EmitChange(k, items[k], new) ELSE NoRecord
                   /\ \/ ~o.ok /\ Finish("failed")
                      \/ o.ok /\ req.i = Len(req.acts) /\ Finish("ok")
                      \/ /\ o.ok /\ req.i < Len(req.acts)
                         /\ req' = [req EXCEPT !.i = @ + 1]
                         /\ UNCHANGED reply

-----------------------------------------------------------------------------
(* TransactWriteItems. *)

\* Phase 0 rejects two actions on one item, phase 1 reads every item and
\* evaluates every condition; nothing is written before both are through.  (A
\* condition on a put, update or delete that does not hold: see Refuse.)
TransactBegin(acts) ==
    /\ req = Idle
    /\ \A i, j \in 1..Len(acts) : i # j => acts[i].key # acts[j].key
    /\ \A i \in 1..Len(acts) :
          /\ items[acts[i].key] # Corrupt
          /\ acts[i].kind = "check" => Holds(acts[i].arg, items[acts[i].key])
    /\ req' = [Idle EXCEPT !.kind = "transact", !.step = "apply", !.acts = acts,
                           !.i = 1, !.base = items]
    /\ reply' = "none"
    /\ NoRecord
    /\ UNCHANGED items

Applying == req.kind = "transact" /\ req.step = "apply" /\ req.i <= Len(req.acts)

\* ConditionCheck: nothing to write.
TransactSkip ==
    /\ Applying /\ req.acts[req.i].kind = "check"
    /\ req' = [req EXCEPT !.i = @ + 1]
    /\ NoRecord
    /\ UNCHANGED <<items, reply>>

\* Mutant of TransactApply: every write emits its record at once.
TransactApplyEmits ==
    /\ Applying /\ req.acts[req.i].kind # "check"
    /\ LET act == req.acts[req.i]
           k == act.key
       IN \/ /\ Invalid(act, items[k])
             /\ req' = [req EXCEPT !.step = "rollback"]
             /\ NoRecord
             /\ UNCHANGED items
          \/ /\ ~Invalid(act, items[k])
             /\ items' = [items EXCEPT ![k] = Result(act, items[k])]
             /\ req' = [req EXCEPT !.i = @ + 1,
                   !.snaps = Append(@, [key |-> k, content |-> items[k]])]
             /\ EmitChange(k, items[k], Result(act, items[k]))
    /\ UNCHANGED reply

\* Phase 2: the snapshot of the item, and its write.  A write that fails is
\* not among the applied ones that rollbackLocked is given.
TransactApply ==
    /\ Applying /\ req.acts[req.i].kind # "check"
    /\ LET act == req.acts[req.i]
           k == act.key
       IN \/ /\ Invalid(act, items[k])
             /\ req' = [req EXCEPT !.step = "rollback"]
             /\ UNCHANGED items
          \/ /\ ~Invalid(act, items[k])
             /\ \E o \in Outcomes(items[k], Result(act, items[k])) :
                   /\ items' = [items EXCEPT ![k] = o.file]
                   /\ \/ /\ o.ok
                         /\ req' = [req EXCEPT !.i = @ + 1,
                               !.snaps = Append(@, [key |-> k, content |-> items[k]])]
                      \/ ~o.ok /\ req' = [req EXCEPT !.step = "rollback"]
    /\ NoRecord
    /\ UNCHANGED reply

\* Mutant of TransactRollback: an item that did not exist is not removed.
TransactRollbackKeepsNew ==
    /\ req.step = "rollback" /\ req.snaps # << >>
    /\ LET s == req.snaps[Len(req.snaps)]
       IN items' = [items EXCEPT ![s.key] = IF s.content = Absent THEN @ ELSE s.content]
    /\ req' = [req EXCEPT !.snaps = SubSeq(@, 1, Len(@) - 1)]
    /\ NoRecord
    /\ UNCHANGED reply

\* Mutant of TransactRollback: from the first applied write to the last.
TransactRollbackForward ==
    /\ req.step = "rollback" /\ req.snaps # << >>
    /\ items' = [items EXCEPT ![Head(req.snaps).key] = Head(req.snaps).content]
    /\ req' = [req EXCEPT !.snaps = Tail(@)]
    /\ NoRecord
    /\ UNCHANGED reply

\* rollbackLocked, from the last applied write to the first.
TransactRollback ==
    /\ req.step = "rollback" /\ req.snaps # << >>
    /\ LET n == Len(req.snaps)
           k == req.snaps[n].key
       IN \E o \in Outcomes(items[k], req.snaps[n].content) :
             /\ ~o.ok => DoubleFaults
             /\ items' = [items EXCEPT ![k] = o.file]
             /\ req' = [req EXCEPT !.snaps = SubSeq(@, 1, n - 1)]
    /\ NoRecord
    /\ UNCHANGED reply

TransactFail ==
    /\ req.step = "rollback" /\ req.snaps = << >>
    /\ Finish("failed")
    /\ NoRecord
    /\ UNCHANGED items

\* Mutant of TransactEmit: the old image is read back from the file.
TransactEmitReread ==
    /\ req.kind = "transact" /\ req.step \in {"apply", "emit"}
    /\ req.i > Len(req.acts) /\ req.snaps # << >>
    /\ LET k == Head(req.snaps).key IN EmitChange(k, items[k], items[k])
    /\ req' = [req EXCEPT !.step = "emit", !.snaps = Tail(@)]
    /\ UNCHANGED <<items, reply>>

\* emitTransactStreamEvents, once everything is applied: one record for each
\* snapshot and its action, with the snapshot as the old image.  The new image
\* is the item of the Put, none for a Delete, and for an Update what is read
\* back from the file.
TransactEmit ==
    /\ req.kind = "transact" /\ req.step \in {"apply", "emit"}
    /\ req.i > Len(req.acts) /\ req.snaps # << >>
    /\ \E j \in 1..Len(req.acts) :
          LET act == req.acts[j]
              s == Head(req.snaps)
          IN  /\ act.key = s.key /\ act.kind # "check"
              /\ EmitChange(s.key, s.content, IF act.kind = "update" THEN items[s.key] ELSE act.arg)
    /\ req' = [req EXCEPT !.step = "emit", !.snaps = Tail(@)]
    /\ UNCHANGED <<items, reply>>

TransactCommit ==
    /\ req.kind = "transact" /\ req.step \in {"apply", "emit"}
    /\ req.i > Len(req.acts) /\ req.snaps = << >>
    /\ Finish("ok")
    /\ NoRecord
    /\ UNCHANGED items

-----------------------------------------------------------------------------
\* The files that a request is writing when the process ends.
BeingWritten ==
    IF req.i \in 1..Len(req.acts) /\ req.step = "apply"
       /\ req.acts[req.i].kind \in {"put", "update"}
       /\ ~Invalid(req.acts[req.i], items[req.acts[req.i].key])
    THEN {req.acts[req.i].key}
    ELSE IF req.step = "rollback" /\ req.snaps # << >>
            /\ req.snaps[Len(req.snaps)].content # Absent
    THEN {req.snaps[Len(req.snaps)].key}
    ELSE {}

\* The process is killed in the middle of a request, possibly between the
\* truncation of a file and the write.
Kill ==
    /\ Kills /\ req # Idle
    /\ \/ UNCHANGED items
       \/ \E k \in BeingWritten : items' = [items EXCEPT ![k] = Corrupt]
    /\ Finish("none")
    /\ rec' = NoRec
    /\ doubt' = doubt \cup (Streamed \cap {req.acts[i].key : i \in DOMAIN req.acts})
    /\ UNCHANGED replica

Offered == {a \in Action : a.kind \in Kinds}
Transactions == UNION {[1..n -> Offered] : n \in 1..MaxActions}
Batches == UNION {[1..n -> Offered] : n \in 1..MaxBatch}

Init ==
    /\ items = [k \in Keys |-> Absent]
    /\ req = Idle
    /\ replica = [k \in Keys |-> Absent]
    /\ rec = NoRec
    /\ reply = "none"
    /\ doubt = {}

OneItem ==
    \E k \in Keys, cond \in Conditions :
        \/ \E item \in Vals : PutItem(k, item, cond)
        \/ DeleteItem(k, cond)
        \/ \E upd \in Updates : UpdateItem(k, upd, cond)

Transact ==
    \/ \E acts \in Transactions : TransactBegin(acts)
    \/ TransactSkip \/ TransactApply \/ TransactRollback \/ TransactFail
    \/ TransactEmit \/ TransactCommit

Batch == (\E acts \in Batches : BatchBegin(acts)) \/ BatchStep

Next == OneItem \/ Refuse \/ Batch \/ Transact \/ Kill

Spec == Init /\ [][Next]_vars

-----------------------------------------------------------------------------
(* Properties. *)

\* Every variable holds a value of its type, and an index of a batch is one.
TypeOK ==
    /\ items \in [Keys -> Item \cup {Absent, Corrupt}]
    /\ req.kind \in {"idle", "batch", "transact"}
    /\ req.step \in {"none", "apply", "rollback", "emit"}
    /\ req.acts \in Seq(Action)
    /\ req.snaps \in Seq(Snapshot)
    /\ req.kind = "batch" => req.i \in 1..Len(req.acts)
    /\ req.kind = "transact" => req.i \in 1..(Len(req.acts) + 1)
    /\ replica \in [Keys -> Item \cup {Absent}]
    /\ doubt \subseteq Streamed
    /\ reply \in {"none", "ok", "failed"}

\* The items after the first n actions of the open transaction.
Overlay(n) == Effect(req.base, SubSeq(req.acts, 1, n))

\* However a transaction ends, by commit, by rollback or by a kill at any
\* point of either, the items show its first n writes for some n, except that
\* the file that was being written may be torn.  (When no
\* call of a rollback fails, and none fails half way.)
EndsInPrefix ==
    [][(req.kind = "transact" /\ req' = Idle) =>
          \E n \in 0..Len(req.acts) :
             \E torn \in SUBSET {req.acts[i].key : i \in {n + 1} \cap DOMAIN req.acts} :
                \A k \in Keys : items'[k] = IF k \in torn THEN Corrupt ELSE Overlay(n)[k]]_vars

\* A transaction that is answered with an error has changed nothing, one that
\* is answered with success has done all of its writes.
AllOrNothing ==
    [][(req.kind = "transact" /\ req' = Idle) =>
          /\ reply' = "failed" => items' = req.base
          /\ reply' = "ok" => items' = Overlay(Len(req.acts))]_vars

\* The items that are committed: while the writes of a transaction are being
\* applied or undone, those that its snapshots would restore.
Undecided == req.kind = "transact" /\ (req.step = "rollback" \/ req.i <= Len(req.acts))

Committed ==
    [k \in Keys |->
        LET mine == {i \in DOMAIN req.snaps : req.snaps[i].key = k} IN
        IF Undecided /\ mine # {} THEN req.snaps[CHOOSE i \in mine : TRUE].content
        ELSE items[k]]

Phase == IF req.kind # "transact" THEN "none"
         ELSE IF req.step = "rollback" THEN "aborted"
         ELSE IF Undecided THEN "open" ELSE "committed"

Atomic == INSTANCE AtomicItems
    WITH Torn <- Corrupt, db <- Committed, phase <- Phase, answer <- reply,
         acts <- IF req.kind = "transact" THEN req.acts ELSE << >>

\* The storage implements atomic transactions: the snapshots that it keeps in
\* memory are at every moment enough to undo what has been applied.
ImplementsAtomicItems == Atomic!Spec

\* Between requests a consumer that applies every NewImage has exactly the
\* items of the table; after a kill, again from the next record about an item.
\* (When no write fails half way and no call of a rollback fails.)
ReplicaIsExact == req = Idle => \A k \in Streamed \ doubt : replica[k] = items[k]

\* The OldImage of a record is the NewImage of the record before it about the
\* same item, unless a kill came between the two.
OldImageIsPrevious ==
    [][(rec' # NoRec /\ rec'.key \notin doubt) => rec'.old = replica[rec'.key]]_vars

\* A consumer is never told of a change that is not on disk: at the moment of
\* the record the item is what the NewImage says, whatever calls fail, in
\* rollbacks too, and whenever the process is killed.
NoPhantomRecord == [][rec' # NoRec => items'[rec'.key] = rec'.new]_vars

=============================================================================
