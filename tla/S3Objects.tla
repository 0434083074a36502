------------------------------ MODULE S3Objects ------------------------------
(***************************************************************************)
(* One S3 bucket with versioning and object lock, seen through one key and *)
(* its multipart uploads: internal/s3/storage.go, handler_object.go,       *)
(* handler_object_lock.go, handler_mpu.go and lifecycle.go.                *)
(*                                                                         *)
(* The storage operations are atomic; the requests and the lifecycle       *)
(* enforcer are not.  A PUT or a part whose digest turns out wrong is      *)
(* undone by a second operation, and the enforcer deletes from a list it   *)
(* took earlier.  Between the two anybody may write, delete, lock, or      *)
(* reconfigure the bucket.                                                 *)
(*                                                                         *)
(* Ages are not kept: whether an entry of a lifecycle list is old enough is *)
(* a choice, and a retention period may end at any moment.                 *)
(***************************************************************************)
EXTENDS S3Parts

CONSTANTS
    MaxFaults,       \* bound on the faults in one behaviour
    MaxPending,      \* bound on the PUTs that wait for their rollback
    HeaderModes,     \* the retention modes that PUTs ask for
    HeaderHolds,     \* the legal holds that PUTs ask for
    LockDocs,        \* the documents that PutBucketObjectLock is sent: does one say that
                     \* object lock is Enabled, and its DefaultRetention rule
    LockModes,       \* the modes that PutObjectRetention asks for
    Copies,          \* what is copied to the key: its own current version, an archived one,
                     \* an object from elsewhere
    Workloads        \* what may be asked of the bucket in one behaviour

\* Kinds of requests, and the actions that lifecycle rules ask for.
Work == {"copy", "lock", "uploads", "expire", "marker", "noncurrent", "abort"}

ASSUME ObjectsAssumption ==
    /\ MaxFaults \in Nat /\ MaxPending \in Nat
    /\ HeaderHolds \subseteq BOOLEAN
    /\ HeaderModes \subseteq Modes
    /\ LockDocs \subseteq [lock : BOOLEAN, rule : Modes]
    /\ LockModes \subseteq Modes \ {"none"}
    /\ Copies \subseteq {"current", "archived", "elsewhere"}
    /\ Workloads \subseteq SUBSET Work

VARIABLES
    bkt,    \* the bucket and its .bucket.json
    obj,    \* the files of the key
    writes, \* the writes so far
    nvid,   \* the version IDs handed out so far
    pend,   \* the versions of PUTs that will be undone
    mpu,    \* the multipart uploads to the key
    rej,    \* the parts, by upload and number, that will be undone
    lc,     \* the pass of the lifecycle enforcer
    hurts,  \* the faults so far
    work    \* what is asked of the bucket in this behaviour

vars == <<bkt, obj, writes, nvid, pend, mpu, rej, lc, hurts, work>>

Bucket == [st : {"none", "ok", "torn"}, ver : {"", "Enabled", "Suspended"},
           lock : BOOLEAN, rule : Modes]
NoBucket == [st |-> "none", ver |-> "", lock |-> FALSE, rule |-> "none"]
NewBucket == [NoBucket EXCEPT !.st = "ok"]

\* An entry of a list and what is to be done with it: DeleteObject, DeleteObjectVersioned,
\* DeleteObjectVersion for the noncurrent entry or the lone marker id, or
\* AbortMultipartUpload for the upload id.
Job == [op : {"object", "mark", "noncurrent", "marker"}, id : 0..MaxVid]
       \cup [op : {"abort"}, id : Uploads]
Pass == [pc : {"idle", "status", "list", "act"}, versioned : BOOLEAN, todo : SUBSET Job]
NoPass == [pc |-> "idle", versioned |-> FALSE, todo |-> {}]

TypeOK ==
    /\ bkt \in Bucket
    /\ obj \in Object
    /\ writes \in 0..MaxWrites
    /\ nvid \in 0..MaxVid
    /\ pend \subseteq 0..MaxVid
    /\ mpu \in [Uploads -> Upload]
    /\ rej \subseteq Uploads \X Parts
    /\ lc \in Pass
    /\ hurts \in 0..MaxFaults
    /\ work \in Workloads

Init ==
    /\ bkt = NoBucket
    /\ obj = NoObject
    /\ writes = 0
    /\ nvid = 0
    /\ pend = {}
    /\ mpu = [u \in Uploads |-> NewUpload]
    /\ rej = {}
    /\ lc = NoPass
    /\ hurts = 0
    /\ work \in Workloads

Enabled == bkt.st = "ok" /\ bkt.ver = "Enabled"

\* The operation left outcome r.  A killed process forgets its requests and its pass.
Ended(r, p, q, l) ==
    /\ r.clean \/ hurts < MaxFaults
    /\ hurts' = IF r.clean THEN hurts ELSE hurts + 1
    /\ pend' = IF r.how = "killed" THEN {} ELSE p
    /\ rej' = IF r.how = "killed" THEN {} ELSE q
    /\ lc' = IF r.how = "killed" THEN NoPass ELSE l
Leave(r, p, l) == Ended(r, p, rej, l) /\ obj' = r.obj

-----------------------------------------------------------------------------
(* The bucket. *)

\* .bucket.json and the bucket's directory become c, or what fault f leaves of them.
Torn(c) == [c EXCEPT !.st = "torn"]
ChangeBucket(c, afterKill, afterError) ==
    /\ \/ bkt' = c /\ UNCHANGED <<hurts, pend, rej, lc>>
       \/ /\ hurts < MaxFaults
          /\ hurts' = hurts + 1
          /\ \/ "disk" \in Faults /\ bkt' \in afterError /\ UNCHANGED <<pend, rej, lc>>
             \/ /\ "kill" \in Faults
                /\ bkt' \in afterKill
                /\ pend' = {} /\ rej' = {} /\ lc' = NoPass
    /\ UNCHANGED <<obj, writes, nvid, mpu>>
WriteBucketMeta(c) == ChangeBucket(c, {Torn(bkt)}, {Torn(bkt)})

\* Without .bucket.json a bucket is as good as new.  When it cannot be written the
\* directory is removed again.
CreateBucket(lock) ==
    /\ bkt.st = "none"
    /\ ChangeBucket([NewBucket EXCEPT !.ver = IF lock THEN "Enabled" ELSE "", !.lock = lock],
                    {NewBucket, Torn(NewBucket)}, {})

\* Only a bucket without any file of an object, .ver included, can be deleted.  .bucket.json
\* goes first, so that the directory may be left without it.
DeleteBucket ==
    /\ bkt.st # "none"
    /\ obj = NoObject
    /\ ChangeBucket(NoBucket, {NewBucket}, {NewBucket})

\* Mutant of PutBucketVersioning: it does not ask for object lock.
PutBucketVersioningAnyway(status) ==
    /\ bkt.st = "ok"
    /\ WriteBucketMeta([bkt EXCEPT !.ver = status])

PutBucketVersioning(status) ==
    /\ bkt.st = "ok"
    /\ ~(status = "Suspended" /\ bkt.lock)
    /\ WriteBucketMeta([bkt EXCEPT !.ver = status])

\* The document need not say that object lock is enabled.
PutBucketObjectLock(doc) ==
    /\ Enabled
    /\ WriteBucketMeta([bkt EXCEPT !.lock = doc.lock, !.rule = doc.rule])

-----------------------------------------------------------------------------
(* Objects. *)

\* bucketDefaultRetentionLocked fills in for a request without retention headers.
Retention(mode) == IF mode = "none" /\ bkt.st = "ok" THEN bkt.rule ELSE mode

\* Mutant of NewVids: an object without a version ID and the one that replaces it share one.
NewVidsShared == 1

\* The version IDs a write needs: one for the new version, and one for an object that
\* has none when it is archived.
NewVids == IF HasCurrent(obj) /\ obj.cur.meta.vid = 0 THEN 2 ELSE 1
TakeVids == IF Enabled THEN nvid + NewVids ELSE nvid
RoomForWrite == writes < MaxWrites /\ TakeVids <= MaxVid

NewVid == IF Enabled THEN TakeVids ELSE 0

\* PutObject.  PutObjectIfNotExists does the same or, if there is a live object, nothing.
PutOutcomes(mode, hold) ==
    LET m == [NoMeta EXCEPT !.st = "ok", !.vid = NewVid, !.etag = writes + 1,
                            !.mod = writes + 1, !.mode = Retention(mode), !.hold = hold]
        Write(o) == WriteObject(o, writes + 1, m, TRUE)
    IN  IF Enabled THEN Then(Archive(obj, nvid + 1), Write) ELSE Write(obj)

\* handlePutObject.  bad: the digest is wrong, or the ACL of the request cannot be stored,
\* which shows only after the object has been written.
PutObject(mode, hold, bad) ==
    /\ bkt.st = "ok"
    /\ RoomForWrite
    /\ bad => Cardinality(pend) < MaxPending
    /\ \E r \in PutOutcomes(mode, hold) :
          Leave(r, IF bad /\ r.how = "ok" THEN pend \cup {NewVid} ELSE pend, lc)
    /\ writes' = writes + 1
    /\ nvid' = TakeVids
    /\ UNCHANGED <<bkt, mpu>>

\* CopyObject of src.  onto: src is read from the file that is written, which writeObject
\* truncates first.  Only without versioning is that case told apart: the metadata is
\* written again, and the body is left alone.
CopyOutcomes(src, onto, mode, hold) ==
    LET m == [NoMeta EXCEPT !.st = "ok", !.vid = NewVid, !.etag = src.meta.etag,
                            !.mod = writes + 1, !.mode = Retention(mode), !.hold = hold]
        Write(o) == IF src.body = Absent THEN Refused(o)
                    ELSE WriteObject(o, IF onto THEN Blank ELSE src.body, m, FALSE)
    IN  IF Enabled THEN Then(Then(Archive(obj, nvid + 1), Write), Tagged)
        ELSE IF onto
             THEN Rewrite(obj, 0, [src.meta EXCEPT !.mod = m.mod, !.mode = m.mode, !.hold = hold])
             ELSE Then(Write(obj), Tagged)

\* handleCopyObject.
Copy(src, onto, mode, hold) ==
    /\ bkt.st = "ok"
    /\ RoomForWrite
    /\ src.meta.st = "ok" /\ ~src.meta.marker
    /\ \E r \in CopyOutcomes(src, onto, mode, hold) : Leave(r, pend, lc)
    /\ writes' = writes + 1
    /\ nvid' = TakeVids
    /\ UNCHANGED <<bkt, mpu>>

\* The key is copied onto itself: version v, or the current version when v is 0.
Onto(v) == v = 0 \/ IsCurrent(obj, v)
Source(v) == IF Onto(v) THEN obj.cur ELSE obj.arch[v]
CopyObject(v, mode, hold) ==
    /\ (IF Onto(v) THEN "current" ELSE "archived") \in Copies
    /\ Copy(Source(v), Onto(v), mode, hold)

\* Another object is copied to the key.
CopyFromElsewhere(mode, hold) ==
    /\ "elsewhere" \in Copies
    /\ Copy([body |-> writes + 1, meta |-> [NoMeta EXCEPT !.st = "ok", !.etag = writes + 1]],
            FALSE, mode, hold)

\* Mutant of DeleteOutcomes: the marker has no LastModified.
DeleteOutcomesUndated(bypass) ==
    LET m == [NoMeta EXCEPT !.st = "ok", !.vid = NewVid, !.marker = TRUE]
        Mark(o) == WriteMarker(o, m)
    IN  IF Enabled THEN Then(Archive(obj, nvid + 1), Mark)
        ELSE IF Locked(obj.cur.meta, bypass) THEN Refused(obj)
        ELSE RemoveFiles(obj)

\* DeleteObjectVersioned: the file itself, or a marker on top of the archived file.
DeleteOutcomes(bypass) ==
    LET m == [NoMeta EXCEPT !.st = "ok", !.vid = NewVid, !.marker = TRUE, !.mod = writes + 1]
        Mark(o) == WriteMarker(o, m)
    IN  IF Enabled THEN Then(Archive(obj, nvid + 1), Mark)
        ELSE IF Locked(obj.cur.meta, bypass) THEN Refused(obj)
        ELSE RemoveFiles(obj)

\* handleDeleteObject without a versionId.
DeleteObjectVersioned(bypass) ==
    /\ bkt.st = "ok"
    /\ RoomForWrite
    /\ \E r \in DeleteOutcomes(bypass) : Leave(r, pend, lc)
    /\ writes' = writes + 1
    /\ nvid' = TakeVids
    /\ UNCHANGED <<bkt, mpu>>

\* DeleteObject, which the rollback and the lifecycle enforcer call.
DeletePlain == IF Locked(obj.cur.meta, FALSE) THEN Refused(obj) ELSE RemoveFiles(obj)

\* Mutant of DeleteVersion: only the lock of the current version is looked at.
DeleteVersionArchived(v, bypass) ==
    LET m == Resolve(obj, v).meta
    IN  IF m.st # "ok" \/ (IsCurrent(obj, v) /\ ~m.marker /\ Locked(m, bypass)) THEN Refused(obj)
        ELSE IF IsCurrent(obj, v) THEN RemoveFiles(obj)
        ELSE RemoveArchived(obj, v)

\* DeleteObjectVersion: the lock of a delete marker is not looked at.
DeleteVersion(v, bypass) ==
    LET m == Resolve(obj, v).meta
    IN  IF m.st # "ok" \/ (~m.marker /\ Locked(m, bypass)) THEN Refused(obj)
        ELSE IF IsCurrent(obj, v) THEN RemoveFiles(obj)
        ELSE RemoveArchived(obj, v)

\* handleDeleteObject with a versionId.  handleDeleteObjects does, key by key, the same as
\* handleDeleteObject.
DeleteObjectVersion(v, bypass) ==
    /\ bkt.st # "none"
    /\ \E r \in DeleteVersion(v, bypass) : Leave(r, pend, lc)
    /\ UNCHANGED <<bkt, writes, nvid, mpu>>

\* Mutant of RollbackPut: it deletes the current object, whichever version that is.
RollbackCurrent(v) ==
    /\ v \in pend
    /\ \E r \in IF bkt.st = "none" THEN Refused(obj) ELSE DeletePlain : Leave(r, pend \ {v}, lc)
    /\ UNCHANGED <<bkt, writes, nvid, mpu>>

\* The rest of handlePutObject for a PUT that has to be undone.
RollbackPut(v) ==
    /\ v \in pend
    /\ \E r \in IF bkt.st = "none" THEN Refused(obj)
                ELSE IF v = 0 THEN DeletePlain ELSE DeleteVersion(v, FALSE) :
          Leave(r, pend \ {v}, lc)
    /\ UNCHANGED <<bkt, writes, nvid, mpu>>

\* The version that PutObjectRetention and PutObjectLegalHold write to; 0 is the current.
Target(v) == IF v = 0 THEN obj.cur.meta ELSE Resolve(obj, v).meta

Update(v, m) ==
    /\ bkt.st # "none"
    /\ Target(v).st = "ok" /\ ~Target(v).marker
    /\ \E r \in Rewrite(obj, v, m) : Leave(r, pend, lc)
    /\ UNCHANGED <<bkt, writes, nvid, mpu>>

\* Whatever retention the version has is replaced.
PutObjectRetention(v, mode) == Update(v, [Target(v) EXCEPT !.mode = mode])

PutObjectLegalHold(v, on) == Update(v, [Target(v) EXCEPT !.hold = on])

\* PutObjectACL, SetObjectRestoreInitiated, SetObjectReplicationStatus, and, for a version
\* that a lifecycle rule moves to another storage class, SetObjectVersionStorageClass.
\* The field they set is not kept here; that they rewrite the metadata is.
SetMetaField(v) ==
    /\ bkt.st # "none"
    /\ Target(v).st = "ok"
    /\ \E r \in Rewrite(obj, v, Target(v)) : Leave(r, pend, lc)
    /\ UNCHANGED <<bkt, writes, nvid, mpu>>

-----------------------------------------------------------------------------
(* Multipart uploads. *)

\* An operation on the files of upload u left outcome q.
LeaveUpload(u, q, R, l) ==
    /\ Ended(q, pend, R, l)
    /\ mpu' = [mpu EXCEPT ![u] = q.up]
    /\ UNCHANGED <<bkt, obj, nvid>>

\* The retention of the bucket is filled in now, not when the object is made.
CreateMultipartUpload(u, mode, hold) ==
    /\ bkt.st # "none"
    /\ mpu[u].st = "new"
    /\ \E q \in OpenUpload(Retention(mode), hold) : LeaveUpload(u, q, rej, lc)
    /\ UNCHANGED writes

\* handleUploadPart.  The bucket may be gone.  bad: the digest is wrong, which shows only
\* after the part has been written.
UploadPart(u, p, bad) ==
    /\ mpu[u].st = "open"
    /\ writes < MaxWrites
    /\ bad => Cardinality(rej) < MaxPending
    /\ \E q \in WritePart(mpu[u], p, writes + 1, TRUE) :
          LeaveUpload(u, q, IF bad /\ q.how = "ok" THEN rej \cup {<<u, p>>} ELSE rej, lc)
    /\ writes' = writes + 1

\* handleUploadPartCopy of any object that can be read, or of a range of it: the ETag is
\* that of the bytes read.  upload.json need only be there.
UploadPartCopy(u, p) ==
    /\ mpu[u].st \in {"open", "torn"}
    /\ writes < MaxWrites
    /\ \E q \in WritePart(mpu[u], p, writes + 1, FALSE) : LeaveUpload(u, q, rej, lc)
    /\ writes' = writes + 1

\* The rest of handleUploadPart for a part that has to be undone: DeletePart, whoever has
\* sent the part that is there now.
RollbackPart(u, p) ==
    /\ <<u, p>> \in rej
    /\ \E q \in RemovePart(mpu[u], p) : LeaveUpload(u, q, rej \ {<<u, p>>}, lc)
    /\ UNCHANGED writes

\* The object that CompleteMultipartUpload makes of the parts S.  Its ETag is computed from
\* the ETags of the parts, not from their bodies.
AssembleOutcomes(u, S, mode) ==
    LET body == IF Genuine(mpu[u], S) THEN writes + 1 ELSE Cut
        m == [NoMeta EXCEPT !.st = "ok", !.vid = NewVid, !.etag = writes + 1,
                            !.mod = writes + 1, !.mode = mode, !.hold = mpu[u].hold]
        Write(o) == WriteObject(o, body, m, FALSE)
    IN  Then(IF Enabled THEN Then(Archive(obj, nvid + 1), Write) ELSE Write(obj), Tagged)

\* handleCompleteMultipartUpload.  The retention asked for may have run out by now.  That
\* the files of the upload cannot be removed does not make the request fail.
CompleteMultipartUpload(u, S) ==
    /\ mpu[u].st = "open"
    /\ bkt.st = "ok"
    /\ RoomForWrite
    /\ S # {} /\ S \subseteq Usable(mpu[u])
    /\ \E mode \in {mpu[u].mode, "none"} : \E r \in AssembleOutcomes(u, S, mode) :
          \/ r.how # "ok" /\ Leave(r, pend, lc) /\ UNCHANGED mpu
          \/ /\ r.how = "ok"
             /\ \E q \in RemoveUploadDir(mpu[u]) :
                   /\ Leave([obj |-> r.obj, how |-> q.how, clean |-> q.clean], pend, lc)
                   /\ mpu' = [mpu EXCEPT ![u] = q.up]
    /\ writes' = writes + 1
    /\ nvid' = TakeVids
    /\ UNCHANGED bkt

\* AbortMultipartUpload, for a request or for the lifecycle enforcer.
Abort(u, l) ==
    /\ mpu[u].st \in {"open", "torn"}
    /\ \E q \in RemoveUploadDir(mpu[u]) : LeaveUpload(u, q, rej, l)
    /\ UNCHANGED writes
AbortMultipartUpload(u) == Abort(u, lc)

-----------------------------------------------------------------------------
(* The lifecycle enforcer. *)

\* enforceBucket reads the rules, then the versioning status, which only enforceExpiration
\* uses.  A status that cannot be read counts as unversioned.
StartExpiration ==
    /\ "expire" \in work
    /\ lc.pc = "idle"
    /\ bkt.st = "ok"
    /\ lc' = [NoPass EXCEPT !.pc = "status"]
    /\ UNCHANGED <<bkt, obj, writes, nvid, pend, mpu, rej, hurts>>

ReadVersioning ==
    /\ lc.pc = "status"
    /\ lc' = [lc EXCEPT !.pc = "list", !.versioned = Enabled]
    /\ UNCHANGED <<bkt, obj, writes, nvid, pend, mpu, rej, hurts>>

Versions == {m \in Entries(obj) : ~m.marker}
Jobs(op, M) == {[op |-> op, id |-> m.vid] : m \in M}

\* The pass goes on with the entries J that are old enough (noncurrentBefore, and the
\* comparisons of LastModified and Initiated with the cutoff).
TakeUp(J) ==
    /\ \E old \in SUBSET J :
          lc' = IF old = {} THEN NoPass ELSE [NoPass EXCEPT !.pc = "act", !.todo = old]
    /\ UNCHANGED <<bkt, obj, writes, nvid, pend, mpu, rej, hurts>>

\* enforceExpiration: the object itself, or the latest version if it is no marker.
ListForExpiration ==
    /\ lc.pc = "list"
    /\ TakeUp(IF bkt.st = "none" THEN {}
              ELSE IF lc.versioned
                   THEN {[op |-> "mark", id |-> 0] : m \in {x \in Versions : IsLatest(obj, x)}}
                   ELSE {[op |-> "object", id |-> 0] :
                            m \in {x \in {obj.cur.meta} : Listed(obj.cur) /\ ~x.marker}})

\* Mutant of ListNoncurrent: the latest version is not left out.
ListAllVersions ==
    /\ "noncurrent" \in work
    /\ lc.pc = "idle"
    /\ bkt.st # "none"
    /\ TakeUp(Jobs("noncurrent", Entries(obj)))

\* enforceNoncurrentExpiration: versions and markers that are not the latest.  The rules
\* may have been read before .bucket.json was torn.
ListNoncurrent ==
    /\ "noncurrent" \in work
    /\ lc.pc = "idle"
    /\ bkt.st # "none"
    /\ TakeUp(Jobs("noncurrent", {m \in Entries(obj) : ~IsLatest(obj, m)}))

\* enforceExpiredObjectDeleteMarker: a marker that is alone.
ListLoneMarker ==
    /\ "marker" \in work
    /\ lc.pc = "idle"
    /\ bkt.st # "none"
    /\ Versions = {}
    /\ lc' = [NoPass EXCEPT !.pc = "act",
                            !.todo = Jobs("marker", {m \in Entries(obj) : IsLatest(obj, m)})]
    /\ lc'.todo # {}
    /\ UNCHANGED <<bkt, obj, writes, nvid, pend, mpu, rej, hurts>>

\* enforceAbortIncomplete: the uploads whose upload.json can be read.
ListIncomplete ==
    /\ "abort" \in work
    /\ lc.pc = "idle"
    /\ bkt.st # "none"
    /\ TakeUp({[op |-> "abort", id |-> u] : u \in {x \in Uploads : mpu[x].st = "open"}})

\* One entry of the list.  The version ID that the list shows for an unversioned object,
\* "null", is not found by the operations.
PassRest(j) == IF lc.todo = {j} THEN NoPass ELSE [lc EXCEPT !.todo = @ \ {j}]

ExpireObject(j) ==
    /\ j.op = "object"
    /\ \E r \in DeletePlain : Leave(r, pend, PassRest(j))
    /\ UNCHANGED <<writes, nvid>>

ExpireVersioned(j) ==
    /\ j.op = "mark"
    /\ RoomForWrite
    /\ \E r \in IF bkt.st = "torn" THEN Refused(obj) ELSE DeleteOutcomes(FALSE) :
          Leave(r, pend, PassRest(j))
    /\ writes' = writes + 1
    /\ nvid' = TakeVids

DeleteListed(j) ==
    /\ j.op \in {"noncurrent", "marker"}
    /\ \E r \in IF j.id = 0 THEN Refused(obj) ELSE DeleteVersion(j.id, FALSE) :
          Leave(r, pend, PassRest(j))
    /\ UNCHANGED <<writes, nvid>>

DropListed(j) ==
    /\ j.op # "abort"
    /\ bkt.st = "none"
    /\ lc' = PassRest(j)
    /\ UNCHANGED <<obj, writes, nvid, pend, rej, hurts>>

\* The upload may have been completed or aborted since.
AbortListed(j) ==
    /\ j.op = "abort"
    /\ \/ Abort(j.id, PassRest(j))
       \/ /\ mpu[j.id].st = "gone"
          /\ lc' = PassRest(j)
          /\ UNCHANGED <<bkt, obj, writes, nvid, pend, mpu, rej, hurts>>

ActOnListed(j) ==
    /\ lc.pc = "act"
    /\ j \in lc.todo
    /\ \/ /\ \/ bkt.st # "none" /\ (ExpireObject(j) \/ ExpireVersioned(j) \/ DeleteListed(j))
             \/ DropListed(j)
          /\ UNCHANGED <<bkt, mpu>>
       \/ AbortListed(j)

\* The retention period of the current version (v = 0) or of an archived one ends.
Lapse(v) ==
    /\ (IF v = 0 THEN obj.cur ELSE obj.arch[v]).meta.mode # "none"
    /\ obj' = IF v = 0 THEN [obj EXCEPT !.cur.meta.mode = "none"]
              ELSE [obj EXCEPT !.arch[v].meta.mode = "none"]
    /\ UNCHANGED <<bkt, writes, nvid, pend, mpu, rej, lc, hurts>>

\* The process ends while no operation is writing.
Restart ==
    /\ "kill" \in Faults
    /\ pend' = {}
    /\ rej' = {}
    /\ lc' = NoPass
    /\ UNCHANGED <<bkt, obj, writes, nvid, mpu, hurts>>

-----------------------------------------------------------------------------
BucketStep ==
    \/ \E lock \in BOOLEAN : CreateBucket(lock)
    \/ DeleteBucket
    \/ \E status \in {"Enabled", "Suspended"} : PutBucketVersioning(status)
    \/ \E doc \in LockDocs : PutBucketObjectLock(doc)

\* Requests name versions whose ID has been handed out.
ObjectStep ==
    \/ \E mode \in HeaderModes, hold \in HeaderHolds, bad \in BOOLEAN :
          PutObject(mode, hold, bad)
    \/ \E bypass \in BOOLEAN : DeleteObjectVersioned(bypass)
    \/ \E v \in 1..nvid, bypass \in BOOLEAN : DeleteObjectVersion(v, bypass)
    \/ \E v \in pend : RollbackPut(v)
    \/ /\ "lock" \in work
       /\ \/ \E v \in 0..nvid, mode \in LockModes : PutObjectRetention(v, mode)
          \/ \E v \in 0..nvid, on \in BOOLEAN : PutObjectLegalHold(v, on)
          \/ \E v \in 0..nvid : SetMetaField(v)
    \/ /\ "copy" \in work
       /\ \/ \E v \in 0..nvid, mode \in HeaderModes, hold \in HeaderHolds :
                CopyObject(v, mode, hold)
          \/ \E mode \in HeaderModes, hold \in HeaderHolds : CopyFromElsewhere(mode, hold)

UploadStep ==
    /\ "uploads" \in work
    /\ \/ \E u \in Uploads, mode \in HeaderModes, hold \in HeaderHolds :
             CreateMultipartUpload(u, mode, hold)
       \/ \E u \in Uploads, p \in Parts, bad \in BOOLEAN : UploadPart(u, p, bad)
       \/ \E u \in Uploads, p \in Parts : UploadPartCopy(u, p)
       \/ \E x \in rej : RollbackPart(x[1], x[2])
       \/ \E u \in Uploads, S \in SUBSET Parts : CompleteMultipartUpload(u, S)
       \/ \E u \in Uploads : AbortMultipartUpload(u)

LifecycleStep ==
    \/ StartExpiration
    \/ ReadVersioning
    \/ ListForExpiration
    \/ ListNoncurrent
    \/ ListLoneMarker
    \/ ListIncomplete
    \/ \E j \in lc.todo : ActOnListed(j)

Next ==
    /\ \/ BucketStep
       \/ ObjectStep
       \/ UploadStep
       \/ LifecycleStep
       \/ \E v \in 0..MaxVid : Lapse(v)
       \/ Restart
    /\ UNCHANGED work

Spec == Init /\ [][Next]_vars

-----------------------------------------------------------------------------
(* What the store promises. *)

\* The versions that can be read before the step and not, or not the same, after it.
Lost ==
    IF obj' = obj THEN {}
    ELSE {v \in 1..nvid : /\ GetObjectVersion(obj, v) \in Data
                          /\ GetObjectVersion(obj', v) # GetObjectVersion(obj, v)}

Fault == hurts' > hurts

\* A lifecycle pass that saw the bucket unversioned deletes the object, or the rollback
\* of a PUT that was given no version ID.
StaleDelete == 0 \in pend \ pend' \/ \E j \in lc.todo \ lc'.todo : j.op = "object"

\* The step carries out a request or a lifecycle entry about version v itself.
Names(v) ==
    \/ \E bypass \in BOOLEAN : DeleteObjectVersion(v, bypass)
    \/ v \in pend \ pend'
    \/ \E j \in lc.todo \ lc'.todo : j.op # "abort" /\ j.id = v
    \/ Fault /\ \E mode \in LockModes : PutObjectRetention(v, mode)
    \/ Fault /\ \E on \in BOOLEAN : PutObjectLegalHold(v, on)
    \/ Fault /\ SetMetaField(v)

\* archiveCurrentVersionLocked and the order of the writes: a version that can be read
\* stays readable, with its content, until something is asked of that very version.  Only
\* the current one is exposed to the steps of others: to overwriting and deleting while
\* versioning is not enabled, to an operation that fails half way, and to a lifecycle pass
\* or a rollback that began when the bucket was not versioned.
VersionsAreKept ==
    [][\A v \in Lost :
          \/ Names(v)
          \/ IsCurrent(obj, v) /\ (~Enabled \/ Fault \/ StaleDelete)]_vars

\* checkObjectLockLocked: in a bucket with object lock, no sequence of overwrites, deletes,
\* rollbacks, configuration changes and lifecycle passes takes away a version while a
\* legal hold or its retention period lasts.  Only retention in GOVERNANCE mode yields,
\* and only to a request with the bypass header.
LockHolds ==
    [][\A v \in Lost :
          bkt.lock /\ Locked(Resolve(obj, v).meta, FALSE) =>
             \/ Fault
             \/ /\ ~Locked(Resolve(obj, v).meta, TRUE)
                /\ DeleteObjectVersion(v, TRUE)]_vars

\* PutBucketVersioning and PutBucketObjectLock: object lock never outlives versioning.
LockNeedsVersioning == bkt.lock => bkt.ver = "Enabled"

\* writeObject, archiveCurrentVersionLocked and CompleteMultipartUpload: as long as no
\* operation has failed half way, every body, of an object or of a part, has readable
\* metadata that describes it, so that an object is what its ETag says however it was
\* written; every archived version is filed under its own ID, and the current version has
\* no archived double.
FilesAgree ==
    hurts = 0 =>
        /\ \A s \in {obj.cur} \cup {obj.arch[v] : v \in Vids} :
              /\ s.meta.st = IF s.body = Absent THEN "absent" ELSE "ok"
              /\ s.meta.st = "ok" => s.body = IF s.meta.marker THEN Blank ELSE s.meta.etag
        /\ \A v \in Vids : obj.arch[v].meta.st = "ok" =>
              obj.arch[v].meta.vid = v /\ obj.cur.meta.vid # v
        /\ \A u \in Uploads, p \in Parts : mpu[u].part[p].body = mpu[u].part[p].etag

\* ListObjectVersions: faults or not, no archived version is newer than the current one, so
\* that IsLatest is on the version that a GET without a versionId serves.
LatestIsCurrent ==
    obj.cur.meta.st = "ok" =>
        \A v \in Vids : obj.arch[v].meta.st = "ok" => obj.arch[v].meta.mod <= obj.cur.meta.mod

\* enforceNoncurrentExpiration deletes from a list taken earlier: unless an operation has
\* failed before, what it deletes is not the current version, whatever has been written
\* since the list was taken.
NoncurrentSparesCurrent ==
    [][\A j \in lc.todo \ lc'.todo :
          j.op = "noncurrent" /\ hurts' = 0 => obj'.cur = obj.cur]_vars

\* handlePutObject: once an upload with a wrong digest has been undone its version cannot
\* be read, even if another PUT archived it in between, unless it is locked.
RejectedUploadIsGone ==
    [][\A v \in (pend \ pend') \ {0} :
          RollbackPut(v) /\ hurts' = 0 =>
             \/ GetObjectVersion(obj', v) = Absent
             \/ Locked(Resolve(obj, v).meta, FALSE)]_vars

\* CopyObject "copies an object from src to dst" (internal/s3/storage.go:421): after a copy
\* of the key onto itself that nothing disturbed, its content is that of the version copied.
CopyIsFaithful ==
    [][\A v \in 0..nvid :
          /\ \E mode \in HeaderModes, hold \in HeaderHolds : CopyObject(v, mode, hold)
          /\ hurts' = 0
          => obj'.cur.body = Source(v).body]_vars
=============================================================================
