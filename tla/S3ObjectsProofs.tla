-------------------------- MODULE S3ObjectsProofs --------------------------
(***************************************************************************)
(* Theorems about S3Objects, for every value of its constants.             *)
(***************************************************************************)
EXTENDS S3Objects, TLAPS

\* The part of TypeOK that the bucket's configuration needs.
BucketInv == bkt \in Bucket /\ LockNeedsVersioning

\* Only the four requests on the bucket change its configuration.
LEMMA ObjectStepKeepsBucket ==
    ASSUME [Next]_vars, ~BucketStep
    PROVE  UNCHANGED bkt
<1>1. CASE ObjectStep
  BY <1>1 DEF ObjectStep, PutObject, DeleteObjectVersioned, DeleteObjectVersion, RollbackPut,
              PutObjectRetention, PutObjectLegalHold, Update, SetMetaField, CopyObject,
              CopyFromElsewhere, Copy
<1>2. CASE LifecycleStep
  BY <1>2 DEF LifecycleStep, StartExpiration, ReadVersioning, ListForExpiration, ListNoncurrent,
              ListLoneMarker, ListIncomplete, TakeUp, ActOnListed, AbortListed, Abort, LeaveUpload
<1>3. CASE \E v \in 0..MaxVid : Lapse(v)
  BY <1>3 DEF Lapse
<1>4. CASE Restart
  BY <1>4 DEF Restart
<1>5. CASE UNCHANGED vars
  BY <1>5 DEF vars
<1>6. CASE UploadStep
  BY <1>6 DEF UploadStep, CreateMultipartUpload, UploadPart, UploadPartCopy, RollbackPart,
              CompleteMultipartUpload, AbortMultipartUpload, Abort, LeaveUpload
<1> QED
  BY <1>1, <1>2, <1>3, <1>4, <1>5, <1>6 DEF Next

\* Whatever becomes of a change of the bucket, c or what a fault leaves of it.
LEMMA ChangedBucket ==
    ASSUME NEW c, NEW K, NEW E, ChangeBucket(c, K, E)
    PROVE  bkt' \in {c} \cup K \cup E
BY DEF ChangeBucket

\* No request and no fault leaves a configuration with object lock and without versioning.
LEMMA BucketKept ==
    ASSUME BucketInv, [Next]_vars
    PROVE  BucketInv'
<1> DEFINE Good(b) == b \in Bucket /\ (b.lock => b.ver = "Enabled")
<1>0. Good(bkt)
  BY DEF BucketInv, LockNeedsVersioning
<1>1. Good(NoBucket) /\ Good(NewBucket) /\ Good(Torn(NewBucket)) /\ Good(Torn(bkt))
  BY <1>0 DEF NoBucket, NewBucket, Torn, Bucket, Modes
<1>2. ASSUME NEW lock \in BOOLEAN, CreateBucket(lock)
      PROVE  Good(bkt')
  <2> DEFINE c == [NewBucket EXCEPT !.ver = IF lock THEN "Enabled" ELSE "", !.lock = lock]
  <2>1. c.lock = lock /\ c.ver = IF lock THEN "Enabled" ELSE ""
    BY DEF NewBucket, NoBucket
  <2>2. c \in Bucket
    BY DEF NewBucket, NoBucket, Bucket, Modes
  <2>3. Good(c)
    <3>1. CASE lock
      BY <3>1, <2>1, <2>2
    <3>2. CASE ~lock
      BY <3>2, <2>1, <2>2
    <3> QED
      BY <3>1, <3>2
  <2>4. bkt' \in {c} \cup {NewBucket, Torn(NewBucket)} \cup {}
    BY <1>2, ChangedBucket DEF CreateBucket
  <2> QED
    BY <1>1, <2>3, <2>4
<1>3. ASSUME DeleteBucket
      PROVE  Good(bkt')
  <2>1. bkt' \in {NoBucket} \cup {NewBucket} \cup {}
    BY <1>3, ChangedBucket DEF DeleteBucket
  <2> QED
    BY <1>1, <2>1
<1>4. ASSUME NEW status \in {"Enabled", "Suspended"}, PutBucketVersioning(status)
      PROVE  Good(bkt')
  <2> DEFINE c == [bkt EXCEPT !.ver = status]
  <2>1. Good(c)
    BY <1>0, <1>4 DEF PutBucketVersioning, Bucket
  <2>2. bkt' \in {c} \cup {Torn(bkt)} \cup {Torn(bkt)}
    BY <1>4, ChangedBucket DEF PutBucketVersioning, WriteBucketMeta
  <2> QED
    BY <1>1, <2>1, <2>2
<1>5. ASSUME NEW doc \in LockDocs, PutBucketObjectLock(doc)
      PROVE  Good(bkt')
  <2> DEFINE c == [bkt EXCEPT !.lock = doc.lock, !.rule = doc.rule]
  <2>1. Good(c)
    BY <1>0, <1>5, ObjectsAssumption DEF PutBucketObjectLock, Enabled, Bucket, Modes
  <2>2. bkt' \in {c} \cup {Torn(bkt)} \cup {Torn(bkt)}
    BY <1>5, ChangedBucket DEF PutBucketObjectLock, WriteBucketMeta
  <2> QED
    BY <1>1, <2>1, <2>2
<1>6. CASE BucketStep
  <2> HIDE DEF Good
  <2>1. Good(bkt')
    BY <1>2, <1>3, <1>4, <1>5, <1>6 DEF BucketStep
  <2> QED
    BY <2>1 DEF Good, BucketInv, LockNeedsVersioning
<1>7. CASE ~BucketStep
  BY <1>0, <1>7, ObjectStepKeepsBucket DEF BucketInv, LockNeedsVersioning
<1> QED
  BY <1>6, <1>7

\* PutBucketVersioning and PutBucketObjectLock each check the other's half of the bucket's
\* configuration under the lock: in no bucket is object lock on while versioning is not,
\* whatever faults hit the writes of .bucket.json.
THEOREM LockImpliesVersioning == Spec => []LockNeedsVersioning
<1>1. Init => BucketInv
  <2>1. NoBucket \in Bucket /\ ~NoBucket.lock
    BY DEF NoBucket, Bucket, Modes
  <2> QED
    BY <2>1 DEF Init, BucketInv, LockNeedsVersioning
<1>2. BucketInv /\ [Next]_vars => BucketInv'
  BY BucketKept
<1>3. BucketInv => LockNeedsVersioning
  BY DEF BucketInv
<1> QED
  BY <1>1, <1>2, <1>3, PTL DEF Spec

-----------------------------------------------------------------------------
(* Operations on the files of the key, by what they leave. *)

\* Metadata of the same version with the same content.
SameId(m, n) ==
    m.st = n.st /\ m.vid = n.vid /\ m.marker = n.marker /\ m.etag = n.etag /\ m.mod = n.mod

\* What is left of the files old of one version when they are removed (gone) or when their
\* metadata is written again; clean: no fault hits.
Touch(old, new, clean, gone) ==
    /\ new.meta \in {NoMeta, TornMeta} \/ SameId(new.meta, old.meta)
    /\ clean => \/ gone /\ new = NoFiles
                \/ new.body = old.body /\ SameId(new.meta, old.meta)

\* Version v of object o, the current one when v is 0, is removed or rewritten.
Touched(o, p, v, clean, gone) ==
    /\ p \in Object
    /\ v = 0 \/ IsCurrent(o, v) => Touch(o.cur, p.cur, clean, gone) /\ p.arch = o.arch
    /\ ~(v = 0 \/ IsCurrent(o, v)) =>
          /\ p.cur = o.cur
          /\ Touch(o.arch[v], p.arch[v], clean, gone)
          /\ \A x \in Vids \ {v} : p.arch[x] = o.arch[x]

\* The metadata under which the current version of o is archived.
Filed(o, id) == [o.cur.meta EXCEPT !.vid = id, !.noncurrent = TRUE]

\* The current version of o, if there is one, is archived as id.
Archived(o, p, id, clean) ==
    /\ p \in Object
    /\ p.cur = o.cur
    /\ \A x \in Vids : ~HasCurrent(o) \/ x # id => p.arch[x] = o.arch[x]
    /\ HasCurrent(o) =>
          /\ p.arch[id].meta \in {o.arch[id].meta, NoMeta, TornMeta, Filed(o, id)}
          /\ clean => p.arch[id] = [body |-> o.cur.body, meta |-> Filed(o, id)]

\* The current files of o are replaced by body b and metadata m.
Written(o, p, b, m, clean) ==
    /\ p \in Object
    /\ p.arch = o.arch
    /\ p.cur.meta \in {m, o.cur.meta, NoMeta, TornMeta}
    /\ clean => p.cur = [body |-> b, meta |-> m]

\* Object o is given a new current version with body b and metadata m; ver: the one before
\* is archived as id; can: there is a body to be written.
Overwritten(o, p, ver, id, can, b, m, clean) ==
    /\ p \in Object
    /\ \A x \in Vids : ~ver \/ ~HasCurrent(o) \/ x # id => p.arch[x] = o.arch[x]
    /\ ver /\ HasCurrent(o) =>
          p.arch[id].meta \in {o.arch[id].meta, NoMeta, TornMeta, Filed(o, id)}
    /\ p.cur.meta \in {m, o.cur.meta, NoMeta, TornMeta}
    /\ clean => \/ p = o
                \/ /\ ver /\ HasCurrent(o) =>
                         p.arch[id] = [body |-> o.cur.body, meta |-> Filed(o, id)]
                   /\ p.cur = [body |-> b, meta |-> m] \/ (~can /\ p.cur = o.cur)

\* An outcome whose flags fit: a killed process is a fault.
Flags(r) == r \in Outcome /\ (r.how = "killed" => ~r.clean)

\* The operations that must succeed for the next to begin succeed only without a fault.
Strict(r) == Flags(r) /\ (r.how = "ok" => r.clean)


\* The values that stand for missing and unreadable files have the right type.
LEMMA EmptyTypes ==
    /\ NoMeta \in Meta /\ TornMeta \in Meta /\ NoFiles \in Slot /\ NoObject \in Object
    /\ Absent \in Body /\ Cut \in Body /\ Blank \in Body
<1>1. 0 \in 0..MaxVid /\ 0 \in 0..MaxWrites
  BY FilesAssumption
<1>2. NoMeta \in Meta
  BY <1>1 DEF NoMeta, Meta, Modes, Absent
<1>3. TornMeta \in Meta
  BY <1>2 DEF TornMeta, Meta
<1>4. Absent \in Body /\ Cut \in Body /\ Blank \in Body
  BY DEF Body
<1>5. NoFiles \in Slot
  BY <1>2, <1>4 DEF NoFiles, Slot
<1> QED
  BY <1>2, <1>3, <1>4, <1>5 DEF NoObject, Object

LEMMA FiledIs ==
    ASSUME NEW o \in Object, NEW id \in 0..MaxVid
    PROVE  LET n == Filed(o, id)
           IN  /\ n \in Meta /\ n.vid = id /\ n.st = o.cur.meta.st
               /\ n.marker = o.cur.meta.marker /\ n.etag = o.cur.meta.etag
               /\ n.mod = o.cur.meta.mod
<1>1. o.cur.meta \in Meta
  BY DEF Object, Slot
<1> QED
  BY <1>1 DEF Filed, Meta

\* Metadata of a new version, and of a delete marker.
NewMeta(vid, etag, mod, mode, hold) ==
    [NoMeta EXCEPT !.st = "ok", !.vid = vid, !.etag = etag, !.mod = mod, !.mode = mode,
                   !.hold = hold]
MarkerMeta(vid, mod) == [NoMeta EXCEPT !.st = "ok", !.vid = vid, !.marker = TRUE, !.mod = mod]
IsNew(m, vid, mod, marker) ==
    m \in Meta /\ m.st = "ok" /\ m.vid = vid /\ m.mod = mod /\ m.marker = marker

LEMMA NewMetaIs ==
    ASSUME NEW vid \in 0..MaxVid, NEW etag \in Data \cup {Absent}, NEW mod \in 0..MaxWrites,
           NEW mode \in Modes, NEW hold \in BOOLEAN
    PROVE  /\ IsNew(NewMeta(vid, etag, mod, mode, hold), vid, mod, FALSE)
           /\ NewMeta(vid, etag, mod, mode, hold).etag = etag
<1>1. NoMeta \in Meta /\ NoMeta.marker = FALSE
  BY EmptyTypes DEF NoMeta
<1> QED
  BY <1>1 DEF Meta, NewMeta, IsNew

LEMMA MarkerMetaIs ==
    ASSUME NEW vid \in 0..MaxVid, NEW mod \in 0..MaxWrites
    PROVE  IsNew(MarkerMeta(vid, mod), vid, mod, TRUE)
<1>1. NoMeta \in Meta
  BY EmptyTypes
<1> QED
  BY <1>1 DEF Meta, MarkerMeta, IsNew

LEMMA SlotSet ==
    ASSUME NEW s \in Slot, NEW b \in Body, NEW m \in Meta
    PROVE  /\ [s EXCEPT !.body = b] \in Slot /\ [s EXCEPT !.body = b].meta = s.meta
           /\ [s EXCEPT !.body = b, !.meta = m] \in Slot
           /\ [s EXCEPT !.body = b, !.meta = m].meta = m
           /\ s.body \in Body /\ s.meta \in Meta
BY DEF Slot

LEMMA ObjectParts ==
    ASSUME NEW o \in Object
    PROVE  /\ o.cur \in Slot /\ o.cur.body \in Body /\ o.cur.meta \in Meta
           /\ \A v \in Vids : o.arch[v] \in Slot /\ o.arch[v].body \in Body
                              /\ o.arch[v].meta \in Meta
           /\ o.cur.meta.vid \in 0..MaxVid
BY DEF Object, Slot, Meta

LEMMA SetCurrent ==
    ASSUME NEW o \in Object, NEW b \in Body, NEW m \in Meta
    PROVE  LET p == [o EXCEPT !.cur.body = b, !.cur.meta = m]
           IN  p \in Object /\ p.arch = o.arch /\ p.cur = [body |-> b, meta |-> m]
BY DEF Object, Slot

LEMMA SetArchived ==
    ASSUME NEW o \in Object, NEW v \in Vids, NEW s \in Slot
    PROVE  LET p == [o EXCEPT !.arch[v] = s]
           IN  /\ p \in Object /\ p.cur = o.cur /\ p.arch[v] = s
               /\ \A x \in Vids \ {v} : p.arch[x] = o.arch[x]
BY DEF Object

LEMMA SpoiltIs ==
    ASSUME NEW f, NEW O, NEW r \in Spoilt(f, O), O \subseteq Object
    PROVE  r.obj \in O /\ ~r.clean /\ Strict(r)
<1>1. PICK o \in O : r = [obj |-> o, how |-> IF f = "kill" THEN "killed" ELSE "error",
                          clean |-> FALSE]
  BY DEF Spoilt
<1> QED
  BY <1>1 DEF Strict, Flags, Outcome

LEMMA DoneIs ==
    ASSUME NEW o \in Object, NEW r, r \in Done(o) \/ r \in Refused(o)
    PROVE  r.obj = o /\ r.clean /\ Strict(r)
<1>1. PICK how \in {"ok", "error"} : r = [obj |-> o, how |-> how, clean |-> TRUE]
  BY DEF Done, Refused
<1> QED
  BY <1>1 DEF Strict, Flags, Outcome

LEMMA ArchiveLeaves ==
    ASSUME NEW o \in Object, NEW fresh \in Vids, NEW r \in Archive(o, fresh)
    PROVE  /\ Strict(r) /\ Archived(o, r.obj, ArchiveVid(o, fresh), r.clean)
           /\ r.how # "ok" /\ r.clean => r.obj = o
<1> DEFINE id == ArchiveVid(o, fresh)
           old == o.arch[id]
           new == [body |-> o.cur.body, meta |-> Filed(o, id)]
           Put(s) == [o EXCEPT !.arch[id] = s]
<1>0. o.cur \in Slot /\ o.cur.meta \in Meta /\ o.cur.body \in Body /\ o.cur.meta.vid \in 0..MaxVid
  BY ObjectParts
<1>1. id \in Vids /\ id \in 0..MaxVid
  BY <1>0, FilesAssumption DEF ArchiveVid, Vids
<1>2. old \in Slot /\ old.meta \in Meta /\ old.body \in Body
  BY <1>1, ObjectParts
<1>3. Filed(o, id) \in Meta /\ new \in Slot
  BY <1>0, <1>1, FiledIs DEF Slot
<1>4. \A s \in Slot : /\ Put(s) \in Object /\ Put(s).cur = o.cur /\ Put(s).arch[id] = s
                      /\ \A x \in Vids \ {id} : Put(s).arch[x] = o.arch[x]
  BY <1>1, SetArchived
<1> DEFINE D == {[old EXCEPT !.body = Absent], [old EXCEPT !.body = Absent, !.meta = TornMeta],
                 [old EXCEPT !.body = Absent, !.meta = new.meta], NoFiles}
           K == {[old EXCEPT !.body = Cut], [old EXCEPT !.body = new.body],
                 [old EXCEPT !.body = new.body, !.meta = TornMeta], new}
<1>5. \A s \in D \cup K : s \in Slot /\ s.meta \in {old.meta, NoMeta, TornMeta, Filed(o, id)}
  <2>1. \A b \in Body : /\ [old EXCEPT !.body = b] \in Slot
                        /\ [old EXCEPT !.body = b].meta = old.meta
                        /\ [old EXCEPT !.body = b, !.meta = TornMeta] \in Slot
                        /\ [old EXCEPT !.body = b, !.meta = TornMeta].meta = TornMeta
                        /\ [old EXCEPT !.body = b, !.meta = new.meta] \in Slot
                        /\ [old EXCEPT !.body = b, !.meta = new.meta].meta = new.meta
    <3>1. TornMeta \in Meta
      BY EmptyTypes
    <3>2. new.meta \in Meta
      BY <1>3 DEF Slot
    <3> HIDE DEF old, new
    <3> QED
      BY <1>2, <3>1, <3>2 DEF Slot
  <2>2. NoFiles \in Slot /\ NoFiles.meta = NoMeta /\ new \in Slot /\ new.meta = Filed(o, id)
    BY <1>3, EmptyTypes DEF NoFiles
  <2>3. Absent \in Body /\ Cut \in Body /\ new.body \in Body
    BY <1>0, EmptyTypes
  <2> HIDE DEF old, new
  <2> QED
    BY <2>1, <2>2, <2>3
<1>6. \/ r \in Refused(o) /\ ~HasCurrent(o)
      \/ r \in Done(o) /\ ~HasCurrent(o)
      \/ HasCurrent(o) /\ r \in Done(Put(new))
      \/ HasCurrent(o) /\ r \in Spoilt("disk", {Put(s) : s \in D})
      \/ HasCurrent(o) /\ r \in Spoilt("kill", {Put(s) : s \in K})
  <2>1. {Put(s) : s \in D} = {Put([old EXCEPT !.body = Absent]),
              Put([old EXCEPT !.body = Absent, !.meta = TornMeta]),
              Put([old EXCEPT !.body = Absent, !.meta = new.meta]), Put(NoFiles)}
    OBVIOUS
  <2>2. {Put(s) : s \in K} = {Put([old EXCEPT !.body = Cut]), Put([old EXCEPT !.body = new.body]),
              Put([old EXCEPT !.body = new.body, !.meta = TornMeta]), Put(new)}
    OBVIOUS
  <2> HIDE DEF D, K
  <2>3. HasCurrent(o) => o.cur.meta.st = "ok"
    BY DEF HasCurrent
  <2> QED
    BY <2>1, <2>2, <2>3 DEF Archive, Filed
<1> HIDE DEF id, old, D, K
<1>7. ASSUME r.obj = o, r.clean, Strict(r), ~HasCurrent(o)
      PROVE  Archived(o, r.obj, id, r.clean)
  BY <1>7 DEF Archived
<1>8. ASSUME HasCurrent(o), NEW s \in Slot, r.obj = Put(s), Strict(r), r.clean => s = new,
             s.meta \in {old.meta, NoMeta, TornMeta, Filed(o, id)}
      PROVE  Archived(o, r.obj, id, r.clean)
  <2> HIDE DEF Put, new
  <2> QED
    BY <1>4, <1>8 DEF Archived, old, new
<1>9. CASE ~HasCurrent(o)
  BY <1>6, <1>7, <1>9, DoneIs DEF id
<1>10. CASE HasCurrent(o) /\ r \in Done(Put(new))
  <2>1. r.obj = Put(new) /\ r.clean /\ Strict(r) /\ new.meta = Filed(o, id) /\ r.how = "ok"
    BY <1>3, <1>4, <1>10, DoneIs DEF Done
  <2> QED
    BY <2>1, <1>3, <1>8, <1>10 DEF id
<1>11. CASE HasCurrent(o) /\ (\/ r \in Spoilt("disk", {Put(s) : s \in D})
                              \/ r \in Spoilt("kill", {Put(s) : s \in K}))
  <2>0. {Put(s) : s \in D} \subseteq Object /\ {Put(s) : s \in K} \subseteq Object
    BY <1>4, <1>5
  <2>1. PICK s \in D \cup K : r.obj = Put(s)
    BY <1>11, <2>0, SpoiltIs
  <2>2. ~r.clean /\ Strict(r)
    BY <1>11, <2>0, SpoiltIs
  <2> HIDE DEF Put
  <2> QED
    BY <2>1, <2>2, <1>5, <1>8, <1>11 DEF id
<1> QED
  BY <1>6, <1>9, <1>10, <1>11

\* writeObject leaves the new files, or after a fault some mixture of old and new.
LEMMA WriteLeaves ==
    ASSUME NEW o \in Object, NEW b \in Body, NEW m \in Meta, NEW fc, NEW r,
           r \in WriteObject(o, b, m, fc) \/ (b = Blank /\ r \in WriteMarker(o, m))
    PROVE  Strict(r) /\ Written(o, r.obj, b, m, r.clean) /\ (r.clean => r.how = "ok")
<1> DEFINE Cur(c, n) == [o EXCEPT !.cur.body = c, !.cur.meta = n]
           N == {m, o.cur.meta, TornMeta}
           B == {b, Cut, Absent}
           left == {Cur(c, n) : c \in B, n \in N}
<1>0. N \subseteq Meta /\ B \subseteq Body
  BY EmptyTypes, ObjectParts
<1>1. \A c \in B, n \in N : /\ Cur(c, n) \in Object /\ Cur(c, n).arch = o.arch
                            /\ Cur(c, n).cur = [body |-> c, meta |-> n]
  BY <1>0, SetCurrent
<1>2. r \in Done(Cur(b, m)) \/ \E f \in Faults : r \in Spoilt(f, left)
  <2>1. ASSUME NEW f, NEW O, O \subseteq left, r \in Spoilt(f, O)
        PROVE  f \in Faults /\ r \in Spoilt(f, left)
    BY <2>1 DEF Spoilt
  <2>2. CASE r \in WriteObject(o, b, m, fc)
    <3>1. /\ {Cur(Cut, o.cur.meta)} \subseteq left
          /\ {Cur(Cut, o.cur.meta), Cur(Absent, o.cur.meta), Cur(Absent, TornMeta),
              Cur(Absent, m), Cur(b, m)} \subseteq left
          /\ {Cur(Cut, o.cur.meta), Cur(b, o.cur.meta), Cur(b, TornMeta)} \subseteq left
      OBVIOUS
    <3>2. \/ r \in Done(Cur(b, m))
          \/ r \in Spoilt("client", {Cur(Cut, o.cur.meta)})
          \/ r \in Spoilt("disk", {Cur(Cut, o.cur.meta), Cur(Absent, o.cur.meta),
                                   Cur(Absent, TornMeta), Cur(Absent, m), Cur(b, m)})
          \/ r \in Spoilt("kill", {Cur(Cut, o.cur.meta), Cur(b, o.cur.meta), Cur(b, TornMeta)})
      BY <2>2 DEF WriteObject
    <3> HIDE DEF left, Cur
    <3> QED
      BY <2>1, <3>1, <3>2
  <2>3. CASE b = Blank /\ r \in WriteMarker(o, m)
    <3>1. /\ {Cur(b, o.cur.meta), Cur(Absent, o.cur.meta), Cur(Absent, TornMeta),
              Cur(Absent, m)} \subseteq left
          /\ {Cur(b, o.cur.meta), Cur(b, TornMeta)} \subseteq left
      OBVIOUS
    <3>2. \/ r \in Done(Cur(b, m))
          \/ r \in Spoilt("disk", {Cur(b, o.cur.meta), Cur(Absent, o.cur.meta),
                                   Cur(Absent, TornMeta), Cur(Absent, m)})
          \/ r \in Spoilt("kill", {Cur(b, o.cur.meta), Cur(b, TornMeta)})
      BY <2>3 DEF WriteMarker
    <3> HIDE DEF left, Cur
    <3> QED
      BY <2>1, <3>1, <3>2
  <2> HIDE DEF left, Cur
  <2> QED
    BY <2>2, <2>3
<1>3. CASE r \in Done(Cur(b, m))
  <2>1. r.obj = Cur(b, m) /\ r.clean /\ Strict(r) /\ r.how = "ok"
    BY <1>1, <1>3, DoneIs DEF Done
  <2> HIDE DEF Cur
  <2> QED
    BY <1>1, <2>1 DEF Written
<1>4. CASE \E f \in Faults : r \in Spoilt(f, left)
  <2>1. left \subseteq Object
    BY <1>1
  <2>3. r.obj \in left /\ ~r.clean /\ Strict(r)
    <3> HIDE DEF left
    <3> QED
      BY <1>4, <2>1, SpoiltIs
  <2>2. PICK c \in B, n \in N : r.obj = Cur(c, n)
    BY <2>3
  <2> HIDE DEF Cur
  <2>4. r.obj \in Object /\ r.obj.arch = o.arch /\ r.obj.cur.meta \in N
    BY <1>1, <2>2
  <2> QED
    BY <2>3, <2>4 DEF Written
<1> QED
  BY <1>2, <1>3, <1>4

\* applyTagsLocked leaves the object alone or removes it.
LEMMA TaggedLeaves ==
    ASSUME NEW o \in Object, NEW r \in Tagged(o)
    PROVE  Strict(r) /\ r.obj \in Object /\ r.obj.arch = o.arch
           /\ (r.obj.cur = o.cur \/ r.obj.cur.meta = NoMeta) /\ (r.clean => r.obj = o)
<1> DEFINE e == [o EXCEPT !.cur = NoFiles]
<1>1. e \in Object /\ e.arch = o.arch /\ e.cur = NoFiles
  BY EmptyTypes DEF Object
<1>2. r \in Done(o) \/ r \in Spoilt("disk", {e}) \/ r \in Spoilt("kill", {o})
  BY DEF Tagged
<1> HIDE DEF e
<1>3. CASE r \in Done(o)
  BY <1>3, DoneIs
<1>4. CASE r \in Spoilt("disk", {e})
  BY <1>1, <1>4, SpoiltIs DEF NoFiles
<1>5. CASE r \in Spoilt("kill", {o})
  BY <1>5, SpoiltIs
<1> QED
  BY <1>2, <1>3, <1>4, <1>5

\* deleteObjectFilesLocked.
LEMMA RemoveFilesLeaves ==
    ASSUME NEW o \in Object, NEW r \in RemoveFiles(o)
    PROVE  Flags(r) /\ Touched(o, r.obj, 0, r.clean, TRUE)
           /\ (r.clean /\ o.cur.body # Absent => r.obj.cur = NoFiles)
<1> DEFINE l == [o EXCEPT !.cur.body = Absent]
           e == [o EXCEPT !.cur = NoFiles]
<1>1. e \in Object /\ e.arch = o.arch /\ e.cur = NoFiles
  BY EmptyTypes DEF Object
<1>2. l \in Object /\ l.arch = o.arch /\ l.cur.meta = o.cur.meta
  BY EmptyTypes DEF Object, Slot
<1>3. \/ o.cur.body = Absent /\ r \in Refused(o)
      \/ r \in Done(e)
      \/ \E s \in Spoilt("disk", {l}) : r = [s EXCEPT !.how = "ok"]
      \/ r \in Spoilt("kill", {l})
  BY DEF RemoveFiles
<1> HIDE DEF e, l
<1>4. SameId(o.cur.meta, o.cur.meta)
  BY DEF SameId
<1>5. CASE o.cur.body = Absent /\ r \in Refused(o)
  BY <1>4, <1>5, DoneIs DEF Strict, Touched, Touch
<1>6. CASE r \in Done(e)
  BY <1>1, <1>6, DoneIs DEF Strict, Touched, Touch, NoFiles
<1>7. CASE \E s \in Spoilt("disk", {l}) : r = [s EXCEPT !.how = "ok"]
  <2>1. PICK s \in Spoilt("disk", {l}) : r = [s EXCEPT !.how = "ok"]
    BY <1>7
  <2>2. s \in Outcome /\ s.obj = l /\ ~s.clean
    BY <1>2, SpoiltIs DEF Strict, Flags
  <2>3. r \in Outcome /\ r.obj = l /\ ~r.clean /\ r.how = "ok"
    BY <2>1, <2>2 DEF Outcome
  <2> QED
    BY <1>2, <1>4, <2>3 DEF Flags, Touched, Touch
<1>8. CASE r \in Spoilt("kill", {l})
  BY <1>2, <1>4, <1>8, SpoiltIs DEF Strict, Touched, Touch
<1> QED
  BY <1>3, <1>5, <1>6, <1>7, <1>8

LEMMA RemoveArchivedLeaves ==
    ASSUME NEW o \in Object, NEW v \in Vids, ~IsCurrent(o, v), NEW r \in RemoveArchived(o, v)
    PROVE  Flags(r) /\ Touched(o, r.obj, v, r.clean, TRUE)
           /\ (r.clean => r.obj.arch[v] = NoFiles)
<1> DEFINE l == [o EXCEPT !.arch[v].body = Absent]
           e == [o EXCEPT !.arch[v] = NoFiles]
<1>1. e \in Object /\ e.cur = o.cur /\ e.arch[v] = NoFiles
      /\ \A x \in Vids \ {v} : e.arch[x] = o.arch[x]
  BY EmptyTypes, SetArchived
<1>2. l \in Object /\ l.cur = o.cur /\ l.arch[v].meta = o.arch[v].meta
      /\ \A x \in Vids \ {v} : l.arch[x] = o.arch[x]
  BY EmptyTypes DEF Object, Slot
<1>3. \/ r \in Done(e)
      \/ \E s \in Spoilt("disk", {l}) : r = [s EXCEPT !.how = "ok"]
      \/ r \in Spoilt("kill", {l})
  BY DEF RemoveArchived
<1> HIDE DEF e, l
<1>4. SameId(o.arch[v].meta, o.arch[v].meta) /\ v # 0
  BY DEF SameId, Vids
<1>6. CASE r \in Done(e)
  BY <1>1, <1>4, <1>6, DoneIs DEF Strict, Touched, Touch, NoFiles
<1>7. CASE \E s \in Spoilt("disk", {l}) : r = [s EXCEPT !.how = "ok"]
  <2>1. PICK s \in Spoilt("disk", {l}) : r = [s EXCEPT !.how = "ok"]
    BY <1>7
  <2>2. s \in Outcome /\ s.obj = l /\ ~s.clean
    BY <1>2, SpoiltIs DEF Strict, Flags
  <2>3. r \in Outcome /\ r.obj = l /\ ~r.clean /\ r.how = "ok"
    BY <2>1, <2>2 DEF Outcome
  <2> QED
    BY <1>2, <1>4, <2>3 DEF Flags, Touched, Touch
<1>8. CASE r \in Spoilt("kill", {l})
  BY <1>2, <1>4, <1>8, SpoiltIs DEF Strict, Touched, Touch
<1> QED
  BY <1>3, <1>6, <1>7, <1>8

\* writeMeta of version v, or of the current one when v is 0.
LEMMA RewriteLeaves ==
    ASSUME NEW o \in Object, NEW v \in 0..MaxVid, NEW m \in Meta,
           SameId(m, IF v = 0 \/ IsCurrent(o, v) THEN o.cur.meta ELSE o.arch[v].meta),
           NEW r \in Rewrite(o, v, m)
    PROVE  Flags(r) /\ Touched(o, r.obj, v, r.clean, FALSE)
<1> DEFINE c == v = 0 \/ IsCurrent(o, v)
           Put(n) == IF c THEN [o EXCEPT !.cur.meta = n] ELSE [o EXCEPT !.arch[v].meta = n]
<1>0. v \in Vids \/ v = 0
  BY FilesAssumption DEF Vids
<1>1. ASSUME NEW n \in Meta, c
      PROVE  /\ Put(n) \in Object /\ Put(n).arch = o.arch
             /\ Put(n).cur.meta = n /\ Put(n).cur.body = o.cur.body
  BY <1>1 DEF Object, Slot
<1>2. ASSUME NEW n \in Meta, ~c
      PROVE  /\ Put(n) \in Object /\ Put(n).cur = o.cur
             /\ Put(n).arch[v].meta = n /\ Put(n).arch[v].body = o.arch[v].body
             /\ \A x \in Vids \ {v} : Put(n).arch[x] = o.arch[x]
  BY <1>0, <1>2 DEF Object, Slot
<1>3. r \in Done(Put(m)) \/ \E f \in {"disk", "kill"} : r \in Spoilt(f, {Put(TornMeta)})
  BY DEF Rewrite
<1> HIDE DEF Put
<1>4. TornMeta \in Meta /\ Put(m) \in Object /\ Put(TornMeta) \in Object
  BY <1>1, <1>2, EmptyTypes
<1>5. CASE r \in Done(Put(m))
  <2>1. r.obj = Put(m) /\ r.clean /\ Flags(r)
    BY <1>4, <1>5, DoneIs DEF Strict
  <2> QED
    BY <1>1, <1>2, <1>4, <2>1 DEF Touched, Touch
<1>6. CASE \E f \in {"disk", "kill"} : r \in Spoilt(f, {Put(TornMeta)})
  <2>1. r.obj = Put(TornMeta) /\ ~r.clean /\ Flags(r)
    BY <1>4, <1>6, SpoiltIs DEF Strict
  <2> QED
    BY <1>1, <1>2, <1>4, <2>1 DEF Touched, Touch
<1> QED
  BY <1>3, <1>5, <1>6

-----------------------------------------------------------------------------
(* Archiving, writing and tagging one after the other. *)

LEMMA ArchiveThenWrite ==
    ASSUME NEW o \in Object, NEW id \in Vids, NEW a, Archived(o, a, id, TRUE),
           NEW can, NEW b, NEW m, NEW clean, NEW p,
           Written(a, p, b, m, clean) \/ (~can /\ p = a)
    PROVE  Overwritten(o, p, TRUE, id, can, b, m, clean)
<1>1. CASE Written(a, p, b, m, clean)
  BY <1>1 DEF Archived, Written, Overwritten
<1>2. CASE ~can /\ p = a
  BY <1>2 DEF Archived, Overwritten
<1> QED
  BY <1>1, <1>2

LEMMA ArchiveOnly ==
    ASSUME NEW o \in Object, NEW id \in Vids, NEW a, NEW clean, Archived(o, a, id, clean),
           clean => a = o, NEW can, NEW b, NEW m
    PROVE  Overwritten(o, a, TRUE, id, can, b, m, clean)
BY DEF Archived, Overwritten

LEMMA WriteOnly ==
    ASSUME NEW o \in Object, NEW id, NEW can, NEW b, NEW m, NEW clean, NEW p,
           Written(o, p, b, m, clean) \/ p = o
    PROVE  Overwritten(o, p, FALSE, id, can, b, m, clean)
<1>1. CASE Written(o, p, b, m, clean)
  BY <1>1 DEF Written, Overwritten
<1>2. CASE p = o
  BY <1>2 DEF Overwritten
<1> QED
  BY <1>1, <1>2

LEMMA WriteThenTag ==
    ASSUME NEW o \in Object, NEW ver, NEW id, NEW can, NEW b, NEW m, NEW p,
           Overwritten(o, p, ver, id, can, b, m, TRUE),
           NEW clean, NEW q \in Object, q.arch = p.arch,
           q.cur = p.cur \/ q.cur.meta = NoMeta, clean => q = p
    PROVE  Overwritten(o, q, ver, id, can, b, m, clean)
BY DEF Overwritten

\* The flags of the second operation's outcome once the first has succeeded.
LEMMA ThenFlags ==
    ASSUME NEW a, Strict(a), a.how = "ok", NEW s, Strict(s), NEW r,
           r = [s EXCEPT !.clean = @ /\ a.clean]
    PROVE  r = s /\ a.clean
<1>1. s \in Outcome /\ a \in Outcome /\ a.clean = TRUE
  BY DEF Strict, Flags, Outcome
<1>2. (s.clean /\ a.clean) = s.clean
  BY <1>1 DEF Outcome
<1>3. [s EXCEPT !.clean = s.clean] = s
  BY <1>1 DEF Outcome
<1> QED
  BY <1>1, <1>2, <1>3

-----------------------------------------------------------------------------
(* The requests that give the key a new current version. *)

\* The pairs of files of object o.
Slots(o) == {o.cur} \cup {o.arch[v] : v \in Vids}

\* Every body has readable metadata, and no metadata is without its body.
Whole(o) == \A s \in Slots(o) : s.meta.st = IF s.body = Absent THEN "absent" ELSE "ok"

\* Metadata that can be read describe the body.
Fits(s) == s.meta.st = "ok" => s.body = IF s.meta.marker THEN Blank ELSE s.meta.etag
Described(o) == \A s \in Slots(o) : Fits(s)
PartsAgree(M) == \A u \in Uploads, p \in Parts : M[u].part[p].body = M[u].part[p].etag

\* The metadata of a new version.  Only a copy onto itself without versioning keeps its ID.
NewVersion(m) ==
    /\ m \in Meta /\ m.st = "ok" /\ m.mod = writes + 1
    /\ \/ m.vid = NewVid
       \/ ~Enabled /\ obj.cur.meta.st = "ok" /\ m.vid = obj.cur.meta.vid

\* The body of a new version, if there is one.
Filling(can, b, m) ==
    /\ Whole(obj) => can /\ b # Absent
    /\ Described(obj) /\ PartsAgree(mpu) /\ "current" \notin Copies
          => Fits([body |-> b, meta |-> m])

\* Outcome r of a write.
Replaces(r) ==
    /\ Strict(r)
    /\ \E can \in BOOLEAN, b \in Body, m \in Meta :
          /\ NewVersion(m)
          /\ Filling(can, b, m)
          /\ Overwritten(obj, r.obj, Enabled, ArchiveVid(obj, nvid + 1), can, b, m, r.clean)

\* What RoomForWrite leaves room for.
LEMMA RoomIs ==
    ASSUME TypeOK, RoomForWrite
    PROVE  /\ writes \in Int /\ nvid \in Int /\ nvid >= 0 /\ writes >= 0
           /\ writes + 1 \in Data /\ writes + 1 \in Body /\ writes + 1 \in 0..MaxWrites
           /\ NewVid \in 0..MaxVid /\ TakeVids \in 0..MaxVid /\ nvid <= TakeVids
           /\ Enabled => nvid + 1 \in Vids /\ ArchiveVid(obj, nvid + 1) \in Vids
                         /\ nvid < NewVid /\ NewVid = TakeVids
                         /\ (HasCurrent(obj) /\ obj.cur.meta.vid = 0 => nvid + 1 < NewVid)
           /\ ~Enabled => NewVid = 0 /\ TakeVids = nvid
<1>1. writes \in Int /\ nvid \in Int /\ 0 <= writes /\ writes < MaxWrites /\ 0 <= nvid
      /\ nvid <= MaxVid /\ TakeVids <= MaxVid /\ MaxVid \in Nat /\ MaxWrites \in Nat
      /\ obj.cur.meta.vid \in 0..MaxVid
  BY FilesAssumption, ObjectParts DEF TypeOK, RoomForWrite
<1>2. writes + 1 \in Data /\ writes + 1 \in Body /\ writes + 1 \in 0..MaxWrites
  BY <1>1 DEF Data, Body
<1>3. CASE Enabled
  <2>1. NewVids \in {1, 2} /\ TakeVids = nvid + NewVids /\ NewVid = TakeVids
    BY <1>3 DEF NewVids, TakeVids, NewVid
  <2>2. nvid + 1 \in Vids
    BY <1>1, <2>1 DEF Vids
  <2>3. ArchiveVid(obj, nvid + 1) \in Vids
    BY <1>1, <2>2 DEF ArchiveVid, Vids
  <2>4. HasCurrent(obj) /\ obj.cur.meta.vid = 0 => NewVids = 2
    BY DEF NewVids
  <2> QED
    BY <1>1, <1>2, <1>3, <2>1, <2>2, <2>3, <2>4
<1>4. CASE ~Enabled
  <2>1. NewVid = 0 /\ TakeVids = nvid
    BY <1>4 DEF NewVid, TakeVids
  <2> QED
    BY <1>1, <1>2, <1>4, <2>1
<1> QED
  BY <1>3, <1>4

LEMMA RetentionIs ==
    ASSUME TypeOK, NEW mode \in Modes
    PROVE  Retention(mode) \in Modes
BY DEF TypeOK, Bucket, Retention

LEMMA FreshFilling ==
    ASSUME NEW b \in Body, b # Absent, NEW m \in Meta,
           b = IF m.marker THEN Blank ELSE m.etag
    PROVE  Filling(TRUE, b, m)
BY DEF Filling, Fits

\* An archived version and the write of the next: the outcome of the two.
LEMMA VersionedWrite ==
    ASSUME TypeOK, RoomForWrite, Enabled, NEW can \in BOOLEAN, NEW b \in Body, NEW m \in Meta,
           NEW a \in Archive(obj, nvid + 1), a.how = "ok", NEW s, Strict(s),
           Written(a.obj, s.obj, b, m, s.clean) \/ (~can /\ s.obj = a.obj),
           NEW r, r = [s EXCEPT !.clean = @ /\ a.clean]
    PROVE  Strict(r) /\ Overwritten(obj, r.obj, Enabled, ArchiveVid(obj, nvid + 1), can, b, m, r.clean)
<1>1. obj \in Object /\ nvid + 1 \in Vids /\ ArchiveVid(obj, nvid + 1) \in Vids
  BY RoomIs DEF TypeOK
<1>2. Strict(a) /\ Archived(obj, a.obj, ArchiveVid(obj, nvid + 1), a.clean)
  BY <1>1, ArchiveLeaves
<1>3. r = s /\ a.clean
  BY <1>2, ThenFlags
<1>4. a.clean = TRUE
  BY <1>2, <1>3 DEF Strict, Flags, Outcome
<1>5. Overwritten(obj, s.obj, TRUE, ArchiveVid(obj, nvid + 1), can, b, m, s.clean)
  BY <1>1, <1>2, <1>4, ArchiveThenWrite
<1>6. Enabled = TRUE
  BY DEF Enabled
<1> QED
  BY <1>3, <1>5, <1>6

LEMMA VersionedArchive ==
    ASSUME TypeOK, RoomForWrite, Enabled, NEW can \in BOOLEAN, NEW b \in Body, NEW m \in Meta,
           NEW r \in Archive(obj, nvid + 1), r.how # "ok"
    PROVE  Strict(r) /\ Overwritten(obj, r.obj, Enabled, ArchiveVid(obj, nvid + 1), can, b, m, r.clean)
<1>1. obj \in Object /\ nvid + 1 \in Vids /\ ArchiveVid(obj, nvid + 1) \in Vids
  BY RoomIs DEF TypeOK
<1>2. /\ Strict(r) /\ Archived(obj, r.obj, ArchiveVid(obj, nvid + 1), r.clean)
      /\ r.clean => r.obj = obj
  BY <1>1, ArchiveLeaves
<1>6. Enabled = TRUE
  BY DEF Enabled
<1> QED
  BY <1>1, <1>2, <1>6, ArchiveOnly

LEMMA UnversionedWrite ==
    ASSUME TypeOK, ~Enabled, NEW can, NEW b, NEW m, NEW r,
           Written(obj, r.obj, b, m, r.clean) \/ r.obj = obj
    PROVE  Overwritten(obj, r.obj, Enabled, ArchiveVid(obj, nvid + 1), can, b, m, r.clean)
<1>6. Enabled = FALSE
  BY DEF Enabled
<1> QED
  BY <1>6, WriteOnly DEF TypeOK

LEMMA TaggedWrite ==
    ASSUME TypeOK, NEW can, NEW b, NEW m, NEW a, Strict(a), a.how = "ok",
           Overwritten(obj, a.obj, Enabled, ArchiveVid(obj, nvid + 1), can, b, m, a.clean),
           NEW s \in Tagged(a.obj), NEW r, r = [s EXCEPT !.clean = @ /\ a.clean]
    PROVE  Strict(r) /\ Overwritten(obj, r.obj, Enabled, ArchiveVid(obj, nvid + 1), can, b, m, r.clean)
<1>0. obj \in Object
  BY DEF TypeOK
<1>1. a.clean = TRUE /\ a.obj \in Object
  BY DEF Strict, Flags, Outcome
<1>2. Strict(s) /\ s.obj \in Object /\ s.obj.arch = a.obj.arch
      /\ (s.obj.cur = a.obj.cur \/ s.obj.cur.meta = NoMeta) /\ (s.clean => s.obj = a.obj)
  BY <1>1, TaggedLeaves
<1>3. r = s
  BY <1>2, ThenFlags
<1>4. Overwritten(obj, a.obj, Enabled, ArchiveVid(obj, nvid + 1), can, b, m, TRUE)
  BY <1>1
<1>5. Overwritten(obj, s.obj, Enabled, ArchiveVid(obj, nvid + 1), can, b, m, s.clean)
  BY <1>0, <1>2, <1>4, WriteThenTag
<1> QED
  BY <1>2, <1>3, <1>5

\* Outcome r is an archiving that failed, or one that a write followed.
AfterArchive(r, can, b, m) ==
    \/ r \in Archive(obj, nvid + 1) /\ r.how # "ok"
    \/ \E a \in Archive(obj, nvid + 1), s \in Outcome :
          /\ a.how = "ok" /\ Strict(s)
          /\ Written(a.obj, s.obj, b, m, s.clean) \/ (~can /\ s.obj = a.obj)
          /\ r = [s EXCEPT !.clean = @ /\ a.clean]

\* Outcome r replaces the current version as Overwritten says.
Puts(r, can, b, m) ==
    Strict(r) /\ Overwritten(obj, r.obj, Enabled, ArchiveVid(obj, nvid + 1), can, b, m, r.clean)

LEMMA VersionedPuts ==
    ASSUME TypeOK, RoomForWrite, Enabled, NEW can \in BOOLEAN, NEW b \in Body, NEW m \in Meta,
           NEW r, AfterArchive(r, can, b, m)
    PROVE  Puts(r, can, b, m)
<1>1. CASE r \in Archive(obj, nvid + 1) /\ r.how # "ok"
  BY <1>1, VersionedArchive DEF Puts
<1>2. CASE \E a \in Archive(obj, nvid + 1), s \in Outcome :
          /\ a.how = "ok" /\ Strict(s)
          /\ Written(a.obj, s.obj, b, m, s.clean) \/ (~can /\ s.obj = a.obj)
          /\ r = [s EXCEPT !.clean = @ /\ a.clean]
  BY <1>2, VersionedWrite DEF Puts
<1> QED
  BY <1>1, <1>2 DEF AfterArchive

LEMMA TaggedPuts ==
    ASSUME TypeOK, NEW can, NEW b, NEW m, NEW R, \A a \in R : Puts(a, can, b, m),
           NEW r \in Then(R, Tagged)
    PROVE  Puts(r, can, b, m)
<1>1. r \in R \/ \E a \in R : a.how = "ok" /\ \E s \in Tagged(a.obj) :
                    r = [s EXCEPT !.clean = @ /\ a.clean]
  BY DEF Then
<1>2. CASE r \in R
  BY <1>2
<1>3. CASE \E a \in R : a.how = "ok" /\ \E s \in Tagged(a.obj) :
                    r = [s EXCEPT !.clean = @ /\ a.clean]
  BY <1>3, TaggedWrite DEF Puts
<1> QED
  BY <1>1, <1>2, <1>3

LEMMA ArchivedIsObject ==
    ASSUME TypeOK, RoomForWrite, Enabled, NEW a \in Archive(obj, nvid + 1)
    PROVE  a.obj \in Object
BY RoomIs, ArchiveLeaves DEF Strict, Flags, Outcome, TypeOK

LEMMA PutsReplaces ==
    ASSUME NEW can \in BOOLEAN, NEW b \in Body, NEW m \in Meta, NewVersion(m),
           Filling(can, b, m), NEW r, Puts(r, can, b, m)
    PROVE  Replaces(r)
BY DEF Puts, Replaces

\* PutObject.
LEMMA PutReplaces ==
    ASSUME TypeOK, RoomForWrite, NEW mode \in HeaderModes, NEW hold \in HeaderHolds,
           NEW r \in PutOutcomes(mode, hold)
    PROVE  Replaces(r)
<1> DEFINE m == NewMeta(NewVid, writes + 1, writes + 1, Retention(mode), hold)
           b == writes + 1
           Write(o) == WriteObject(o, writes + 1, m, TRUE)
<1>1. b \in Data /\ b \in Body /\ b \in 0..MaxWrites /\ NewVid \in 0..MaxVid /\ b # Absent
  BY RoomIs DEF Data, Absent
<1>2. Retention(mode) \in Modes /\ hold \in BOOLEAN
  BY RetentionIs, ObjectsAssumption
<1>3. /\ m \in Meta /\ m.st = "ok" /\ m.vid = NewVid /\ m.etag = b /\ m.mod = b
      /\ m.marker = FALSE
  <2>1. writes + 1 \in Data \cup {Absent} /\ writes + 1 \in 0..MaxWrites
    BY <1>1
  <2>2. IsNew(m, NewVid, b, FALSE) /\ m.etag = b
    BY <1>1, <1>2, <2>1, NewMetaIs, Zenon
  <2> QED
    BY <2>2 DEF IsNew
<1>4. IF Enabled THEN r \in Then(Archive(obj, nvid + 1), Write) ELSE r \in Write(obj)
  BY DEF PutOutcomes, NewMeta
<1> HIDE DEF m
<1>5. NewVersion(m) /\ Filling(TRUE, b, m)
  BY <1>1, <1>3, FreshFilling DEF NewVersion
<1>6. ASSUME NEW o \in Object, NEW s \in Write(o)
      PROVE  Strict(s) /\ s \in Outcome /\ Written(o, s.obj, b, m, s.clean)
  BY <1>1, <1>3, <1>6, WriteLeaves DEF Strict, Flags
<1>7. CASE Enabled
  <2>1. \/ r \in Archive(obj, nvid + 1) /\ r.how # "ok"
        \/ \E a \in Archive(obj, nvid + 1) : a.how = "ok" /\ \E s \in Write(a.obj) :
              r = [s EXCEPT !.clean = @ /\ a.clean]
    BY <1>4, <1>7 DEF Then
  <2> HIDE DEF b, Write
  <2>2. AfterArchive(r, TRUE, b, m)
    BY <1>6, <1>7, <2>1, ArchivedIsObject DEF AfterArchive
  <2> QED
    BY <1>1, <1>3, <1>5, <1>7, <2>2, VersionedPuts, PutsReplaces
<1>8. CASE ~Enabled
  <2>1. r \in Write(obj)
    BY <1>4, <1>8
  <2> HIDE DEF b, Write
  <2>2. Strict(r) /\ Written(obj, r.obj, b, m, r.clean)
    BY <1>6, <2>1 DEF TypeOK
  <2> QED
    BY <1>1, <1>3, <1>5, <1>8, <2>2, UnversionedWrite, PutsReplaces DEF Puts
<1> QED
  BY <1>7, <1>8

\* DeleteObjectVersioned while versioning is enabled: a delete marker is written.
LEMMA MarkerReplaces ==
    ASSUME TypeOK, RoomForWrite, Enabled, NEW bypass, NEW r \in DeleteOutcomes(bypass)
    PROVE  Replaces(r)
<1> DEFINE m == MarkerMeta(NewVid, writes + 1)
           Mark(o) == WriteMarker(o, m)
<1>1. writes + 1 \in 0..MaxWrites /\ NewVid \in 0..MaxVid /\ Blank \in Body /\ Blank # Absent
  BY RoomIs, EmptyTypes DEF Blank, Absent
<1>3. m \in Meta /\ m.st = "ok" /\ m.vid = NewVid /\ m.mod = writes + 1 /\ m.marker = TRUE
  <2>2. IsNew(m, NewVid, writes + 1, TRUE)
    BY <1>1, MarkerMetaIs, Zenon
  <2> QED
    BY <2>2 DEF IsNew
<1>4. r \in Then(Archive(obj, nvid + 1), Mark)
  BY DEF DeleteOutcomes, MarkerMeta
<1> HIDE DEF m
<1>5. NewVersion(m) /\ Filling(TRUE, Blank, m)
  BY <1>1, <1>3, FreshFilling DEF NewVersion
<1>6. ASSUME NEW o \in Object, NEW s \in Mark(o)
      PROVE  Strict(s) /\ s \in Outcome /\ Written(o, s.obj, Blank, m, s.clean)
  BY <1>1, <1>3, <1>6, WriteLeaves DEF Strict, Flags
<1>7. \/ r \in Archive(obj, nvid + 1) /\ r.how # "ok"
      \/ \E a \in Archive(obj, nvid + 1) : a.how = "ok" /\ \E s \in Mark(a.obj) :
            r = [s EXCEPT !.clean = @ /\ a.clean]
  BY <1>4 DEF Then
<1> HIDE DEF Mark
<1>8. AfterArchive(r, TRUE, Blank, m)
  BY <1>6, <1>7, ArchivedIsObject DEF AfterArchive
<1> QED
  BY <1>1, <1>3, <1>5, <1>8, VersionedPuts, PutsReplaces

\* CompleteMultipartUpload.  When the parts' bodies are what their ETags say, so is the
\* assembled body.
LEMMA AssembleReplaces ==
    ASSUME TypeOK, RoomForWrite, NEW u \in Uploads, NEW S \in SUBSET Parts, NEW mode \in Modes,
           NEW r \in AssembleOutcomes(u, S, mode)
    PROVE  Replaces(r)
<1> DEFINE b == IF Genuine(mpu[u], S) THEN writes + 1 ELSE Cut
           m == NewMeta(NewVid, writes + 1, writes + 1, mode, mpu[u].hold)
           Write(o) == WriteObject(o, b, m, FALSE)
           R == IF Enabled THEN Then(Archive(obj, nvid + 1), Write) ELSE Write(obj)
<1>1. /\ writes + 1 \in Data /\ writes + 1 \in 0..MaxWrites /\ NewVid \in 0..MaxVid
      /\ b \in Body /\ b # Absent
  BY RoomIs, EmptyTypes DEF Data, Absent, Cut
<1>2. mpu[u].hold \in BOOLEAN
  BY DEF TypeOK, Upload
<1>3. /\ m \in Meta /\ m.st = "ok" /\ m.vid = NewVid /\ m.etag = writes + 1
      /\ m.mod = writes + 1 /\ m.marker = FALSE
  <2>1. writes + 1 \in Data \cup {Absent}
    BY <1>1
  <2>2. IsNew(m, NewVid, writes + 1, FALSE) /\ m.etag = writes + 1
    BY <1>1, <1>2, <2>1, NewMetaIs, Zenon
  <2> QED
    BY <2>2 DEF IsNew
<1>4. r \in Then(R, Tagged)
  BY DEF AssembleOutcomes, NewMeta
<1> HIDE DEF m
<1>5. NewVersion(m) /\ Filling(TRUE, b, m)
  <2>1. PartsAgree(mpu) => b = writes + 1
    BY DEF PartsAgree, Genuine
  <2> HIDE DEF b
  <2> QED
    BY <1>1, <1>3, <2>1 DEF NewVersion, Filling, Fits
<1>6. ASSUME NEW o \in Object, NEW s \in Write(o)
      PROVE  Strict(s) /\ s \in Outcome /\ Written(o, s.obj, b, m, s.clean)
  <2> HIDE DEF b
  <2> QED
    BY <1>1, <1>3, <1>6, WriteLeaves DEF Strict, Flags
<1>7. \A a \in R : Puts(a, TRUE, b, m)
  <2> SUFFICES ASSUME NEW a \in R PROVE Puts(a, TRUE, b, m)
    OBVIOUS
  <2>1. CASE Enabled
    <3>1. \/ a \in Archive(obj, nvid + 1) /\ a.how # "ok"
          \/ \E c \in Archive(obj, nvid + 1) : c.how = "ok" /\ \E s \in Write(c.obj) :
                a = [s EXCEPT !.clean = @ /\ c.clean]
      <4>1. a \in Then(Archive(obj, nvid + 1), Write)
        BY <2>1
      <4> HIDE DEF b, R
      <4> QED
        BY <4>1 DEF Then
    <3> HIDE DEF b, Write, R
    <3>2. AfterArchive(a, TRUE, b, m)
      BY <1>6, <2>1, <3>1, ArchivedIsObject DEF AfterArchive
    <3> QED
      BY <1>1, <1>3, <2>1, <3>2, VersionedPuts
  <2>2. CASE ~Enabled
    <3>1. a \in Write(obj)
      BY <2>2
    <3> HIDE DEF b, Write, R
    <3> QED
      BY <1>6, <2>2, <3>1, UnversionedWrite DEF Puts, TypeOK
  <2> QED
    BY <2>1, <2>2
<1> HIDE DEF b, R
<1>8. Puts(r, TRUE, b, m)
  BY <1>4, <1>7, TaggedPuts
<1> QED
  BY <1>1, <1>3, <1>5, <1>8, PutsReplaces

\* Rewriting the metadata of the current version gives it the metadata m.
LEMMA RewriteWrites ==
    ASSUME NEW o \in Object, NEW m \in Meta, NEW r \in Rewrite(o, 0, m)
    PROVE  Strict(r) /\ Written(o, r.obj, o.cur.body, m, r.clean)
<1> DEFINE Put(n) == [o EXCEPT !.cur.meta = n]
<1>1. \A n \in Meta : /\ Put(n) \in Object /\ Put(n).arch = o.arch
                      /\ Put(n).cur = [body |-> o.cur.body, meta |-> n]
  BY DEF Object, Slot
<1>2. r \in Done(Put(m)) \/ \E f \in {"disk", "kill"} : r \in Spoilt(f, {Put(TornMeta)})
  BY DEF Rewrite
<1> HIDE DEF Put
<1>3. TornMeta \in Meta /\ Put(TornMeta) \in Object /\ Put(TornMeta).arch = o.arch
      /\ Put(TornMeta).cur.meta = TornMeta
  <2>1. TornMeta \in Meta
    BY EmptyTypes
  <2>2. Put(TornMeta) \in Object /\ Put(TornMeta).arch = o.arch
        /\ Put(TornMeta).cur = [body |-> o.cur.body, meta |-> TornMeta]
    BY <1>1, <2>1
  <2> QED
    BY <2>1, <2>2
<1>4. CASE r \in Done(Put(m))
  BY <1>1, <1>4, DoneIs DEF Written
<1>5. CASE \E f \in {"disk", "kill"} : r \in Spoilt(f, {Put(TornMeta)})
  <2>1. r.obj = Put(TornMeta) /\ ~r.clean /\ Strict(r)
    BY <1>3, <1>5, SpoiltIs
  <2> QED
    BY <1>3, <2>1 DEF Written
<1> QED
  BY <1>2, <1>4, <1>5

\* What is copied: a version of the key, or an object from elsewhere.
Source0(src, onto) ==
    /\ src \in Slot /\ src.meta.st = "ok" /\ src.meta.marker = FALSE
    /\ Whole(obj) => src.body # Absent
    /\ Described(obj) => src.body = src.meta.etag
    /\ onto => src = obj.cur /\ "current" \in Copies

\* CopyObject.
LEMMA CopyReplaces ==
    ASSUME TypeOK, RoomForWrite, NEW src, NEW onto \in BOOLEAN, Source0(src, onto),
           NEW mode \in HeaderModes, NEW hold \in HeaderHolds,
           NEW r \in CopyOutcomes(src, onto, mode, hold)
    PROVE  Replaces(r)
<1> DEFINE m == NewMeta(NewVid, src.meta.etag, writes + 1, Retention(mode), hold)
           b == IF onto THEN Blank ELSE src.body
           can == src.body # Absent
           Write(o) == IF src.body = Absent THEN Refused(o)
                       ELSE WriteObject(o, IF onto THEN Blank ELSE src.body, m, FALSE)
<1>0. src \in Slot /\ src.body \in Body /\ src.meta \in Meta /\ src.meta.etag \in Data \cup {Absent}
  BY DEF Source0, Slot, Meta
<1>1. /\ writes + 1 \in 0..MaxWrites /\ NewVid \in 0..MaxVid /\ b \in Body
      /\ Blank # Absent /\ can \in BOOLEAN /\ obj \in Object
  BY <1>0, RoomIs, EmptyTypes DEF Absent, Blank, TypeOK
<1>2. Retention(mode) \in Modes /\ hold \in BOOLEAN
  BY RetentionIs, ObjectsAssumption
<1>3. /\ m \in Meta /\ m.st = "ok" /\ m.vid = NewVid /\ m.etag = src.meta.etag
      /\ m.mod = writes + 1 /\ m.marker = FALSE
  <2>1. NewVid \in 0..MaxVid /\ writes + 1 \in 0..MaxWrites
    BY <1>1
  <2>2. IsNew(m, NewVid, writes + 1, FALSE) /\ m.etag = src.meta.etag
    BY <1>0, <1>2, <2>1, NewMetaIs, Zenon
  <2> QED
    BY <2>2 DEF IsNew
<1>5. NewVersion(m) /\ Filling(can, b, m)
  <2> HIDE DEF m
  <2> QED
    BY <1>1, <1>3 DEF NewVersion, Filling, Fits, Source0
<1>6. ASSUME NEW o \in Object, NEW s \in Write(o)
      PROVE  Strict(s) /\ s \in Outcome /\ (Written(o, s.obj, b, m, s.clean) \/ (~can /\ s.obj = o))
  <2>1. CASE can
    <3>1. s \in WriteObject(o, b, m, FALSE)
      BY <1>6, <2>1
    <3> HIDE DEF b, m, can
    <3> QED
      BY <1>1, <1>3, <3>1, WriteLeaves DEF Strict, Flags
  <2>2. CASE ~can
    <3>1. s \in Refused(o)
      BY <1>6, <2>2
    <3> HIDE DEF b, m, can
    <3> QED
      BY <2>2, <3>1, DoneIs DEF Strict, Flags
  <2> QED
    BY <2>1, <2>2
<1>7. CASE Enabled
  <2> DEFINE R == Then(Archive(obj, nvid + 1), Write)
  <2>1. r \in Then(R, Tagged)
    BY <1>7 DEF CopyOutcomes, NewMeta
  <2>2. \A a \in R : Puts(a, can, b, m)
    <3> SUFFICES ASSUME NEW a \in R PROVE Puts(a, can, b, m)
      OBVIOUS
    <3>1. \/ a \in Archive(obj, nvid + 1) /\ a.how # "ok"
          \/ \E c \in Archive(obj, nvid + 1) : c.how = "ok" /\ \E s \in Write(c.obj) :
                a = [s EXCEPT !.clean = @ /\ c.clean]
      <4>1. a \in Then(Archive(obj, nvid + 1), Write)
        OBVIOUS
      <4> HIDE DEF m, R, Write
      <4> QED
        BY <4>1 DEF Then
    <3> HIDE DEF b, m, can, Write, R
    <3>2. AfterArchive(a, can, b, m)
      BY <1>6, <1>7, <3>1, ArchivedIsObject DEF AfterArchive
    <3> QED
      BY <1>1, <1>3, <1>7, <3>2, VersionedPuts
  <2> HIDE DEF b, m, can, R
  <2>3. Puts(r, can, b, m)
    BY <2>1, <2>2, TaggedPuts
  <2> QED
    BY <1>1, <1>3, <1>5, <2>3, PutsReplaces
<1>8. CASE ~Enabled /\ ~onto
  <2>1. r \in Then(Write(obj), Tagged)
    BY <1>8 DEF CopyOutcomes, NewMeta
  <2> HIDE DEF b, m, can, Write
  <2>2. \A a \in Write(obj) : Puts(a, can, b, m)
    BY <1>1, <1>6, <1>8, UnversionedWrite DEF Puts
  <2>3. Puts(r, can, b, m)
    BY <2>1, <2>2, TaggedPuts
  <2> QED
    BY <1>1, <1>3, <1>5, <2>3, PutsReplaces
<1>9. CASE ~Enabled /\ onto
  <2> DEFINE n == [src.meta EXCEPT !.mod = m.mod, !.mode = m.mode, !.hold = hold]
  <2>1. r \in Rewrite(obj, 0, n)
    BY <1>9 DEF CopyOutcomes, NewMeta
  <2>2. m.mode \in Modes
    BY <1>3 DEF Meta
  <2> HIDE DEF m
  <2>3. n \in Meta /\ n.st = "ok" /\ n.mod = writes + 1 /\ n.vid = src.meta.vid
    BY <1>0, <1>1, <1>2, <1>3, <2>2 DEF Meta, Source0
  <2> HIDE DEF n
  <2>4. Strict(r) /\ Written(obj, r.obj, obj.cur.body, n, r.clean)
    BY <1>1, <2>1, <2>3, RewriteWrites
  <2>5. src = obj.cur /\ obj.cur.meta.st = "ok" /\ "current" \in Copies /\ obj.cur.body \in Body
        /\ (Whole(obj) => obj.cur.body # Absent)
    BY <1>0, <1>9 DEF Source0
  <2>6. NewVersion(n) /\ Filling(TRUE, obj.cur.body, n)
    BY <1>9, <2>3, <2>5 DEF NewVersion, Filling
  <2>7. Puts(r, TRUE, obj.cur.body, n)
    BY <1>9, <2>4, UnversionedWrite DEF Puts
  <2> QED
    BY <2>3, <2>5, <2>6, <2>7, PutsReplaces
<1> QED
  BY <1>7, <1>8, <1>9

-----------------------------------------------------------------------------
(* What a step does to the files of the key. *)

\* The key is given a new current version.
Replaced ==
    /\ bkt.st = "ok" /\ RoomForWrite
    /\ writes' = writes + 1 /\ nvid' = TakeVids /\ UNCHANGED bkt
    /\ \E r \in Outcome : Replaces(r) /\ obj' = r.obj /\ (Fault \/ r.clean)

\* Why version v, 0 for the current one, is removed (gone) or rewritten.
Reason(v, gone) ==
    \/ ~gone /\ (Fault => v = 0 \/ Names(v))
    \/ gone /\ v = 0 /\ StaleDelete /\ ~Locked(obj.cur.meta, FALSE)
    \/ gone /\ v = 0 /\ bkt.st = "ok" /\ ~Enabled
    \/ /\ gone /\ v # 0 /\ Names(v)
       /\ Resolve(obj, v).meta.marker \/ ~Locked(Resolve(obj, v).meta, FALSE)
    \/ /\ gone /\ v # 0
       /\ \E bypass \in BOOLEAN :
             /\ DeleteObjectVersion(v, bypass)
             /\ Resolve(obj, v).meta.marker \/ ~Locked(Resolve(obj, v).meta, bypass)

\* One version is removed or rewritten.
Changed ==
    /\ UNCHANGED <<bkt, nvid>> /\ writes' \in {writes, writes + 1}
    /\ bkt.st # "none"
    /\ \E v \in 0..MaxVid, gone \in BOOLEAN :
          Touched(obj, obj', v, ~Fault, gone) /\ Reason(v, gone)

ObjectKept == obj' = obj

LEMMA EndedIs ==
    ASSUME TypeOK, NEW r, r.clean \in BOOLEAN, NEW p, NEW q, NEW l, Ended(r, p, q, l)
    PROVE  /\ hurts' \in 0..MaxFaults /\ hurts <= hurts'
           /\ Fault <=> ~r.clean
           /\ hurts' = 0 => hurts = 0
<1>1. hurts \in Int /\ 0 <= hurts /\ hurts <= MaxFaults /\ MaxFaults \in Int
  BY ObjectsAssumption DEF TypeOK
<1>2. CASE r.clean
  BY <1>1, <1>2 DEF Ended, Fault
<1>3. CASE ~r.clean
  BY <1>1, <1>3 DEF Ended, Fault
<1> QED
  BY <1>2, <1>3

LEMMA TouchedMono ==
    ASSUME NEW o, NEW p, NEW v, NEW c, NEW d, NEW gone, Touched(o, p, v, c, gone), d => c
    PROVE  Touched(o, p, v, d, gone)
BY DEF Touched, Touch

\* A step that leaves outcome r of a removal or rewriting.
LEMMA LeaveTouches ==
    ASSUME TypeOK, NEW r, Flags(r), NEW p, NEW l, Leave(r, p, l), NEW v \in 0..MaxVid,
           NEW gone \in BOOLEAN, Touched(obj, r.obj, v, r.clean, gone)
    PROVE  Touched(obj, obj', v, ~Fault, gone)
<1>1. r.clean \in BOOLEAN
  BY DEF Flags, Outcome
<1>2. (Fault <=> ~r.clean) /\ obj' = r.obj
  BY <1>1, EndedIs DEF Leave
<1>3. Touched(obj, obj', v, r.clean, gone)
  BY <1>2
<1> QED
  BY <1>2, <1>3, TouchedMono

\* A step that leaves outcome r of a write.
LEMMA LeaveReplaces ==
    ASSUME TypeOK, bkt.st = "ok", RoomForWrite, NEW r, Replaces(r), NEW p, NEW l, Leave(r, p, l),
           writes' = writes + 1, nvid' = TakeVids, UNCHANGED bkt
    PROVE  Replaced
<1>1. r \in Outcome /\ r.clean \in BOOLEAN
  BY DEF Replaces, Strict, Flags, Outcome
<1>2. (Fault <=> ~r.clean) /\ obj' = r.obj
  BY <1>1, EndedIs DEF Leave
<1> QED
  BY <1>1, <1>2 DEF Replaced

\* DeleteObject.
LEMMA DeletePlainLeaves ==
    ASSUME TypeOK, NEW r \in DeletePlain
    PROVE  /\ Flags(r)
           /\ \/ r.obj = obj
              \/ Touched(obj, r.obj, 0, r.clean, TRUE) /\ ~Locked(obj.cur.meta, FALSE)
<1>0. obj \in Object
  BY DEF TypeOK
<1>1. CASE Locked(obj.cur.meta, FALSE)
  BY <1>0, <1>1, DoneIs DEF DeletePlain, Strict
<1>2. CASE ~Locked(obj.cur.meta, FALSE)
  BY <1>0, <1>2, RemoveFilesLeaves DEF DeletePlain
<1> QED
  BY <1>1, <1>2

\* DeleteObjectVersion.
LEMMA DeleteVersionLeaves ==
    ASSUME TypeOK, NEW v \in Vids, NEW bypass, NEW r \in DeleteVersion(v, bypass)
    PROVE  /\ Flags(r)
           /\ \/ r.obj = obj
              \/ /\ Touched(obj, r.obj, v, r.clean, TRUE)
                 /\ Resolve(obj, v).meta.marker \/ ~Locked(Resolve(obj, v).meta, bypass)
<1>0. obj \in Object
  BY DEF TypeOK
<1> DEFINE m == Resolve(obj, v).meta
<1>1. CASE m.st # "ok" \/ (~m.marker /\ Locked(m, bypass))
  <2>1. r \in Refused(obj)
    BY <1>1 DEF DeleteVersion
  <2> QED
    BY <1>0, <2>1, DoneIs DEF Strict
<1>2. CASE ~(m.st # "ok" \/ (~m.marker /\ Locked(m, bypass))) /\ IsCurrent(obj, v)
  <2>1. r \in RemoveFiles(obj)
    BY <1>2 DEF DeleteVersion
  <2>2. Flags(r) /\ Touched(obj, r.obj, 0, r.clean, TRUE)
    BY <1>0, <2>1, RemoveFilesLeaves
  <2>3. Touched(obj, r.obj, v, r.clean, TRUE)
    BY <1>2, <2>2 DEF Touched
  <2> QED
    BY <1>2, <2>2, <2>3
<1>3. CASE ~(m.st # "ok" \/ (~m.marker /\ Locked(m, bypass))) /\ ~IsCurrent(obj, v)
  <2>1. r \in RemoveArchived(obj, v)
    BY <1>3 DEF DeleteVersion
  <2> QED
    BY <1>0, <1>3, <2>1, RemoveArchivedLeaves
<1> QED
  BY <1>1, <1>2, <1>3

LEMMA LeaveKept ==
    ASSUME NEW r, NEW p, NEW l, Leave(r, p, l), r.obj = obj
    PROVE  ObjectKept
BY DEF Leave, ObjectKept

\* DeleteObjectVersioned, for a request or for the lifecycle enforcer.
LEMMA DeleteShape ==
    ASSUME TypeOK, bkt.st = "ok", RoomForWrite, NEW bypass \in BOOLEAN,
           NEW r \in DeleteOutcomes(bypass), NEW l, Leave(r, pend, l),
           writes' = writes + 1, nvid' = TakeVids, UNCHANGED bkt
    PROVE  ObjectKept \/ Replaced \/ Changed
<1>0. obj \in Object
  BY DEF TypeOK
<1>1. CASE Enabled
  BY <1>1, MarkerReplaces, LeaveReplaces
<1>2. CASE ~Enabled /\ Locked(obj.cur.meta, bypass)
  <2>1. r \in Refused(obj)
    BY <1>2 DEF DeleteOutcomes
  <2> QED
    BY <1>0, <2>1, DoneIs, LeaveKept
<1>3. CASE ~Enabled /\ ~Locked(obj.cur.meta, bypass)
  <2>1. r \in RemoveFiles(obj)
    BY <1>3 DEF DeleteOutcomes
  <2>2. Flags(r) /\ Touched(obj, r.obj, 0, r.clean, TRUE)
    BY <1>0, <2>1, RemoveFilesLeaves
  <2>3. 0 \in 0..MaxVid
    BY FilesAssumption
  <2>4. Touched(obj, obj', 0, ~Fault, TRUE)
    BY <2>2, <2>3, LeaveTouches
  <2>5. Reason(0, TRUE)
    BY <1>3 DEF Reason
  <2>6. nvid' = nvid
    BY <1>3 DEF TakeVids
  <2> QED
    BY <2>3, <2>4, <2>5, <2>6 DEF Changed
<1> QED
  BY <1>1, <1>2, <1>3

\* The rewriting of the metadata of version v.
LEMMA UpdateShape ==
    ASSUME TypeOK, bkt.st # "none", NEW v \in 0..nvid, NEW m \in Meta, SameId(m, Target(v)),
           NEW r \in Rewrite(obj, v, m), Leave(r, pend, lc), UNCHANGED <<bkt, writes, nvid, mpu>>,
           Fault => v = 0 \/ Names(v)
    PROVE  Changed
<1>0. obj \in Object /\ v \in 0..MaxVid
  BY FilesAssumption DEF TypeOK
<1>1. Target(v) = IF v = 0 \/ IsCurrent(obj, v) THEN obj.cur.meta ELSE obj.arch[v].meta
  BY DEF Target, Resolve
<1>2. Flags(r) /\ Touched(obj, r.obj, v, r.clean, FALSE)
  BY <1>0, <1>1, RewriteLeaves
<1>3. Touched(obj, obj', v, ~Fault, FALSE)
  BY <1>0, <1>2, LeaveTouches
<1>4. Reason(v, FALSE)
  BY DEF Reason
<1> QED
  BY <1>0, <1>3, <1>4 DEF Changed

LEMMA TargetIs ==
    ASSUME TypeOK, NEW v \in 0..nvid
    PROVE  Target(v) \in Meta
<1>1. obj \in Object /\ (v = 0 \/ v \in Vids)
  BY FilesAssumption DEF TypeOK, Vids
<1> QED
  BY <1>1, ObjectParts DEF Target, Resolve

\* What a copy to the key does: an outcome that replaces the key's files is left.
CopyStep ==
    /\ bkt.st = "ok" /\ RoomForWrite /\ writes' = writes + 1 /\ nvid' = TakeVids /\ UNCHANGED bkt
    /\ \E r : Replaces(r) /\ Leave(r, pend, lc)

LEMMA CopyLeaves ==
    ASSUME TypeOK, NEW v \in 0..nvid, NEW mode \in HeaderModes, NEW hold \in HeaderHolds,
           CopyObject(v, mode, hold) \/ CopyFromElsewhere(mode, hold)
    PROVE  CopyStep
<1>0. obj \in Object /\ nvid \in 0..MaxVid /\ MaxVid \in Nat
  BY FilesAssumption DEF TypeOK
<1>1. ASSUME NEW src, NEW onto \in BOOLEAN, Source0(src, onto), Copy(src, onto, mode, hold)
      PROVE  CopyStep
  BY <1>1, CopyReplaces DEF Copy, CopyStep
<1>2. CASE CopyObject(v, mode, hold)
  <2>1. Onto(v) \in BOOLEAN /\ (v = 0 => Onto(v)) /\ (v # 0 => v \in Vids)
    BY <1>0 DEF Onto, IsCurrent, Vids
  <2>2. Source(v) \in Slot /\ Source(v) \in Slots(obj)
    BY <1>0, <2>1, ObjectParts DEF Source, Slots
  <2>3. Source(v).meta.st = "ok" /\ ~Source(v).meta.marker /\ Source(v).meta.marker \in BOOLEAN
    BY <1>2, <2>2 DEF CopyObject, Copy, Slot, Meta
  <2>4. Source0(Source(v), Onto(v))
    <3>1. Whole(obj) => Source(v).body # Absent
      BY <2>2, <2>3 DEF Whole
    <3>2. Described(obj) => Source(v).body = Source(v).meta.etag
      BY <2>2, <2>3 DEF Described, Fits
    <3>3. Onto(v) => Source(v) = obj.cur /\ "current" \in Copies
      BY <1>2 DEF CopyObject, Source
    <3> QED
      BY <2>2, <2>3, <3>1, <3>2, <3>3 DEF Source0
  <2> QED
    BY <1>1, <1>2, <2>1, <2>4 DEF CopyObject
<1>3. CASE CopyFromElsewhere(mode, hold)
  <2> DEFINE m == [NoMeta EXCEPT !.st = "ok", !.etag = writes + 1]
             src == [body |-> writes + 1, meta |-> m]
  <2>1. writes + 1 \in Data /\ writes + 1 \in Body /\ writes + 1 # Absent
    BY <1>3, RoomIs DEF CopyFromElsewhere, Copy, Data, Absent
  <2>2. m \in Meta /\ m.st = "ok" /\ m.etag = writes + 1 /\ m.marker = FALSE
    <3>1. NoMeta \in Meta /\ NoMeta.marker = FALSE
      BY EmptyTypes DEF NoMeta
    <3> QED
      BY <2>1, <3>1 DEF Meta
  <2>3. Copy(src, FALSE, mode, hold)
    BY <1>3 DEF CopyFromElsewhere
  <2> HIDE DEF m
  <2>4. Source0(src, FALSE)
    BY <2>1, <2>2 DEF Source0, Slot
  <2> HIDE DEF src
  <2> QED
    BY <1>1, <2>3, <2>4
<1> QED
  BY <1>2, <1>3

LEMMA ObjectStepShape ==
    ASSUME TypeOK, ObjectStep
    PROVE  ObjectKept \/ Replaced \/ Changed
<1>0. obj \in Object /\ nvid \in 0..MaxVid /\ MaxVid \in Nat /\ pend \subseteq 0..MaxVid
      /\ 0 \in 0..MaxVid
  BY FilesAssumption DEF TypeOK
<1>1. ASSUME NEW mode \in HeaderModes, NEW hold \in HeaderHolds, NEW bad \in BOOLEAN,
             PutObject(mode, hold, bad)
      PROVE  Replaced
  BY <1>1, PutReplaces, LeaveReplaces DEF PutObject
<1>2. ASSUME NEW bypass \in BOOLEAN, DeleteObjectVersioned(bypass)
      PROVE  ObjectKept \/ Replaced \/ Changed
  BY <1>2, DeleteShape DEF DeleteObjectVersioned
<1>3. ASSUME NEW v \in 1..nvid, NEW bypass \in BOOLEAN, DeleteObjectVersion(v, bypass)
      PROVE  ObjectKept \/ Changed
  <2>1. PICK r \in DeleteVersion(v, bypass) : Leave(r, pend, lc)
    BY <1>3 DEF DeleteObjectVersion
  <2>2. v \in Vids /\ v \in 0..MaxVid /\ v # 0
    BY <1>0 DEF Vids
  <2>3. CASE r.obj = obj
    BY <2>1, <2>3, LeaveKept
  <2>4. CASE r.obj # obj
    <3>1. /\ Flags(r) /\ Touched(obj, r.obj, v, r.clean, TRUE)
          /\ Resolve(obj, v).meta.marker \/ ~Locked(Resolve(obj, v).meta, bypass)
      BY <2>1, <2>2, <2>4, DeleteVersionLeaves
    <3>2. Touched(obj, obj', v, ~Fault, TRUE)
      BY <2>1, <2>2, <3>1, LeaveTouches
    <3>3. Reason(v, TRUE)
      BY <1>3, <2>2, <3>1 DEF Reason
    <3> QED
      BY <1>3, <2>2, <3>2, <3>3 DEF Changed, DeleteObjectVersion
  <2> QED
    BY <2>3, <2>4
<1>4. ASSUME NEW v \in pend, RollbackPut(v)
      PROVE  ObjectKept \/ Changed
  <2>1. PICK r \in (IF bkt.st = "none" THEN Refused(obj)
                    ELSE IF v = 0 THEN DeletePlain ELSE DeleteVersion(v, FALSE)) :
                Leave(r, pend \ {v}, lc)
    BY <1>4 DEF RollbackPut
  <2>2. v \in pend \ pend' /\ UNCHANGED <<bkt, writes, nvid, mpu>> /\ v \in 0..MaxVid
    BY <1>0, <1>4, <2>1 DEF RollbackPut, Leave, Ended
  <2>3. CASE bkt.st = "none" \/ r.obj = obj
    <3>1. r.obj = obj
      BY <1>0, <2>1, <2>3, DoneIs
    <3> QED
      BY <2>1, <3>1, LeaveKept
  <2>4. CASE bkt.st # "none" /\ r.obj # obj /\ v = 0
    <3>1. Flags(r) /\ Touched(obj, r.obj, 0, r.clean, TRUE) /\ ~Locked(obj.cur.meta, FALSE)
      BY <2>1, <2>4, DeletePlainLeaves
    <3>2. Touched(obj, obj', 0, ~Fault, TRUE)
      BY <1>0, <2>1, <3>1, LeaveTouches
    <3>3. Reason(0, TRUE)
      BY <2>2, <2>4, <3>1 DEF Reason, StaleDelete
    <3> QED
      BY <1>0, <2>2, <2>4, <3>2, <3>3 DEF Changed
  <2>5. CASE bkt.st # "none" /\ r.obj # obj /\ v # 0
    <3>0. v \in Vids
      BY <1>0, <2>2, <2>5 DEF Vids
    <3>1. /\ Flags(r) /\ Touched(obj, r.obj, v, r.clean, TRUE)
          /\ Resolve(obj, v).meta.marker \/ ~Locked(Resolve(obj, v).meta, FALSE)
      BY <2>1, <2>5, <3>0, DeleteVersionLeaves
    <3>2. Touched(obj, obj', v, ~Fault, TRUE)
      BY <2>1, <2>2, <3>1, LeaveTouches
    <3>3. Reason(v, TRUE)
      BY <2>2, <2>5, <3>1 DEF Reason, Names
    <3> QED
      BY <2>2, <2>5, <3>2, <3>3 DEF Changed
  <2> QED
    BY <2>3, <2>4, <2>5
<1>5. ASSUME NEW v \in 0..nvid, NEW mode \in LockModes, PutObjectRetention(v, mode)
      PROVE  Changed
  <2> DEFINE m == [Target(v) EXCEPT !.mode = mode]
  <2>1. m \in Meta /\ SameId(m, Target(v))
    BY TargetIs, ObjectsAssumption DEF Meta, SameId
  <2>2. PICK r \in Rewrite(obj, v, m) : Leave(r, pend, lc)
    BY <1>5 DEF PutObjectRetention, Update
  <2>3. bkt.st # "none" /\ UNCHANGED <<bkt, writes, nvid, mpu>>
    BY <1>5 DEF PutObjectRetention, Update
  <2>4. Fault => Names(v)
    BY <1>5 DEF Names
  <2> HIDE DEF m
  <2> QED
    BY <2>1, <2>2, <2>3, <2>4, UpdateShape
<1>6. ASSUME NEW v \in 0..nvid, NEW on \in BOOLEAN, PutObjectLegalHold(v, on)
      PROVE  Changed
  <2> DEFINE m == [Target(v) EXCEPT !.hold = on]
  <2>1. m \in Meta /\ SameId(m, Target(v))
    BY TargetIs DEF Meta, SameId
  <2>2. PICK r \in Rewrite(obj, v, m) : Leave(r, pend, lc)
    BY <1>6 DEF PutObjectLegalHold, Update
  <2>3. bkt.st # "none" /\ UNCHANGED <<bkt, writes, nvid, mpu>>
    BY <1>6 DEF PutObjectLegalHold, Update
  <2>4. Fault => Names(v)
    BY <1>6 DEF Names
  <2> HIDE DEF m
  <2> QED
    BY <2>1, <2>2, <2>3, <2>4, UpdateShape
<1>7. ASSUME NEW v \in 0..nvid, SetMetaField(v)
      PROVE  Changed
  <2>1. Target(v) \in Meta /\ SameId(Target(v), Target(v))
    BY TargetIs DEF SameId
  <2>2. PICK r \in Rewrite(obj, v, Target(v)) : Leave(r, pend, lc)
    BY <1>7 DEF SetMetaField
  <2>3. bkt.st # "none" /\ UNCHANGED <<bkt, writes, nvid, mpu>>
    BY <1>7 DEF SetMetaField
  <2>4. Fault => Names(v)
    BY <1>7 DEF Names
  <2> QED
    BY <2>1, <2>2, <2>3, <2>4, UpdateShape
<1>8. ASSUME NEW v \in 0..nvid, NEW mode \in HeaderModes, NEW hold \in HeaderHolds,
             CopyObject(v, mode, hold) \/ CopyFromElsewhere(mode, hold)
      PROVE  Replaced
  BY <1>8, CopyLeaves, LeaveReplaces DEF CopyStep
<1>9. 0 \in 0..nvid
  BY <1>0
<1> QED
  BY <1>1, <1>2, <1>3, <1>4, <1>5, <1>6, <1>7, <1>8, <1>9 DEF ObjectStep

\* Outcomes of an operation on an upload.
UFlags(q) ==
    /\ q.up \in Upload /\ q.how \in {"ok", "error", "killed"} /\ q.clean \in BOOLEAN
    /\ q.how = "killed" => ~q.clean

LEMMA USpoiltIs ==
    ASSUME NEW f, NEW U, NEW q \in USpoilt(f, U), U \subseteq Upload
    PROVE  UFlags(q) /\ q.up \in U /\ ~q.clean
<1>1. PICK u \in U : q = [up |-> u, how |-> IF f = "kill" THEN "killed" ELSE "error",
                          clean |-> FALSE]
  BY DEF USpoilt
<1> QED
  BY <1>1 DEF UFlags

LEMMA UDoneIs ==
    ASSUME NEW u \in Upload, NEW q \in UDone(u)
    PROVE  UFlags(q) /\ q.up = u /\ q.clean /\ q.how = "ok"
<1>1. q = [up |-> u, how |-> "ok", clean |-> TRUE]
  BY DEF UDone
<1> QED
  BY <1>1 DEF UFlags

LEMMA NewUploadIs ==
    /\ NoPart \in Part /\ NewUpload \in Upload /\ GoneUpload \in Upload
    /\ \A p \in Parts : NewUpload.part[p] = NoPart /\ GoneUpload.part[p] = NoPart
<1>1. NoPart \in Part
  BY DEF NoPart, Part
<1>2. NewUpload \in Upload /\ \A p \in Parts : NewUpload.part[p] = NoPart
  BY <1>1 DEF NewUpload, Upload, Modes
<1>3. GoneUpload \in Upload /\ \A p \in Parts : GoneUpload.part[p] = NoPart
  BY <1>2 DEF GoneUpload, Upload
<1> QED
  BY <1>1, <1>2, <1>3

\* removeUploadDir: unless a fault hits nothing is left.
LEMMA RemoveUploadDirLeaves ==
    ASSUME NEW u \in Upload, NEW q \in RemoveUploadDir(u)
    PROVE  UFlags(q) /\ (q.clean => q.up = GoneUpload)
<1>1. Remains(u) \cup {GoneUpload} \subseteq Upload
  <2> DEFINE Left(B, E) == [p \in Parts |-> [body |-> IF p \in B THEN Absent ELSE u.part[p].body,
                                             etag |-> IF p \in E THEN Absent ELSE u.part[p].etag]]
  <2>1. ASSUME NEW B, NEW E
        PROVE  Left(B, E) \in [Parts -> Part]
    <3> SUFFICES ASSUME NEW p \in Parts
                 PROVE  [body |-> IF p \in B THEN Absent ELSE u.part[p].body,
                         etag |-> IF p \in E THEN Absent ELSE u.part[p].etag] \in Part
      OBVIOUS
    <3>1. u.part[p].body \in Data \cup {Absent, Cut} /\ u.part[p].etag \in Data \cup {Absent, Unreadable}
      BY DEF Upload, Part
    <3> QED
      BY <3>1 DEF Part
  <2> HIDE DEF Left
  <2>2. \A B \in SUBSET Parts, E \in SUBSET Parts : [u EXCEPT !.part = Left(B, E)] \in Upload
    BY <2>1 DEF Upload
  <2>3. Remains(u) = {[u EXCEPT !.part = Left(B, E)] : B \in SUBSET Parts, E \in SUBSET Parts}
    BY DEF Remains, Left
  <2> QED
    BY <2>2, <2>3, NewUploadIs
<1>2. CASE q \in UDone(GoneUpload)
  BY <1>2, UDoneIs, NewUploadIs
<1>3. CASE q \notin UDone(GoneUpload)
  <2>1. \E f \in {"disk", "kill"} : q \in USpoilt(f, Remains(u) \cup {GoneUpload})
    BY <1>3 DEF RemoveUploadDir
  <2> QED
    BY <1>1, <2>1, USpoiltIs
<1> QED
  BY <1>2, <1>3

LEMMA CompleteShape ==
    ASSUME TypeOK, NEW u \in Uploads, NEW S \in SUBSET Parts, CompleteMultipartUpload(u, S)
    PROVE  Replaced
<1>1. mpu[u] \in Upload /\ mpu[u].mode \in Modes
  BY DEF TypeOK, Upload
<1>8. PICK mode \in {mpu[u].mode, "none"} : \E r \in AssembleOutcomes(u, S, mode) :
          \/ r.how # "ok" /\ Leave(r, pend, lc) /\ UNCHANGED mpu
          \/ /\ r.how = "ok"
             /\ \E q \in RemoveUploadDir(mpu[u]) :
                   /\ Leave([obj |-> r.obj, how |-> q.how, clean |-> q.clean], pend, lc)
                   /\ mpu' = [mpu EXCEPT ![u] = q.up]
  BY DEF CompleteMultipartUpload
<1>2. PICK r \in AssembleOutcomes(u, S, mode) :
          \/ r.how # "ok" /\ Leave(r, pend, lc) /\ UNCHANGED mpu
          \/ /\ r.how = "ok"
             /\ \E q \in RemoveUploadDir(mpu[u]) :
                   /\ Leave([obj |-> r.obj, how |-> q.how, clean |-> q.clean], pend, lc)
                   /\ mpu' = [mpu EXCEPT ![u] = q.up]
  BY <1>8
<1>3. mode \in Modes
  BY <1>1 DEF Modes
<1>4. bkt.st = "ok" /\ RoomForWrite /\ writes' = writes + 1 /\ nvid' = TakeVids /\ UNCHANGED bkt
  BY DEF CompleteMultipartUpload
<1>5. Replaces(r)
  BY <1>3, <1>4, AssembleReplaces
<1>6. CASE r.how # "ok"
  BY <1>2, <1>4, <1>5, <1>6, LeaveReplaces
<1>7. CASE r.how = "ok"
  <2>1. r.clean /\ r \in Outcome
    BY <1>5, <1>7 DEF Replaces, Strict, Flags
  <2>2. obj' = r.obj
    BY <1>2, <1>7 DEF Leave
  <2> QED
    BY <1>4, <1>5, <2>1, <2>2 DEF Replaced
<1> QED
  BY <1>6, <1>7

LEMMA UploadStepShape ==
    ASSUME TypeOK, UploadStep
    PROVE  ObjectKept \/ Replaced
<1>1. CASE \E u \in Uploads, S \in SUBSET Parts : CompleteMultipartUpload(u, S)
  BY <1>1, CompleteShape
<1>2. CASE ~\E u \in Uploads, S \in SUBSET Parts : CompleteMultipartUpload(u, S)
  BY <1>2 DEF UploadStep, CreateMultipartUpload, UploadPart, UploadPartCopy, RollbackPart,
              AbortMultipartUpload, Abort, LeaveUpload, ObjectKept
<1> QED
  BY <1>1, <1>2

LEMMA PassRestDrops ==
    ASSUME NEW j, j \in lc.todo, lc \in Pass
    PROVE  j \notin PassRest(j).todo /\ PassRest(j) \in Pass /\ PassRest(j).todo \subseteq lc.todo
           /\ lc.todo \ PassRest(j).todo = {j} /\ NoPass \in Pass /\ NoPass.todo = {}
<1>1. NoPass \in Pass /\ NoPass.todo = {}
  BY DEF NoPass, Pass
<1>2. CASE lc.todo = {j}
  BY <1>1, <1>2 DEF PassRest
<1>3. CASE lc.todo # {j}
  <2>1. PassRest(j) = [lc EXCEPT !.todo = lc.todo \ {j}]
    BY <1>3 DEF PassRest
  <2>2. [lc EXCEPT !.todo = lc.todo \ {j}] \in Pass /\ [lc EXCEPT !.todo = lc.todo \ {j}].todo = lc.todo \ {j}
    BY DEF Pass
  <2> QED
    BY <1>1, <2>1, <2>2
<1> QED
  BY <1>2, <1>3

LEMMA ListedShape ==
    ASSUME TypeOK, NEW j \in lc.todo, ActOnListed(j)
    PROVE  ObjectKept \/ Replaced \/ Changed
<1>0. obj \in Object /\ MaxVid \in Nat /\ 0 \in 0..MaxVid /\ lc \in Pass /\ j \in Job
  BY FilesAssumption DEF TypeOK, Pass
<1>1. CASE DropListed(j) \/ AbortListed(j)
  BY <1>1 DEF DropListed, AbortListed, Abort, LeaveUpload, ObjectKept
<1>2. CASE bkt.st # "none" /\ UNCHANGED bkt /\ ExpireObject(j)
  <2>1. PICK r \in DeletePlain : Leave(r, pend, PassRest(j))
    BY <1>2 DEF ExpireObject
  <2>2. CASE r.obj = obj
    BY <2>1, <2>2, LeaveKept
  <2>3. CASE r.obj # obj
    <3>1. Flags(r) /\ Touched(obj, r.obj, 0, r.clean, TRUE) /\ ~Locked(obj.cur.meta, FALSE)
      BY <2>1, <2>3, DeletePlainLeaves
    <3>2. Touched(obj, obj', 0, ~Fault, TRUE)
      BY <1>0, <2>1, <3>1, LeaveTouches
    <3>3. j \in lc.todo \ lc'.todo /\ j.op = "object"
      BY <1>0, <1>2, <2>1, PassRestDrops DEF ExpireObject, Leave, Ended
    <3>4. Reason(0, TRUE)
      BY <3>1, <3>3 DEF Reason, StaleDelete
    <3> QED
      BY <1>0, <1>2, <3>2, <3>4 DEF Changed, ExpireObject
  <2> QED
    BY <2>2, <2>3
<1>3. CASE bkt.st # "none" /\ UNCHANGED bkt /\ ExpireVersioned(j)
  <2>1. PICK r \in (IF bkt.st = "torn" THEN Refused(obj) ELSE DeleteOutcomes(FALSE)) :
             Leave(r, pend, PassRest(j))
    BY <1>3 DEF ExpireVersioned
  <2>2. CASE bkt.st = "torn"
    BY <1>0, <2>1, <2>2, DoneIs, LeaveKept
  <2>3. CASE bkt.st # "torn"
    <3>1. bkt.st = "ok"
      BY <1>3, <2>3 DEF TypeOK, Bucket
    <3> QED
      BY <1>3, <2>1, <2>3, <3>1, DeleteShape DEF ExpireVersioned
  <2> QED
    BY <2>2, <2>3
<1>4. CASE bkt.st # "none" /\ UNCHANGED bkt /\ DeleteListed(j)
  <2>1. PICK r \in (IF j.id = 0 THEN Refused(obj) ELSE DeleteVersion(j.id, FALSE)) :
             Leave(r, pend, PassRest(j))
    BY <1>4 DEF DeleteListed
  <2>2. CASE j.id = 0 \/ r.obj = obj
    BY <1>0, <2>1, <2>2, DoneIs, LeaveKept
  <2>3. CASE j.id # 0 /\ r.obj # obj
    <3>0. j.id \in Vids /\ j.id \in 0..MaxVid /\ j.op # "abort"
      BY <1>0, <1>4, <2>3 DEF DeleteListed, Job, Vids
    <3>1. /\ Flags(r) /\ Touched(obj, r.obj, j.id, r.clean, TRUE)
          /\ Resolve(obj, j.id).meta.marker \/ ~Locked(Resolve(obj, j.id).meta, FALSE)
      BY <2>1, <2>3, <3>0, DeleteVersionLeaves
    <3>2. Touched(obj, obj', j.id, ~Fault, TRUE)
      BY <2>1, <3>0, <3>1, LeaveTouches
    <3>3. j \in lc.todo \ lc'.todo
      BY <1>0, <2>1, PassRestDrops DEF Leave, Ended
    <3>4. Reason(j.id, TRUE)
      BY <2>3, <3>0, <3>1, <3>3 DEF Reason, Names
    <3> QED
      BY <1>4, <3>0, <3>2, <3>4 DEF Changed, DeleteListed
  <2> QED
    BY <2>2, <2>3
<1> QED
  BY <1>1, <1>2, <1>3, <1>4 DEF ActOnListed

\* A retention period ends.
Aged ==
    /\ UNCHANGED <<bkt, writes, nvid, pend, mpu, rej, lc, hurts>> /\ obj # NoObject
    /\ obj' \in Object
    /\ obj'.cur.body = obj.cur.body /\ SameId(obj'.cur.meta, obj.cur.meta)
    /\ \A x \in Vids : /\ obj'.arch[x].body = obj.arch[x].body
                       /\ SameId(obj'.arch[x].meta, obj.arch[x].meta)

LEMMA LapseShape ==
    ASSUME TypeOK, NEW v \in 0..MaxVid, Lapse(v)
    PROVE  Aged
<1>0. obj \in Object /\ (v # 0 => v \in Vids)
  BY FilesAssumption DEF TypeOK, Vids
<1>1. NoObject.cur.meta.mode = "none" /\ \A x \in Vids : NoObject.arch[x].meta.mode = "none"
  BY DEF NoObject, NoFiles, NoMeta
<1>2. obj # NoObject
  BY <1>0, <1>1 DEF Lapse
<1>3. UNCHANGED <<bkt, writes, nvid, pend, mpu, rej, lc, hurts>>
  BY DEF Lapse
<1>4. CASE v = 0
  <2>1. obj' = [obj EXCEPT !.cur.meta.mode = "none"]
    BY <1>4 DEF Lapse
  <2>2. obj' \in Object /\ obj'.arch = obj.arch /\ obj'.cur.body = obj.cur.body
        /\ SameId(obj'.cur.meta, obj.cur.meta)
    BY <1>0, <2>1 DEF Object, Slot, Meta, SameId, Modes
  <2>3. \A x \in Vids : SameId(obj'.arch[x].meta, obj.arch[x].meta)
    BY <2>2 DEF SameId
  <2> QED
    BY <1>2, <1>3, <2>2, <2>3 DEF Aged
<1>5. CASE v # 0
  <2>1. obj' = [obj EXCEPT !.arch[v].meta.mode = "none"]
    BY <1>5 DEF Lapse
  <2>2. obj' \in Object /\ obj'.cur = obj.cur /\ obj'.arch[v].body = obj.arch[v].body
        /\ SameId(obj'.arch[v].meta, obj.arch[v].meta)
        /\ \A x \in Vids \ {v} : obj'.arch[x] = obj.arch[x]
    BY <1>0, <1>5, <2>1 DEF Object, Slot, Meta, SameId, Modes
  <2>3. \A x \in Vids : /\ obj'.arch[x].body = obj.arch[x].body
                        /\ SameId(obj'.arch[x].meta, obj.arch[x].meta)
    BY <2>2 DEF SameId
  <2>4. SameId(obj'.cur.meta, obj.cur.meta)
    BY <2>2 DEF SameId
  <2> QED
    BY <1>2, <1>3, <2>2, <2>3, <2>4 DEF Aged
<1> QED
  BY <1>4, <1>5

\* The ways in which a step leaves the key's files.
LEMMA StepShape ==
    ASSUME TypeOK, [Next]_vars
    PROVE  ObjectKept \/ Replaced \/ Changed \/ Aged
<1>1. CASE BucketStep
  BY <1>1 DEF BucketStep, CreateBucket, DeleteBucket, PutBucketVersioning, PutBucketObjectLock,
              WriteBucketMeta, ChangeBucket, ObjectKept
<1>2. CASE ObjectStep
  BY <1>2, ObjectStepShape
<1>3. CASE UploadStep
  BY <1>3, UploadStepShape
<1>4. CASE LifecycleStep
  <2>1. CASE \E j \in lc.todo : ActOnListed(j)
    BY <2>1, ListedShape
  <2>2. CASE ~\E j \in lc.todo : ActOnListed(j)
    BY <1>4, <2>2 DEF LifecycleStep, StartExpiration, ReadVersioning, ListForExpiration,
          ListNoncurrent, ListLoneMarker, ListIncomplete, TakeUp, ObjectKept
  <2> QED
    BY <2>1, <2>2
<1>5. CASE \E v \in 0..MaxVid : Lapse(v)
  BY <1>5, LapseShape
<1>6. CASE Restart \/ UNCHANGED vars
  BY <1>6 DEF Restart, vars, ObjectKept
<1> QED
  BY <1>1, <1>2, <1>3, <1>4, <1>5, <1>6 DEF Next

-----------------------------------------------------------------------------
(* The inductive invariant. *)

\* Version IDs and dates come from counters, and nothing is filed under an ID that has not
\* been handed out.
Dated ==
    /\ obj.cur.meta.vid <= nvid
    /\ obj.cur.meta.mod <= writes
    /\ \A v \in Vids : obj.arch[v].meta.mod <= writes
    /\ \A v \in Vids : v > nvid => obj.arch[v].meta.st # "ok"

\* Every archived version is filed under its own ID; the current version has no double.
Apart(o) ==
    \A v \in Vids : o.arch[v].meta.st = "ok" => o.arch[v].meta.vid = v /\ o.cur.meta.vid # v

Undamaged == hurts = 0 => Whole(obj) /\ Apart(obj)

\* The entries of a list of noncurrent versions are not, and will not become, current.
Passed == hurts = 0 =>
    \A j \in lc.todo : j.op = "noncurrent" => j.id <= nvid /\ ~(j.id # 0 /\ IsCurrent(obj, j.id))

Emptied == bkt.st = "none" => obj = NoObject

ObjectsInv == TypeOK /\ BucketInv /\ Dated /\ LatestIsCurrent /\ Undamaged /\ Passed /\ Emptied

\* What the ETags say, which a copy of the key onto itself gets wrong.
Told == hurts = 0 => Described(obj) /\ PartsAgree(mpu)

-----------------------------------------------------------------------------
(* Types, and the parts of the uploads. *)

PartsFit(u) == \A p \in Parts : u.part[p].body = u.part[p].etag

LEMMA OpenUploadLeaves ==
    ASSUME NEW mode \in Modes, NEW hold \in BOOLEAN, NEW q \in OpenUpload(mode, hold)
    PROVE  UFlags(q) /\ (q.clean => PartsFit(q.up))
<1> DEFINE u == [NewUpload EXCEPT !.st = "open", !.mode = mode, !.hold = hold]
           t == [NewUpload EXCEPT !.st = "torn"]
<1>1. u \in Upload /\ PartsFit(u) /\ t \in Upload
  <2>1. NewUpload \in Upload /\ \A p \in Parts : NewUpload.part[p] = NoPart
    BY NewUploadIs
  <2>2. u \in Upload /\ u.part = NewUpload.part /\ t \in Upload
    BY <2>1 DEF Upload
  <2> QED
    BY <2>1, <2>2 DEF PartsFit, NoPart
<1>2. \/ q \in UDone(u)
      \/ q \in USpoilt("disk", {GoneUpload})
      \/ q \in USpoilt("kill", {GoneUpload, t, u})
  BY DEF OpenUpload
<1> HIDE DEF u, t
<1>3. CASE q \in UDone(u)
  BY <1>1, <1>3, UDoneIs
<1>4. CASE q \in USpoilt("disk", {GoneUpload})
  BY <1>4, NewUploadIs, USpoiltIs
<1>5. CASE q \in USpoilt("kill", {GoneUpload, t, u})
  BY <1>1, <1>5, NewUploadIs, USpoiltIs
<1> QED
  BY <1>2, <1>3, <1>4, <1>5

LEMMA SetPart ==
    ASSUME NEW u \in Upload, NEW p \in Parts, NEW x \in Part
    PROVE  LET v == [u EXCEPT !.part[p] = x]
           IN  /\ v \in Upload
               /\ x.body = x.etag /\ PartsFit(u) => PartsFit(v)
<1> DEFINE v == [u EXCEPT !.part[p] = x]
<1>1. v \in Upload /\ v.part[p] = x /\ \A y \in Parts \ {p} : v.part[y] = u.part[y]
  BY DEF Upload
<1> HIDE DEF v
<1>2. x.body = x.etag /\ PartsFit(u) => PartsFit(v)
  BY <1>1 DEF PartsFit
<1> QED
  BY <1>1, <1>2 DEF v

LEMMA WritePartLeaves ==
    ASSUME NEW u \in Upload, NEW p \in Parts, NEW w \in Data, NEW fc,
           NEW q \in WritePart(u, p, w, fc)
    PROVE  UFlags(q) /\ (q.clean /\ PartsFit(u) => PartsFit(q.up))
<1> DEFINE old == u.part[p].etag
           Put(b, e) == [u EXCEPT !.part[p] = [body |-> b, etag |-> e]]
           short == {Put(Cut, old), Put(w, old), Put(w, Unreadable)}
<1>0. old \in Data \cup {Absent, Unreadable}
  BY DEF Upload, Part
<1>1. \A b \in {Cut, w}, e \in {w, old, Unreadable} : [body |-> b, etag |-> e] \in Part
  BY <1>0 DEF Part
<1>2. \A b \in {Cut, w}, e \in {w, old, Unreadable} : Put(b, e) \in Upload
  BY <1>1, SetPart
<1>3. PartsFit(u) => PartsFit(Put(w, w))
  BY <1>1, SetPart
<1>4. \/ q \in UDone(Put(w, w))
      \/ q \in USpoilt("client", {Put(Cut, old)})
      \/ \E f \in {"disk", "kill"} : q \in USpoilt(f, short)
  BY DEF WritePart
<1>5. short \subseteq Upload /\ {Put(Cut, old)} \subseteq Upload /\ Put(w, w) \in Upload
  BY <1>2
<1> HIDE DEF Put, short, old
<1>6. CASE q \in UDone(Put(w, w))
  BY <1>3, <1>5, <1>6, UDoneIs
<1>7. CASE q \notin UDone(Put(w, w))
  BY <1>4, <1>5, <1>7, USpoiltIs
<1> QED
  BY <1>6, <1>7

LEMMA RemovePartLeaves ==
    ASSUME NEW u \in Upload, NEW p \in Parts, NEW q \in RemovePart(u, p)
    PROVE  UFlags(q) /\ (q.clean /\ PartsFit(u) => PartsFit(q.up))
<1> DEFINE Put(b, e) == [u EXCEPT !.part[p] = [body |-> b, etag |-> e]]
           none == [u EXCEPT !.part[p] = NoPart]
<1>0. u.part[p].etag \in Data \cup {Absent, Unreadable} /\ u.part[p].body \in Data \cup {Absent, Cut}
  BY DEF Upload, Part
<1>1. [body |-> Absent, etag |-> u.part[p].etag] \in Part
      /\ [body |-> u.part[p].body, etag |-> Absent] \in Part
  BY <1>0 DEF Part
<1>2. Put(Absent, u.part[p].etag) \in Upload /\ Put(u.part[p].body, Absent) \in Upload
  BY <1>1, SetPart
<1>3. none \in Upload /\ (PartsFit(u) => PartsFit(none))
  BY NewUploadIs, SetPart DEF NoPart
<1>4. \/ q \in UDone(none)
      \/ q \in USpoilt("disk", {Put(Absent, u.part[p].etag), Put(u.part[p].body, Absent)})
      \/ q \in USpoilt("kill", {Put(u.part[p].body, Absent)})
  BY DEF RemovePart
<1> HIDE DEF Put, none
<1>6. CASE q \in UDone(none)
  BY <1>3, <1>6, UDoneIs
<1>7. CASE q \notin UDone(none)
  BY <1>2, <1>4, <1>7, USpoiltIs
<1> QED
  BY <1>6, <1>7

\* A step that leaves outcome q of an operation on upload u.
LEMMA UploadLeft ==
    ASSUME TypeOK, NEW u \in Uploads, NEW q, UFlags(q), mpu' = [mpu EXCEPT ![u] = q.up],
           ~Fault /\ PartsFit(mpu[u]) => PartsFit(q.up)
    PROVE  mpu' \in [Uploads -> Upload] /\ (~Fault /\ PartsAgree(mpu) => PartsAgree(mpu'))
<1>1. mpu' \in [Uploads -> Upload] /\ mpu'[u] = q.up
      /\ \A x \in Uploads \ {u} : mpu'[x] = mpu[x]
  BY DEF TypeOK, UFlags
<1>2. PartsAgree(mpu) => PartsFit(mpu[u])
  BY DEF PartsAgree, PartsFit
<1> QED
  BY <1>1, <1>2 DEF PartsAgree, PartsFit

\* The counters, the requests, the pass and the faults after the end of an operation.
Kept == 
    /\ hurts' \in 0..MaxFaults /\ hurts <= hurts'
    /\ pend' \subseteq 0..MaxVid /\ rej' \subseteq Uploads \X Parts /\ lc' \in Pass

LEMMA EndedTypes ==
    ASSUME TypeOK, NEW r, NEW p, NEW q, NEW l, Ended(r, p, q, l),
           p \subseteq 0..MaxVid, q \subseteq Uploads \X Parts, l \in Pass
    PROVE  Kept
<1>1. hurts \in Int /\ 0 <= hurts /\ hurts <= MaxFaults /\ MaxFaults \in Int
  BY ObjectsAssumption DEF TypeOK
<1>2. NoPass \in Pass
  BY DEF NoPass, Pass
<1>3. hurts' \in 0..MaxFaults /\ hurts <= hurts'
  <2>1. CASE r.clean
    BY <1>1, <2>1 DEF Ended
  <2>2. CASE ~r.clean
    BY <1>1, <2>2 DEF Ended
  <2> QED
    BY <2>1, <2>2
<1> QED
  BY <1>2, <1>3 DEF Ended, Kept

LEMMA LeftAlone ==
    ASSUME TypeOK, UNCHANGED hurts, pend' \in {pend, {}}, rej' \in {rej, {}}, lc' \in Pass
    PROVE  Kept
<1>1. hurts \in Int
  BY DEF TypeOK
<1> QED
  BY <1>1 DEF Kept, TypeOK

\* Only the operations on uploads change them, and only a fault leaves a part whose body is
\* not the one its ETag names.
LEMMA UploadsStep ==
    ASSUME TypeOK, [Next]_vars
    PROVE  mpu' \in [Uploads -> Upload] /\ (~Fault /\ PartsAgree(mpu) => PartsAgree(mpu'))
<1>0. mpu \in [Uploads -> Upload] /\ \A u \in Uploads : mpu[u] \in Upload
  BY DEF TypeOK
<1>1. ASSUME UNCHANGED mpu
      PROVE  mpu' \in [Uploads -> Upload] /\ (~Fault /\ PartsAgree(mpu) => PartsAgree(mpu'))
  BY <1>0, <1>1
<1>2. ASSUME NEW u \in Uploads, NEW q, UFlags(q), NEW R, NEW l, LeaveUpload(u, q, R, l),
             q.clean /\ PartsFit(mpu[u]) => PartsFit(q.up)
      PROVE  mpu' \in [Uploads -> Upload] /\ (~Fault /\ PartsAgree(mpu) => PartsAgree(mpu'))
  <2>1. Ended(q, pend, R, l) /\ mpu' = [mpu EXCEPT ![u] = q.up] /\ q.clean \in BOOLEAN
    BY <1>2 DEF LeaveUpload, UFlags
  <2>2. Fault <=> ~q.clean
    BY <2>1, EndedIs
  <2> QED
    BY <1>2, <2>1, <2>2, UploadLeft
<1>3. PartsFit(GoneUpload)
  BY NewUploadIs DEF PartsFit, NoPart
<1>4. ASSUME NEW u \in Uploads, NEW l, Abort(u, l)
      PROVE  mpu' \in [Uploads -> Upload] /\ (~Fault /\ PartsAgree(mpu) => PartsAgree(mpu'))
  <2>1. PICK q \in RemoveUploadDir(mpu[u]) : LeaveUpload(u, q, rej, l)
    BY <1>4 DEF Abort
  <2>2. UFlags(q) /\ (q.clean => q.up = GoneUpload)
    BY <1>0, RemoveUploadDirLeaves
  <2> QED
    BY <1>2, <1>3, <2>1, <2>2
<1>5. CASE BucketStep
  BY <1>1, <1>5 DEF BucketStep, CreateBucket, DeleteBucket, PutBucketVersioning,
           PutBucketObjectLock, WriteBucketMeta, ChangeBucket
<1>6. CASE ObjectStep
  BY <1>1, <1>6 DEF ObjectStep, PutObject, DeleteObjectVersioned, DeleteObjectVersion,
              RollbackPut, PutObjectRetention, PutObjectLegalHold, Update, SetMetaField,
              CopyObject, CopyFromElsewhere, Copy
<1>7. CASE UploadStep
  <2>1. ASSUME NEW u \in Uploads, NEW mode \in HeaderModes, NEW hold \in HeaderHolds,
               CreateMultipartUpload(u, mode, hold)
        PROVE  mpu' \in [Uploads -> Upload] /\ (~Fault /\ PartsAgree(mpu) => PartsAgree(mpu'))
    <3>1. PICK q \in OpenUpload(Retention(mode), hold) : LeaveUpload(u, q, rej, lc)
      BY <2>1 DEF CreateMultipartUpload
    <3>2. Retention(mode) \in Modes /\ hold \in BOOLEAN
      BY RetentionIs, ObjectsAssumption
    <3>3. UFlags(q) /\ (q.clean => PartsFit(q.up))
      BY <3>2, OpenUploadLeaves
    <3> QED
      BY <1>2, <3>1, <3>3
  <2>2. ASSUME NEW u \in Uploads, NEW p \in Parts, NEW fc, NEW q \in WritePart(mpu[u], p, writes + 1, fc),
               writes < MaxWrites, NEW R, LeaveUpload(u, q, R, lc)
        PROVE  mpu' \in [Uploads -> Upload] /\ (~Fault /\ PartsAgree(mpu) => PartsAgree(mpu'))
    <3>1. writes + 1 \in Data
      BY <2>2, FilesAssumption DEF TypeOK, Data
    <3> QED
      BY <1>0, <1>2, <2>2, <3>1, WritePartLeaves
  <2>3. ASSUME NEW u \in Uploads, NEW p \in Parts, NEW bad \in BOOLEAN, UploadPart(u, p, bad)
        PROVE  mpu' \in [Uploads -> Upload] /\ (~Fault /\ PartsAgree(mpu) => PartsAgree(mpu'))
    BY <2>2, <2>3 DEF UploadPart
  <2>4. ASSUME NEW u \in Uploads, NEW p \in Parts, UploadPartCopy(u, p)
        PROVE  mpu' \in [Uploads -> Upload] /\ (~Fault /\ PartsAgree(mpu) => PartsAgree(mpu'))
    BY <2>2, <2>4 DEF UploadPartCopy
  <2>5. ASSUME NEW x \in rej, RollbackPart(x[1], x[2])
        PROVE  mpu' \in [Uploads -> Upload] /\ (~Fault /\ PartsAgree(mpu) => PartsAgree(mpu'))
    <3>1. x[1] \in Uploads /\ x[2] \in Parts
      BY DEF TypeOK
    <3>2. PICK q \in RemovePart(mpu[x[1]], x[2]) : LeaveUpload(x[1], q, rej \ {<<x[1], x[2]>>}, lc)
      BY <2>5 DEF RollbackPart
    <3>3. UFlags(q) /\ (q.clean /\ PartsFit(mpu[x[1]]) => PartsFit(q.up))
      BY <1>0, <3>1, RemovePartLeaves
    <3> QED
      BY <1>2, <3>1, <3>2, <3>3
  <2>6. ASSUME NEW u \in Uploads, NEW S \in SUBSET Parts, CompleteMultipartUpload(u, S)
        PROVE  mpu' \in [Uploads -> Upload] /\ (~Fault /\ PartsAgree(mpu) => PartsAgree(mpu'))
    <3>1. CASE UNCHANGED mpu
      BY <1>1, <3>1
    <3>2. CASE mpu' # mpu
      <4>1. PICK q \in RemoveUploadDir(mpu[u]) :
               /\ mpu' = [mpu EXCEPT ![u] = q.up]
               /\ \E o : Leave([obj |-> o, how |-> q.how, clean |-> q.clean], pend, lc)
        BY <2>6, <3>2 DEF CompleteMultipartUpload
      <4>2. UFlags(q) /\ (q.clean => q.up = GoneUpload)
        BY <1>0, RemoveUploadDirLeaves
      <4>3. PICK o : Leave([obj |-> o, how |-> q.how, clean |-> q.clean], pend, lc)
        BY <4>1
      <4> DEFINE r == [obj |-> o, how |-> q.how, clean |-> q.clean]
      <4>4. r.clean = q.clean /\ Ended(r, pend, rej, lc)
        BY <4>3 DEF Leave
      <4>5. r.clean \in BOOLEAN
        BY <4>2, <4>4 DEF UFlags
      <4> HIDE DEF r
      <4>6. Fault <=> ~q.clean
        BY <4>4, <4>5, EndedIs
      <4> QED
        BY <1>3, <4>1, <4>2, <4>6, UploadLeft
    <3> QED
      BY <3>1, <3>2
  <2>7. ASSUME NEW u \in Uploads, AbortMultipartUpload(u)
        PROVE  mpu' \in [Uploads -> Upload] /\ (~Fault /\ PartsAgree(mpu) => PartsAgree(mpu'))
    BY <1>4, <2>7 DEF AbortMultipartUpload
  <2> QED
    BY <1>7, <2>1, <2>3, <2>4, <2>5, <2>6, <2>7 DEF UploadStep
<1>8. CASE LifecycleStep
  <2>1. ASSUME NEW j \in lc.todo, ActOnListed(j)
        PROVE  mpu' \in [Uploads -> Upload] /\ (~Fault /\ PartsAgree(mpu) => PartsAgree(mpu'))
    <3>1. CASE UNCHANGED mpu
      BY <1>1, <3>1
    <3>2. CASE j.op = "abort" /\ Abort(j.id, PassRest(j))
      <4>1. j \in Job
        BY DEF TypeOK, Pass
      <4>2. j.id \in Uploads
        BY <3>2, <4>1 DEF Job
      <4> QED
        BY <1>4, <3>2, <4>2
    <3> QED
      BY <2>1, <3>1, <3>2 DEF ActOnListed, AbortListed
  <2>2. CASE ~\E j \in lc.todo : ActOnListed(j)
    BY <1>1, <1>8, <2>2 DEF LifecycleStep, StartExpiration, ReadVersioning, ListForExpiration,
          ListNoncurrent, ListLoneMarker, ListIncomplete, TakeUp
  <2> QED
    BY <2>1, <2>2
<1>9. CASE (\E v \in 0..MaxVid : Lapse(v)) \/ Restart \/ UNCHANGED vars
  BY <1>1, <1>9 DEF Lapse, Restart, vars
<1> QED
  BY <1>5, <1>6, <1>7, <1>8, <1>9 DEF Next

LEMMA EntriesAreMeta ==
    ASSUME TypeOK
    PROVE  Entries(obj) \subseteq Meta /\ \A m \in Entries(obj) : m.vid \in 0..MaxVid
<1>1. obj \in Object
  BY DEF TypeOK
<1>2. Entries(obj) \subseteq Meta
  BY <1>1, ObjectParts DEF Entries
<1> QED
  BY <1>2 DEF Meta

LEMMA JobsAreJobs ==
    ASSUME TypeOK, NEW op \in {"object", "mark", "noncurrent", "marker"}, NEW M,
           M \subseteq Entries(obj)
    PROVE  Jobs(op, M) \subseteq Job /\ [op |-> op, id |-> 0] \in Job
<1>1. \A m \in M : m.vid \in 0..MaxVid
  BY EntriesAreMeta
<1>2. 0 \in 0..MaxVid
  BY FilesAssumption
<1>3. \A i \in 0..MaxVid : [op |-> op, id |-> i] \in Job
  BY DEF Job
<1> QED
  BY <1>1, <1>2, <1>3 DEF Jobs

LEMMA TakeUpTypes ==
    ASSUME TypeOK, NEW J, J \subseteq Job, TakeUp(J)
    PROVE  Kept
<1>1. NoPass \in Pass
  BY DEF NoPass, Pass
<1>2. \A old \in SUBSET J : [NoPass EXCEPT !.pc = "act", !.todo = old] \in Pass
  BY <1>1 DEF Pass
<1>3. lc' \in Pass
  BY <1>1, <1>2 DEF TakeUp
<1> QED
  BY <1>3, LeftAlone DEF TakeUp

LEMMA LifecycleKept ==
    ASSUME TypeOK, LifecycleStep
    PROVE  Kept
<1>0. lc \in Pass /\ NoPass \in Pass /\ pend \subseteq 0..MaxVid /\ rej \subseteq Uploads \X Parts
  BY DEF TypeOK, NoPass, Pass
<1>1. CASE StartExpiration
  <2>1. lc' \in Pass
    BY <1>0, <1>1 DEF StartExpiration, Pass
  <2> QED
    BY <1>1, <2>1, LeftAlone DEF StartExpiration
<1>2. CASE ReadVersioning
  <2>1. lc' \in Pass
    BY <1>0, <1>2 DEF ReadVersioning, Pass, Enabled
  <2> QED
    BY <1>2, <2>1, LeftAlone DEF ReadVersioning
<1>3. CASE ListForExpiration
  <2>1. [op |-> "mark", id |-> 0] \in Job /\ [op |-> "object", id |-> 0] \in Job
    BY JobsAreJobs
  <2> DEFINE J == IF bkt.st = "none" THEN {}
              ELSE IF lc.versioned
                   THEN {[op |-> "mark", id |-> 0] : m \in {x \in Versions : IsLatest(obj, x)}}
                   ELSE {[op |-> "object", id |-> 0] :
                            m \in {x \in {obj.cur.meta} : Listed(obj.cur) /\ ~x.marker}}
  <2>2. J \subseteq Job
    BY <2>1
  <2>3. TakeUp(J)
    BY <1>3 DEF ListForExpiration
  <2> HIDE DEF J
  <2> QED
    BY <2>2, <2>3, TakeUpTypes
<1>4. CASE ListNoncurrent
  <2> DEFINE M == {m \in Entries(obj) : ~IsLatest(obj, m)}
  <2>1. Jobs("noncurrent", M) \subseteq Job
    BY JobsAreJobs
  <2>2. TakeUp(Jobs("noncurrent", M))
    BY <1>4 DEF ListNoncurrent
  <2> QED
    BY <2>1, <2>2, TakeUpTypes
<1>5. CASE ListLoneMarker
  <2> DEFINE M == {m \in Entries(obj) : IsLatest(obj, m)}
  <2>1. Jobs("marker", M) \subseteq Job
    BY JobsAreJobs
  <2>2. lc' = [NoPass EXCEPT !.pc = "act", !.todo = Jobs("marker", M)]
    BY <1>5 DEF ListLoneMarker
  <2> HIDE DEF M
  <2>3. lc' \in Pass
    BY <1>0, <2>1, <2>2 DEF Pass
  <2> QED
    BY <1>5, <2>3, LeftAlone DEF ListLoneMarker
<1>6. CASE ListIncomplete
  <2> DEFINE J == {[op |-> "abort", id |-> u] : u \in {x \in Uploads : mpu[x].st = "open"}}
  <2>1. J \subseteq Job
    BY DEF Job
  <2>2. TakeUp(J)
    BY <1>6 DEF ListIncomplete
  <2> HIDE DEF J
  <2> QED
    BY <2>1, <2>2, TakeUpTypes
<1>7. ASSUME NEW j \in lc.todo, ActOnListed(j)
      PROVE  Kept
  <2>1. PassRest(j) \in Pass
    BY <1>0, PassRestDrops
  <2>2. ASSUME NEW r, Ended(r, pend, rej, PassRest(j))
        PROVE  Kept
    BY <1>0, <2>1, <2>2, EndedTypes
  <2>3. CASE ExpireObject(j) \/ ExpireVersioned(j) \/ DeleteListed(j)
    BY <2>2, <2>3 DEF ExpireObject, ExpireVersioned, DeleteListed, Leave
  <2>4. CASE DropListed(j)
    BY <2>1, <2>4, LeftAlone DEF DropListed
  <2>5. CASE AbortListed(j)
    <3>1. CASE Abort(j.id, PassRest(j))
      BY <2>2, <3>1 DEF Abort, LeaveUpload
    <3>2. CASE ~Abort(j.id, PassRest(j))
      BY <2>1, <2>5, <3>2, LeftAlone DEF AbortListed
    <3> QED
      BY <3>1, <3>2
  <2> QED
    BY <1>7, <2>3, <2>4, <2>5 DEF ActOnListed
<1> QED
  BY <1>1, <1>2, <1>3, <1>4, <1>5, <1>6, <1>7 DEF LifecycleStep

LEMMA RequestKept ==
    ASSUME TypeOK, BucketStep \/ ObjectStep \/ UploadStep
    PROVE  Kept
<1>0. lc \in Pass /\ NoPass \in Pass /\ pend \subseteq 0..MaxVid /\ rej \subseteq Uploads \X Parts
      /\ \A v : pend \ {v} \subseteq 0..MaxVid
  BY DEF TypeOK, NoPass, Pass
<1>1. ASSUME NEW r, NEW p, p \subseteq 0..MaxVid, Leave(r, p, lc)
      PROVE  Kept
  BY <1>0, <1>1, EndedTypes DEF Leave
<1>2. ASSUME NEW u, NEW q, NEW R, R \subseteq Uploads \X Parts, LeaveUpload(u, q, R, lc)
      PROVE  Kept
  BY <1>0, <1>2, EndedTypes DEF LeaveUpload
<1>3. ASSUME NEW c, NEW K, NEW E, ChangeBucket(c, K, E)
      PROVE  Kept
  <2>1. CASE UNCHANGED <<hurts, pend, rej, lc>>
    BY <1>0, <2>1, LeftAlone
  <2>2. CASE ~UNCHANGED <<hurts, pend, rej, lc>>
    <3>1. hurts \in 0..MaxFaults /\ MaxFaults \in Nat
      BY ObjectsAssumption DEF TypeOK
    <3>2. hurts < MaxFaults /\ hurts' = hurts + 1 /\ pend' \in {pend, {}} /\ rej' \in {rej, {}}
          /\ lc' \in {lc, NoPass}
      BY <1>3, <2>2 DEF ChangeBucket
    <3>3. hurts' \in 0..MaxFaults /\ hurts <= hurts'
      BY <3>1, <3>2
    <3> QED
      BY <1>0, <3>2, <3>3 DEF Kept
  <2> QED
    BY <2>1, <2>2
<1>4. CASE BucketStep
  BY <1>3, <1>4 DEF BucketStep, CreateBucket, DeleteBucket, PutBucketVersioning,
            PutBucketObjectLock, WriteBucketMeta
<1>5. ASSUME NEW mode, NEW hold, NEW bad, PutObject(mode, hold, bad)
      PROVE  Kept
  <2>1. PICK r \in PutOutcomes(mode, hold) :
           Leave(r, IF bad /\ r.how = "ok" THEN pend \cup {NewVid} ELSE pend, lc)
    BY <1>5 DEF PutObject
  <2>2. pend \cup {NewVid} \subseteq 0..MaxVid
    BY <1>0, <1>5, RoomIs DEF PutObject
  <2> QED
    BY <1>0, <1>1, <2>1, <2>2
<1>6. ASSUME NEW v, RollbackPut(v)
      PROVE  Kept
  BY <1>0, <1>1, <1>6 DEF RollbackPut
<1>7. CASE ObjectStep
  BY <1>0, <1>1, <1>5, <1>6, <1>7 DEF ObjectStep, DeleteObjectVersioned, DeleteObjectVersion,
         PutObjectRetention, PutObjectLegalHold, Update, SetMetaField, CopyObject,
         CopyFromElsewhere, Copy
<1>8. CASE UploadStep
  <2>1. ASSUME NEW u \in Uploads, NEW p \in Parts, NEW bad \in BOOLEAN, UploadPart(u, p, bad)
        PROVE  Kept
    <3>1. PICK q \in WritePart(mpu[u], p, writes + 1, TRUE) :
             LeaveUpload(u, q, IF bad /\ q.how = "ok" THEN rej \cup {<<u, p>>} ELSE rej, lc)
      BY <2>1 DEF UploadPart
    <3>2. rej \cup {<<u, p>>} \subseteq Uploads \X Parts
      BY <1>0
    <3> QED
      BY <1>0, <1>2, <3>1, <3>2
  <2>2. ASSUME NEW x \in rej, RollbackPart(x[1], x[2])
        PROVE  Kept
    BY <1>0, <1>2, <2>2 DEF RollbackPart
  <2>3. ASSUME NEW u \in Uploads, NEW S \in SUBSET Parts, CompleteMultipartUpload(u, S)
        PROVE  Kept
    BY <1>0, <1>1, <2>3 DEF CompleteMultipartUpload
  <2> QED
    BY <1>0, <1>2, <1>8, <2>1, <2>2, <2>3 DEF UploadStep, CreateMultipartUpload, UploadPartCopy,
          AbortMultipartUpload, Abort
<1> QED
  BY <1>4, <1>7, <1>8

LEMMA KeptStep ==
    ASSUME TypeOK, [Next]_vars
    PROVE  Kept
<1>1. CASE (\E v \in 0..MaxVid : Lapse(v)) \/ Restart \/ UNCHANGED vars
  <2>1. lc \in Pass /\ NoPass \in Pass
    BY DEF TypeOK, NoPass, Pass
  <2> QED
    BY <1>1, <2>1, LeftAlone DEF Lapse, Restart, vars
<1> QED
  BY <1>1, LifecycleKept, RequestKept DEF Next

\* The counters only grow.
LEMMA CountersStep ==
    ASSUME TypeOK, [Next]_vars
    PROVE  /\ writes' \in 0..MaxWrites /\ nvid' \in 0..MaxVid
           /\ writes <= writes' /\ nvid <= nvid'
<1>0. writes \in 0..MaxWrites /\ nvid \in 0..MaxVid /\ MaxWrites \in Nat /\ MaxVid \in Nat
  BY FilesAssumption DEF TypeOK
<1> DEFINE OK == /\ writes' \in 0..MaxWrites /\ nvid' \in 0..MaxVid
                 /\ writes <= writes' /\ nvid <= nvid'
<1> SUFFICES OK
  OBVIOUS
<1>1. ASSUME UNCHANGED <<writes, nvid>>
      PROVE  OK
  BY <1>0, <1>1
<1>2. ASSUME RoomForWrite, writes' = writes + 1, nvid' = TakeVids
      PROVE  OK
  BY <1>0, <1>2, RoomIs
<1>3. ASSUME writes < MaxWrites, writes' = writes + 1, UNCHANGED nvid
      PROVE  OK
  BY <1>0, <1>3
<1> HIDE DEF OK
<1>4. CASE BucketStep
  BY <1>1, <1>4 DEF BucketStep, CreateBucket, DeleteBucket, PutBucketVersioning,
           PutBucketObjectLock, WriteBucketMeta, ChangeBucket
<1>5. CASE ObjectStep
  BY <1>1, <1>2, <1>5 DEF ObjectStep, PutObject, DeleteObjectVersioned, DeleteObjectVersion,
              RollbackPut, PutObjectRetention, PutObjectLegalHold, Update, SetMetaField,
              CopyObject, CopyFromElsewhere, Copy
<1>6. CASE UploadStep
  BY <1>1, <1>2, <1>3, <1>6 DEF UploadStep, CreateMultipartUpload, UploadPart, UploadPartCopy,
              RollbackPart, CompleteMultipartUpload, AbortMultipartUpload, Abort, LeaveUpload
<1>7. CASE LifecycleStep
  BY <1>1, <1>2, <1>7 DEF LifecycleStep, StartExpiration, ReadVersioning, ListForExpiration,
          ListNoncurrent, ListLoneMarker, ListIncomplete, TakeUp, ActOnListed, ExpireObject,
          ExpireVersioned, DeleteListed, DropListed, AbortListed, Abort, LeaveUpload
<1>8. CASE (\E v \in 0..MaxVid : Lapse(v)) \/ Restart \/ UNCHANGED vars
  BY <1>1, <1>8 DEF Lapse, Restart, vars
<1> QED
  BY <1>4, <1>5, <1>6, <1>7, <1>8 DEF Next

LEMMA TypeStep ==
    ASSUME TypeOK, BucketInv, [Next]_vars
    PROVE  TypeOK'
<1>1. obj' \in Object
  <2>1. CASE ObjectKept
    BY <2>1 DEF ObjectKept, TypeOK
  <2>2. CASE Replaced
    BY <2>2 DEF Replaced, Outcome
  <2>3. CASE Changed
    BY <2>3 DEF Changed, Touched
  <2>4. CASE Aged
    BY <2>4 DEF Aged
  <2> QED
    BY <2>1, <2>2, <2>3, <2>4, StepShape
<1>2. bkt' \in Bucket
  BY BucketKept DEF BucketInv
<1>3. work' \in Workloads
  BY DEF TypeOK, Next, vars
<1> QED
  BY <1>1, <1>2, <1>3, UploadsStep, KeptStep, CountersStep DEF Kept, TypeOK

-----------------------------------------------------------------------------
(* Version IDs and dates. *)

\* The metadata of a version that is not replaced.
Faded(new, old) == new \in {NoMeta, TornMeta} \/ SameId(new, old)

LEMMA TouchedMetas ==
    ASSUME NEW o \in Object, NEW p, NEW v \in 0..MaxVid, NEW clean, NEW gone,
           Touched(o, p, v, clean, gone)
    PROVE  Faded(p.cur.meta, o.cur.meta) /\ \A x \in Vids : Faded(p.arch[x].meta, o.arch[x].meta)
<1>1. \A m : SameId(m, m)
  BY DEF SameId
<1>2. CASE v = 0 \/ IsCurrent(o, v)
  BY <1>1, <1>2 DEF Touched, Touch, Faded
<1>3. CASE ~(v = 0 \/ IsCurrent(o, v))
  BY <1>1, <1>3 DEF Touched, Touch, Faded
<1> QED
  BY <1>2, <1>3

\* Unless a new version is written, no metadata appear.
LEMMA FadedStep ==
    ASSUME TypeOK, [Next]_vars, ~Replaced
    PROVE  /\ Faded(obj'.cur.meta, obj.cur.meta)
           /\ \A x \in Vids : Faded(obj'.arch[x].meta, obj.arch[x].meta)
<1>1. CASE ObjectKept
  BY <1>1 DEF ObjectKept, Faded, SameId
<1>2. CASE Changed
  BY <1>2, TouchedMetas DEF Changed, TypeOK
<1>3. CASE Aged
  BY <1>3 DEF Aged, Faded
<1> QED
  BY <1>1, <1>2, <1>3, StepShape

\* The metadata that a write leaves.
LEMMA ReplacedMetas ==
    ASSUME TypeOK, Dated, Replaced
    PROVE  \E m \in Meta :
              /\ NewVersion(m) /\ m.vid <= nvid' /\ obj'.cur.meta \in {m, obj.cur.meta, NoMeta, TornMeta}
              /\ \A x \in Vids : \/ obj'.arch[x].meta \in {obj.arch[x].meta, NoMeta, TornMeta}
                                 \/ /\ HasCurrent(obj) /\ Enabled /\ x = ArchiveVid(obj, nvid + 1)
                                    /\ obj'.arch[x].meta = Filed(obj, x)
                                    /\ x <= nvid'
<1>0. RoomForWrite /\ nvid' = TakeVids /\ obj \in Object
  BY DEF Replaced, TypeOK
<1>1. PICK r \in Outcome : Replaces(r) /\ obj' = r.obj /\ (Fault \/ r.clean)
  BY DEF Replaced
<1> DEFINE id == ArchiveVid(obj, nvid + 1)
<1>2. PICK can \in BOOLEAN, b \in Body, m \in Meta :
          /\ NewVersion(m)
          /\ Overwritten(obj, r.obj, Enabled, id, can, b, m, r.clean)
  BY <1>1 DEF Replaces
<1>3. obj'.cur.meta \in {m, obj.cur.meta, NoMeta, TornMeta}
  BY <1>1, <1>2 DEF Overwritten
<1>4. /\ nvid \in Int /\ nvid >= 0 /\ TakeVids \in Int /\ nvid <= TakeVids
      /\ obj.cur.meta.vid \in Int /\ NewVid \in Int
  BY <1>0, RoomIs, ObjectParts
<1>5. m.vid <= nvid'
  <2>1. CASE m.vid = NewVid
    BY <1>0, <1>4, <2>1, RoomIs
  <2>2. CASE m.vid = obj.cur.meta.vid
    BY <1>0, <1>4, <2>2 DEF Dated
  <2> QED
    BY <1>2, <2>1, <2>2 DEF NewVersion
<1>6. HasCurrent(obj) /\ Enabled => id <= nvid'
  <2>1. CASE HasCurrent(obj) /\ Enabled /\ obj.cur.meta.vid = 0
    <3>1. id = nvid + 1 /\ nvid + 1 < NewVid /\ NewVid = TakeVids
      BY <1>0, <2>1, RoomIs DEF ArchiveVid
    <3> QED
      BY <1>0, <1>4, <3>1
  <2>2. CASE obj.cur.meta.vid # 0
    <3>1. id = obj.cur.meta.vid
      BY <2>2 DEF ArchiveVid
    <3> QED
      BY <1>0, <1>4, <3>1 DEF Dated
  <2> QED
    BY <2>1, <2>2
<1>7. ASSUME NEW x \in Vids
      PROVE  \/ obj'.arch[x].meta \in {obj.arch[x].meta, NoMeta, TornMeta}
             \/ /\ HasCurrent(obj) /\ Enabled /\ x = id
                /\ obj'.arch[x].meta = Filed(obj, x)
                /\ x <= nvid'
  <2>1. CASE ~Enabled \/ ~HasCurrent(obj) \/ x # id
    BY <1>1, <1>2, <2>1 DEF Overwritten
  <2>2. CASE Enabled /\ HasCurrent(obj) /\ x = id
    <3>1. obj'.arch[id].meta \in {obj.arch[id].meta, NoMeta, TornMeta, Filed(obj, id)}
      BY <1>1, <1>2, <2>2 DEF Overwritten
    <3> HIDE DEF id
    <3> QED
      BY <1>6, <2>2, <3>1
  <2> QED
    BY <2>1, <2>2
<1> HIDE DEF id
<1> QED
  BY <1>2, <1>3, <1>5, <1>7 DEF id

LEMMA DatedStep ==
    ASSUME TypeOK, TypeOK', Dated, LatestIsCurrent, [Next]_vars
    PROVE  Dated' /\ LatestIsCurrent'
<1>0. /\ writes \in Int /\ nvid \in Int /\ writes' \in Int /\ nvid' \in Int
      /\ writes <= writes' /\ nvid <= nvid' /\ 0 <= nvid /\ 0 <= writes
  BY CountersStep DEF TypeOK
<1>1. \A x \in Vids : x \in Int
  BY DEF Vids
<1>2. ASSUME NEW m \in Meta
      PROVE  m.vid \in Int /\ m.mod \in Int
  BY <1>2 DEF Meta
<1>3. /\ obj.cur.meta \in Meta /\ obj'.cur.meta \in Meta
      /\ \A x \in Vids : obj.arch[x].meta \in Meta /\ obj'.arch[x].meta \in Meta
  BY ObjectParts DEF TypeOK
<1>4. NoMeta.vid = 0 /\ NoMeta.mod = 0 /\ NoMeta.st # "ok"
      /\ TornMeta.vid = 0 /\ TornMeta.mod = 0 /\ TornMeta.st # "ok"
  BY DEF NoMeta, TornMeta
<1>5. CASE ~Replaced
  <2>1. ASSUME NEW n, NEW m, Faded(n, m)
        PROVE  /\ n.vid = m.vid \/ n.vid = 0
               /\ n.mod = m.mod \/ (n.mod = 0 /\ n.st # "ok")
               /\ n.st = "ok" => m.st = "ok" /\ n.mod = m.mod /\ n.vid = m.vid
    BY <1>4, <2>1 DEF Faded, SameId
  <2>2. /\ Faded(obj'.cur.meta, obj.cur.meta)
        /\ \A x \in Vids : Faded(obj'.arch[x].meta, obj.arch[x].meta)
    BY <1>5, FadedStep
  <2>3. Dated'
    <3>1. obj'.cur.meta.vid <= nvid' /\ obj'.cur.meta.mod <= writes'
      <4>1. /\ obj'.cur.meta.vid = obj.cur.meta.vid \/ obj'.cur.meta.vid = 0
            /\ obj'.cur.meta.mod = obj.cur.meta.mod \/ obj'.cur.meta.mod = 0
        BY <2>1, <2>2
      <4>2. obj.cur.meta.vid \in Int /\ obj.cur.meta.mod \in Int
        BY <1>2, <1>3
      <4> QED
        BY <1>0, <4>1, <4>2 DEF Dated
    <3>2. ASSUME NEW x \in Vids
          PROVE  obj'.arch[x].meta.mod <= writes' /\ (x > nvid' => obj'.arch[x].meta.st # "ok")
      <4>1. /\ obj'.arch[x].meta.mod = obj.arch[x].meta.mod \/ obj'.arch[x].meta.mod = 0
            /\ obj'.arch[x].meta.st = "ok" => obj.arch[x].meta.st = "ok"
        BY <2>1, <2>2
      <4>2. obj.arch[x].meta.mod \in Int /\ obj.arch[x].meta.mod <= writes
        BY <1>2, <1>3 DEF Dated
      <4>3. x > nvid' => obj.arch[x].meta.st # "ok"
        BY <1>0, <1>1 DEF Dated
      <4> QED
        BY <1>0, <4>1, <4>2, <4>3
    <3> QED
      BY <3>1, <3>2 DEF Dated
  <2>4. LatestIsCurrent'
    BY <2>1, <2>2 DEF LatestIsCurrent
  <2> QED
    BY <2>3, <2>4
<1>6. CASE Replaced
  <2>1. PICK m \in Meta :
           /\ NewVersion(m) /\ m.vid <= nvid' /\ obj'.cur.meta \in {m, obj.cur.meta, NoMeta, TornMeta}
           /\ \A x \in Vids : \/ obj'.arch[x].meta \in {obj.arch[x].meta, NoMeta, TornMeta}
                              \/ /\ HasCurrent(obj) /\ Enabled /\ x = ArchiveVid(obj, nvid + 1)
                                 /\ obj'.arch[x].meta = Filed(obj, x)
                                 /\ x <= nvid'
    BY <1>6, ReplacedMetas
  <2>2. m.mod = writes + 1 /\ writes' = writes + 1 /\ m.vid \in Int
    BY <1>2, <1>6, <2>1 DEF Replaced, NewVersion
  <2>3. \A x \in Vids : Filed(obj, x).mod = obj.cur.meta.mod
    <3>1. \A x \in Vids : x \in 0..MaxVid
      BY FilesAssumption DEF Vids
    <3> QED
      BY <3>1, FiledIs DEF TypeOK
  <2>4. obj.cur.meta.mod \in Int /\ obj.cur.meta.mod <= writes /\ obj.cur.meta.vid \in Int
        /\ obj.cur.meta.vid <= nvid
    BY <1>2, <1>3 DEF Dated
  <2>5. obj'.cur.meta.vid <= nvid' /\ obj'.cur.meta.mod <= writes'
    BY <1>0, <1>4, <2>1, <2>2, <2>4
  <2>6. ASSUME NEW x \in Vids
        PROVE  /\ obj'.arch[x].meta.mod <= writes
               /\ x > nvid' => obj'.arch[x].meta.st # "ok"
               /\ obj'.arch[x].meta.st = "ok" /\ obj.cur.meta.st = "ok"
                     => obj'.arch[x].meta.mod <= obj.cur.meta.mod
    <3>1. CASE obj'.arch[x].meta = obj.arch[x].meta
      <4>1. obj.arch[x].meta.mod \in Int /\ obj.arch[x].meta.mod <= writes
        BY <1>2, <1>3 DEF Dated
      <4>2. x > nvid' => obj.arch[x].meta.st # "ok"
        BY <1>0, <1>1 DEF Dated
      <4> QED
        BY <3>1, <4>1, <4>2 DEF LatestIsCurrent
    <3>2. CASE obj'.arch[x].meta \in {NoMeta, TornMeta}
      BY <1>0, <1>4, <3>2
    <3>3. CASE obj'.arch[x].meta = Filed(obj, x) /\ x <= nvid'
      <4>1. x \in Int
        BY <1>1
      <4> QED
        BY <1>0, <2>3, <2>4, <3>3, <4>1
    <3> QED
      BY <2>1, <3>1, <3>2, <3>3
  <2>7. Dated'
    <3>1. \A x \in Vids : obj'.arch[x].meta.mod <= writes'
      <4> SUFFICES ASSUME NEW x \in Vids PROVE obj'.arch[x].meta.mod <= writes'
        OBVIOUS
      <4>1. obj'.arch[x].meta.mod \in Int /\ obj'.arch[x].meta.mod <= writes
        BY <1>2, <1>3, <2>6
      <4> QED
        BY <1>0, <4>1
    <3> QED
      BY <2>5, <2>6, <3>1 DEF Dated
  <2>8. LatestIsCurrent'
    <3> SUFFICES ASSUME obj'.cur.meta.st = "ok", NEW x \in Vids, obj'.arch[x].meta.st = "ok"
                 PROVE  obj'.arch[x].meta.mod <= obj'.cur.meta.mod
      BY DEF LatestIsCurrent
    <3>1. obj'.arch[x].meta.mod \in Int /\ obj'.arch[x].meta.mod <= writes
      BY <1>2, <1>3, <2>6
    <3>2. CASE obj'.cur.meta = m
      BY <1>0, <2>2, <3>1, <3>2
    <3>3. CASE obj'.cur.meta = obj.cur.meta
      BY <2>6, <3>3
    <3> QED
      BY <1>4, <2>1, <3>2, <3>3
  <2> QED
    BY <2>7, <2>8
<1> QED
  BY <1>5, <1>6

-----------------------------------------------------------------------------
(* Without a fault the files agree. *)

\* Without a fault every pair of files is removed or stays what it is.
LEMMA CleanTouch ==
    ASSUME TypeOK, [Next]_vars, ~Replaced, ~Fault
    PROVE  \A s \in Slots(obj') : \/ s = NoFiles
                                  \/ \E o \in Slots(obj) : s.body = o.body /\ SameId(s.meta, o.meta)
<1>0. \A m : SameId(m, m)
  BY DEF SameId
<1>1. CASE ObjectKept
  BY <1>0, <1>1 DEF ObjectKept
<1>2. CASE Aged
  BY <1>2 DEF Aged, Slots
<1>3. CASE Changed
  <2>1. PICK v \in 0..MaxVid, gone \in BOOLEAN : Touched(obj, obj', v, ~Fault, gone)
    BY <1>3 DEF Changed
  <2>2. CASE v = 0 \/ IsCurrent(obj, v)
    <3>1. obj'.arch = obj.arch
          /\ (obj'.cur = NoFiles \/ (obj'.cur.body = obj.cur.body /\ SameId(obj'.cur.meta, obj.cur.meta)))
      BY <2>1, <2>2 DEF Touched, Touch
    <3> QED
      BY <1>0, <3>1 DEF Slots
  <2>3. CASE ~(v = 0 \/ IsCurrent(obj, v))
    <3>1. obj'.cur = obj.cur /\ \A x \in Vids \ {v} : obj'.arch[x] = obj.arch[x]
      BY <2>1, <2>3 DEF Touched
    <3>2. obj'.arch[v] = NoFiles \/ (obj'.arch[v].body = obj.arch[v].body /\ SameId(obj'.arch[v].meta, obj.arch[v].meta))
      BY <2>1, <2>3 DEF Touched, Touch
    <3> QED
      BY <1>0, <3>1, <3>2 DEF Slots
  <2> QED
    BY <2>2, <2>3
<1> QED
  BY <1>1, <1>2, <1>3, StepShape

\* The same, and no version changes places.
LEMMA CleanPlaces ==
    ASSUME TypeOK, [Next]_vars, ~Replaced
    PROVE  /\ obj'.cur.meta \in {NoMeta, TornMeta} \/ obj'.cur.meta.vid = obj.cur.meta.vid
           /\ \A v \in Vids : obj'.arch[v].meta.st = "ok" =>
                 obj.arch[v].meta.st = "ok" /\ obj'.arch[v].meta.vid = obj.arch[v].meta.vid
<1>1. NoMeta.st # "ok" /\ TornMeta.st # "ok"
  BY DEF NoMeta, TornMeta
<1> QED
  BY <1>1, FadedStep DEF Faded, SameId

\* What a write leaves when no fault hits: nothing has changed, or the version before is in
\* the archive and there is a new one, if there is a body for it.
LEMMA CleanReplaced ==
    ASSUME TypeOK, Replaced, ~Fault, Whole(obj), obj' # obj
    PROVE  \E b \in Body, m \in Meta :
              /\ NewVersion(m) /\ Filling(TRUE, b, m) /\ obj'.cur = [body |-> b, meta |-> m]
              /\ LET id == ArchiveVid(obj, nvid + 1)
                 IN  \A x \in Vids :
                        \/ obj'.arch[x] = obj.arch[x]
                        \/ /\ Enabled /\ HasCurrent(obj) /\ x = id
                           /\ obj'.arch[x] = [body |-> obj.cur.body, meta |-> Filed(obj, x)]
<1> DEFINE id == ArchiveVid(obj, nvid + 1)
<1>1. PICK r \in Outcome : Replaces(r) /\ obj' = r.obj /\ r.clean
  BY DEF Replaced
<1>2. PICK can \in BOOLEAN, b \in Body, m \in Meta :
          /\ NewVersion(m) /\ Filling(can, b, m)
          /\ Overwritten(obj, r.obj, Enabled, id, can, b, m, r.clean)
  BY <1>1 DEF Replaces
<1>3. can = TRUE
  BY <1>2 DEF Filling
<1>4. obj'.cur = [body |-> b, meta |-> m]
  BY <1>1, <1>2, <1>3 DEF Overwritten
<1>5. ASSUME NEW x \in Vids
      PROVE  \/ obj'.arch[x] = obj.arch[x]
             \/ /\ Enabled /\ HasCurrent(obj) /\ x = id
                /\ obj'.arch[x] = [body |-> obj.cur.body, meta |-> Filed(obj, x)]
  <2>1. CASE ~Enabled \/ ~HasCurrent(obj) \/ x # id
    BY <1>1, <1>2, <2>1 DEF Overwritten
  <2>2. CASE Enabled /\ HasCurrent(obj) /\ x = id
    <3>1. obj'.arch[id] = [body |-> obj.cur.body, meta |-> Filed(obj, id)]
      BY <1>1, <1>2, <2>2 DEF Overwritten
    <3> HIDE DEF id
    <3> QED
      BY <2>2, <3>1
  <2> QED
    BY <2>1, <2>2
<1> HIDE DEF id
<1>6. Filling(TRUE, b, m)
  BY <1>2, <1>3
<1> QED
  BY <1>2, <1>4, <1>5, <1>6 DEF id

\* The fault counter tells that this step and all before it were clean.
LEMMA NoFaultYet ==
    ASSUME TypeOK, [Next]_vars, hurts' = 0
    PROVE  hurts = 0 /\ ~Fault
<1>1. hurts \in Int /\ 0 <= hurts /\ hurts <= hurts'
  BY KeptStep DEF Kept, TypeOK
<1> QED
  BY <1>1 DEF Fault

LEMMA FiledSlot ==
    ASSUME TypeOK, NEW x \in Vids
    PROVE  LET s == [body |-> obj.cur.body, meta |-> Filed(obj, x)]
           IN  /\ s.body = obj.cur.body /\ s.meta.st = obj.cur.meta.st /\ s.meta.vid = x
               /\ s.meta.marker = obj.cur.meta.marker /\ s.meta.etag = obj.cur.meta.etag
<1>1. x \in 0..MaxVid /\ obj \in Object
  BY FilesAssumption DEF Vids, TypeOK
<1> QED
  BY <1>1, FiledIs

LEMMA UndamagedStep ==
    ASSUME TypeOK, Dated, Undamaged, [Next]_vars
    PROVE  Undamaged'
<1> SUFFICES ASSUME hurts' = 0
             PROVE  Whole(obj') /\ Apart(obj')
  BY DEF Undamaged
<1>0. hurts = 0 /\ ~Fault /\ Whole(obj) /\ Apart(obj)
  BY NoFaultYet DEF Undamaged
<1>1. NoMeta.vid = 0 /\ TornMeta.vid = 0 /\ NoFiles.body = Absent /\ NoFiles.meta.st = "absent"
  BY DEF NoMeta, TornMeta, NoFiles
<1>2. CASE ~Replaced
  <2>1. Whole(obj')
    BY <1>0, <1>1, <1>2, CleanTouch DEF Whole, SameId
  <2>2. Apart(obj')
    <3>1. \A v \in Vids : v # 0
      BY DEF Vids
    <3> QED
      BY <1>0, <1>1, <1>2, <3>1, CleanPlaces DEF Apart
  <2> QED
    BY <2>1, <2>2
<1>3. CASE Replaced /\ obj' = obj
  BY <1>0, <1>3
<1>4. CASE Replaced /\ obj' # obj
  <2>1. PICK b \in Body, m \in Meta :
              /\ NewVersion(m) /\ Filling(TRUE, b, m) /\ obj'.cur = [body |-> b, meta |-> m]
              /\ \A x \in Vids :
                        \/ obj'.arch[x] = obj.arch[x]
                        \/ /\ Enabled /\ HasCurrent(obj) /\ x = ArchiveVid(obj, nvid + 1)
                           /\ obj'.arch[x] = [body |-> obj.cur.body, meta |-> Filed(obj, x)]
    BY <1>0, <1>4, CleanReplaced
  <2>2. b # Absent /\ m.st = "ok"
    BY <1>0, <2>1 DEF Filling, NewVersion
  <2>3. obj.cur.meta.st = IF obj.cur.body = Absent THEN "absent" ELSE "ok"
    BY <1>0 DEF Whole, Slots
  <2>4. ASSUME NEW x \in Vids
        PROVE  obj'.arch[x].meta.st = IF obj'.arch[x].body = Absent THEN "absent" ELSE "ok"
    <3>1. CASE obj'.arch[x] = obj.arch[x]
      BY <1>0, <3>1 DEF Whole, Slots
    <3>2. CASE obj'.arch[x] = [body |-> obj.cur.body, meta |-> Filed(obj, x)]
      BY <2>3, <3>2, FiledSlot
    <3> QED
      BY <2>1, <3>1, <3>2
  <2>5. Whole(obj')
    BY <2>1, <2>2, <2>4 DEF Whole, Slots
  <2>6. ASSUME NEW x \in Vids, obj'.arch[x].meta.st = "ok"
        PROVE  obj'.arch[x].meta.vid = x /\ m.vid # x
    <3>0. /\ RoomForWrite /\ nvid \in Int /\ x \in Int /\ x > 0 /\ m.vid \in Int
          /\ NewVid \in Int /\ obj.cur.meta.vid \in Int
      BY <1>4, ObjectParts, RoomIs DEF Replaced, TypeOK, Vids, Meta
    <3>1. CASE obj'.arch[x] = obj.arch[x]
      <4>1. obj.arch[x].meta.vid = x /\ obj.cur.meta.vid # x /\ ~(x > nvid)
        BY <1>0, <2>6, <3>1 DEF Apart, Dated
      <4>2. NewVid # x
        BY <3>0, <4>1, RoomIs
      <4> QED
        BY <2>1, <3>1, <4>1, <4>2 DEF NewVersion
    <3>2. CASE /\ Enabled /\ HasCurrent(obj) /\ x = ArchiveVid(obj, nvid + 1)
               /\ obj'.arch[x] = [body |-> obj.cur.body, meta |-> Filed(obj, x)]
      <4>1. obj'.arch[x].meta.vid = x
        BY <3>2, FiledSlot
      <4>2. m.vid = NewVid /\ nvid < NewVid
        BY <2>1, <3>0, <3>2, RoomIs DEF NewVersion
      <4>3. x < NewVid
        <5>1. CASE obj.cur.meta.vid = 0
          BY <3>0, <3>2, <5>1, RoomIs DEF ArchiveVid
        <5>2. CASE obj.cur.meta.vid # 0
          BY <3>0, <3>2, <4>2, <5>2 DEF ArchiveVid, Dated
        <5> QED
          BY <5>1, <5>2
      <4> QED
        BY <3>0, <4>1, <4>2, <4>3
    <3> QED
      BY <2>1, <3>1, <3>2
  <2>7. Apart(obj')
    BY <2>1, <2>6 DEF Apart
  <2> QED
    BY <2>5, <2>7
<1> QED
  BY <1>2, <1>3, <1>4

LEMMA ToldStep ==
    ASSUME TypeOK, Undamaged, Told, [Next]_vars, "current" \notin Copies
    PROVE  Told'
<1> SUFFICES ASSUME hurts' = 0
             PROVE  Described(obj') /\ PartsAgree(mpu')
  BY DEF Told
<1>0. hurts = 0 /\ ~Fault /\ Whole(obj) /\ Described(obj) /\ PartsAgree(mpu)
  BY NoFaultYet DEF Undamaged, Told
<1>1. NoFiles.meta.st # "ok"
  BY DEF NoMeta, NoFiles
<1>2. PartsAgree(mpu')
  BY <1>0, UploadsStep
<1>3. CASE ~Replaced
  <2>1. \A s \in Slots(obj') : \/ s = NoFiles
                               \/ \E o \in Slots(obj) : s.body = o.body /\ SameId(s.meta, o.meta)
    BY <1>0, <1>3, CleanTouch
  <2> QED
    BY <1>0, <1>1, <1>2, <2>1 DEF Described, Fits, SameId
<1>4. CASE Replaced /\ obj' = obj
  BY <1>0, <1>2, <1>4
<1>5. CASE Replaced /\ obj' # obj
  <2>1. PICK b \in Body, m \in Meta :
              /\ NewVersion(m) /\ Filling(TRUE, b, m) /\ obj'.cur = [body |-> b, meta |-> m]
              /\ \A x \in Vids :
                        \/ obj'.arch[x] = obj.arch[x]
                        \/ /\ Enabled /\ HasCurrent(obj) /\ x = ArchiveVid(obj, nvid + 1)
                           /\ obj'.arch[x] = [body |-> obj.cur.body, meta |-> Filed(obj, x)]
    BY <1>0, <1>5, CleanReplaced
  <2>2. Fits(obj'.cur)
    BY <1>0, <2>1 DEF Filling
  <2>3. Fits(obj.cur) /\ \A x \in Vids : Fits(obj.arch[x])
    BY <1>0 DEF Described, Slots
  <2>4. ASSUME NEW x \in Vids
        PROVE  Fits(obj'.arch[x])
    <3>1. CASE obj'.arch[x] = obj.arch[x]
      BY <2>3, <3>1
    <3>2. CASE obj'.arch[x] = [body |-> obj.cur.body, meta |-> Filed(obj, x)]
      BY <2>3, <3>2, FiledSlot DEF Fits
    <3> QED
      BY <2>1, <3>1, <3>2
  <2> QED
    BY <1>2, <2>2, <2>4 DEF Described, Slots
<1> QED
  BY <1>3, <1>4, <1>5

-----------------------------------------------------------------------------
(* The lifecycle's list, and the empty bucket. *)

\* A version that is not current never becomes current again, faults or not.
LEMMA CurrentIsOld ==
    ASSUME TypeOK, Dated, [Next]_vars, NEW v \in Vids, v <= nvid, IsCurrent(obj', v)
    PROVE  IsCurrent(obj, v)
<1>0. NoMeta.st # "ok" /\ TornMeta.st # "ok"
  BY DEF NoMeta, TornMeta
<1>1. CASE ~Replaced
  BY <1>0, <1>1, FadedStep DEF Faded, SameId, IsCurrent
<1>2. CASE Replaced
  <2>1. PICK m \in Meta :
           NewVersion(m) /\ obj'.cur.meta \in {m, obj.cur.meta, NoMeta, TornMeta}
    BY <1>2, ReplacedMetas
  <2>2. RoomForWrite /\ nvid \in Int /\ v \in Int /\ v > 0 /\ NewVid \in Int
    BY <1>2, RoomIs DEF Replaced, Vids
  <2>3. NewVid # v
    BY <2>2, RoomIs
  <2> QED
    BY <1>0, <2>1, <2>3 DEF IsCurrent, NewVersion
<1> QED
  BY <1>1, <1>2

\* Entries come to the list only when it is made.
LEMMA TodoStep ==
    ASSUME TypeOK, [Next]_vars, NEW j \in lc'.todo, j.op = "noncurrent", j \notin lc.todo
    PROVE  ListNoncurrent
<1>0. lc \in Pass /\ NoPass.todo = {} /\ NoPass \in Pass
  BY DEF TypeOK, NoPass, Pass
<1>1. ASSUME NEW r, NEW p, NEW q, Ended(r, p, q, lc)
      PROVE  FALSE
  BY <1>0, <1>1 DEF Ended
<1>2. lc' # lc /\ lc' # NoPass
  BY <1>0
<1>3. CASE BucketStep
  BY <1>2, <1>3 DEF BucketStep, CreateBucket, DeleteBucket, PutBucketVersioning,
           PutBucketObjectLock, WriteBucketMeta, ChangeBucket
<1>4. CASE ObjectStep
  BY <1>1, <1>4 DEF ObjectStep, PutObject, DeleteObjectVersioned, DeleteObjectVersion,
              RollbackPut, PutObjectRetention, PutObjectLegalHold, Update, SetMetaField,
              CopyObject, CopyFromElsewhere, Copy, Leave
<1>5. CASE UploadStep
  BY <1>1, <1>5 DEF UploadStep, CreateMultipartUpload, UploadPart, UploadPartCopy, RollbackPart,
              CompleteMultipartUpload, AbortMultipartUpload, Abort, LeaveUpload, Leave
<1>6. CASE LifecycleStep
  <2>1. CASE StartExpiration
    <3>1. lc'.todo = {}
      BY <1>0, <2>1 DEF StartExpiration, Pass
    <3> QED
      BY <3>1
  <2>2. CASE ReadVersioning
    <3>1. lc'.todo = lc.todo
      BY <1>0, <2>2 DEF ReadVersioning, Pass
    <3> QED
      BY <3>1
  <2>3. ASSUME NEW J, TakeUp(J), \A x \in J : x.op # "noncurrent"
        PROVE  FALSE
    <3>1. PICK old \in SUBSET J : lc' = IF old = {} THEN NoPass
                                        ELSE [NoPass EXCEPT !.pc = "act", !.todo = old]
      BY <2>3 DEF TakeUp
    <3>2. [NoPass EXCEPT !.pc = "act", !.todo = old].todo = old
      BY <1>0 DEF Pass
    <3> QED
      BY <1>0, <2>3, <3>1, <3>2
  <2>4. CASE ListForExpiration
    <3> DEFINE J == IF bkt.st = "none" THEN {}
              ELSE IF lc.versioned
                   THEN {[op |-> "mark", id |-> 0] : m \in {x \in Versions : IsLatest(obj, x)}}
                   ELSE {[op |-> "object", id |-> 0] :
                            m \in {x \in {obj.cur.meta} : Listed(obj.cur) /\ ~x.marker}}
    <3>1. TakeUp(J) /\ \A x \in J : x.op # "noncurrent"
      BY <2>4 DEF ListForExpiration
    <3> HIDE DEF J
    <3> QED
      BY <2>3, <3>1
  <2>5. CASE ListLoneMarker
    <3> DEFINE T == Jobs("marker", {m \in Entries(obj) : IsLatest(obj, m)})
    <3>1. lc' = [NoPass EXCEPT !.pc = "act", !.todo = T] /\ \A x \in T : x.op = "marker"
      BY <2>5 DEF ListLoneMarker, Jobs
    <3> HIDE DEF T
    <3>2. [NoPass EXCEPT !.pc = "act", !.todo = T].todo = T
      BY <1>0 DEF Pass
    <3> QED
      BY <3>1, <3>2
  <2>6. CASE ListIncomplete
    <3> DEFINE J == {[op |-> "abort", id |-> u] : u \in {x \in Uploads : mpu[x].st = "open"}}
    <3>1. TakeUp(J) /\ \A x \in J : x.op # "noncurrent"
      BY <2>6 DEF ListIncomplete
    <3> HIDE DEF J
    <3> QED
      BY <2>3, <3>1
  <2>7. ASSUME NEW i \in lc.todo, ActOnListed(i)
        PROVE  FALSE
    <3>1. PassRest(i).todo \subseteq lc.todo
      BY <1>0, PassRestDrops
    <3>2. lc' # PassRest(i)
      BY <3>1
    <3>3. ASSUME NEW r, NEW p, NEW q, Ended(r, p, q, PassRest(i))
          PROVE  FALSE
      BY <1>2, <3>2, <3>3 DEF Ended
    <3> QED
      BY <2>7, <3>2, <3>3 DEF ActOnListed, ExpireObject, ExpireVersioned, DeleteListed, DropListed,
           AbortListed, Abort, LeaveUpload, Leave
  <2> QED
    BY <1>6, <2>1, <2>2, <2>4, <2>5, <2>6, <2>7 DEF LifecycleStep
<1>7. CASE (\E v \in 0..MaxVid : Lapse(v)) \/ Restart \/ UNCHANGED vars
  BY <1>2, <1>7 DEF Lapse, Restart, vars
<1> QED
  BY <1>3, <1>4, <1>5, <1>6, <1>7 DEF Next

\* What enforceNoncurrentExpiration puts on its list is in the archive.
LEMMA ListedIsNoncurrent ==
    ASSUME TypeOK, Dated, LatestIsCurrent, Whole(obj), Apart(obj),
           NEW m \in Entries(obj), ~IsLatest(obj, m)
    PROVE  m.vid <= nvid /\ m.vid \in Vids /\ ~IsCurrent(obj, m.vid)
<1>0. nvid \in Int
  BY DEF TypeOK
<1>1. \/ m = obj.cur.meta /\ Listed(obj.cur)
      \/ \E v \in Vids : m = obj.arch[v].meta /\ Listed(obj.arch[v])
  BY DEF Entries
<1>2. CASE m = obj.cur.meta /\ Listed(obj.cur)
  <2>1. obj.cur.meta.st = "ok" /\ obj.cur.meta.mod \in Int
    BY <1>2, ObjectParts DEF Listed, TypeOK, Meta
  <2>2. \A e \in Entries(obj) : e.mod <= obj.cur.meta.mod
    <3> SUFFICES ASSUME NEW e \in Entries(obj) PROVE e.mod <= obj.cur.meta.mod
      OBVIOUS
    <3>1. CASE e = obj.cur.meta
      BY <2>1, <3>1
    <3>2. CASE \E v \in Vids : e = obj.arch[v].meta /\ Listed(obj.arch[v])
      BY <2>1, <3>2 DEF LatestIsCurrent, Listed
    <3> QED
      BY <3>1, <3>2 DEF Entries
  <2> QED
    BY <1>2, <2>2 DEF IsLatest
<1>3. CASE \E v \in Vids : m = obj.arch[v].meta /\ Listed(obj.arch[v])
  <2>1. PICK v \in Vids : m = obj.arch[v].meta /\ obj.arch[v].meta.st = "ok"
    BY <1>3 DEF Listed
  <2>2. m.vid = v /\ obj.cur.meta.vid # v /\ v \in Int /\ ~(v > nvid)
    BY <2>1 DEF Apart, Dated, Vids
  <2> QED
    BY <1>0, <2>2 DEF IsCurrent
<1> QED
  BY <1>1, <1>2, <1>3

LEMMA PassedStep ==
    ASSUME TypeOK, Dated, LatestIsCurrent, Undamaged, Passed, [Next]_vars
    PROVE  Passed'
<1> SUFFICES ASSUME hurts' = 0, NEW j \in lc'.todo, j.op = "noncurrent"
             PROVE  j.id <= nvid' /\ ~(j.id # 0 /\ IsCurrent(obj', j.id))
  BY DEF Passed
<1>0. hurts = 0 /\ Whole(obj) /\ Apart(obj) /\ nvid \in Int /\ nvid' \in Int /\ nvid <= nvid'
      /\ nvid \in 0..MaxVid /\ nvid' \in 0..MaxVid /\ MaxVid \in Nat
  BY NoFaultYet, CountersStep, FilesAssumption DEF Undamaged, TypeOK
<1>1. CASE j \in lc.todo
  <2>1. j.id <= nvid /\ ~(j.id # 0 /\ IsCurrent(obj, j.id))
    BY <1>0, <1>1 DEF Passed
  <2>2. j.id \in 0..MaxVid
    BY <1>1 DEF TypeOK, Pass, Job
  <2>3. j.id <= nvid'
    BY <1>0, <2>1, <2>2
  <2>4. CASE j.id # 0
    <3>1. j.id \in Vids
      BY <1>0, <2>2, <2>4 DEF Vids
    <3> QED
      BY <2>1, <2>3, <3>1, CurrentIsOld
  <2> QED
    BY <2>3, <2>4
<1>2. CASE j \notin lc.todo
  <2>1. ListNoncurrent
    BY <1>2, TodoStep
  <2> DEFINE M == {m \in Entries(obj) : ~IsLatest(obj, m)}
  <2>2. TakeUp(Jobs("noncurrent", M))
    BY <2>1 DEF ListNoncurrent
  <2>3. j \in Jobs("noncurrent", M)
    <3>0. NoPass \in Pass /\ NoPass.todo = {}
      BY DEF NoPass, Pass
    <3> HIDE DEF M
    <3>1. PICK old \in SUBSET Jobs("noncurrent", M) :
              lc' = IF old = {} THEN NoPass ELSE [NoPass EXCEPT !.pc = "act", !.todo = old]
      BY <2>2 DEF TakeUp
    <3>2. [NoPass EXCEPT !.pc = "act", !.todo = old].todo = old
      BY <3>0 DEF Pass
    <3> QED
      BY <3>0, <3>1, <3>2
  <2>4. PICK m \in M : j.id = m.vid
    BY <2>3 DEF Jobs
  <2>5. j.id <= nvid /\ j.id \in Vids /\ ~IsCurrent(obj, j.id)
    BY <1>0, <2>4, ListedIsNoncurrent
  <2>6. obj' = obj /\ nvid' = nvid
    BY <2>2 DEF TakeUp
  <2> QED
    BY <2>5, <2>6
<1> QED
  BY <1>1, <1>2

LEMMA EmptiedStep ==
    ASSUME TypeOK, BucketInv, Emptied, [Next]_vars
    PROVE  Emptied'
<1> SUFFICES ASSUME bkt'.st = "none"
             PROVE  obj' = NoObject
  BY DEF Emptied
<1>1. CASE ObjectKept
  <2>1. CASE bkt.st = "none"
    BY <1>1, <2>1 DEF ObjectKept, Emptied
  <2>2. CASE bkt.st # "none" /\ DeleteBucket
    BY <2>2 DEF DeleteBucket, ChangeBucket
  <2>3. CASE bkt.st # "none" /\ ~DeleteBucket
    <3>1. bkt \in Bucket /\ Torn(bkt).st = "torn"
      BY DEF TypeOK, Bucket, Torn
    <3>2. ASSUME NEW status, PutBucketVersioning(status)
          PROVE  FALSE
      <4>1. bkt' \in {[bkt EXCEPT !.ver = status]} \cup {Torn(bkt)} \cup {Torn(bkt)}
        BY <3>2, ChangedBucket DEF PutBucketVersioning, WriteBucketMeta
      <4>2. [bkt EXCEPT !.ver = status].st = bkt.st
        BY <3>1 DEF Bucket
      <4> QED
        BY <2>3, <3>1, <4>1, <4>2
    <3>3. ASSUME NEW doc, PutBucketObjectLock(doc)
          PROVE  FALSE
      <4>1. bkt' \in {[bkt EXCEPT !.lock = doc.lock, !.rule = doc.rule]} \cup {Torn(bkt)} \cup {Torn(bkt)}
        BY <3>3, ChangedBucket DEF PutBucketObjectLock, WriteBucketMeta
      <4>2. [bkt EXCEPT !.lock = doc.lock, !.rule = doc.rule].st = bkt.st
        BY <3>1 DEF Bucket
      <4> QED
        BY <2>3, <3>1, <4>1, <4>2
    <3>4. ~BucketStep
      BY <2>3, <3>2, <3>3 DEF BucketStep, CreateBucket
    <3> QED
      BY <2>3, <3>4, ObjectStepKeepsBucket
  <2> QED
    BY <2>1, <2>2, <2>3
<1>2. CASE Replaced
  BY <1>2 DEF Replaced
<1>3. CASE Changed
  BY <1>3 DEF Changed
<1>4. CASE Aged
  BY <1>4 DEF Aged, Emptied
<1> QED
  BY <1>1, <1>2, <1>3, <1>4, StepShape

LEMMA ObjectsInvInit ==
    ASSUME Init
    PROVE  ObjectsInv /\ Told
<1>0. 0 \in 0..MaxVid /\ 0 \in 0..MaxWrites /\ 0 \in 0..MaxFaults
  BY FilesAssumption, ObjectsAssumption
<1>1. NoObject \in Object /\ NoObject.cur = NoFiles /\ \A v \in Vids : NoObject.arch[v] = NoFiles
  BY EmptyTypes DEF NoObject
<1>2. /\ NoFiles.body = Absent /\ NoFiles.meta.st = "absent" /\ NoFiles.meta.vid = 0
      /\ NoFiles.meta.mod = 0 /\ NoMeta.st = "absent"
  BY DEF NoFiles, NoMeta
<1>3. NoBucket \in Bucket /\ ~NoBucket.lock
  BY DEF NoBucket, Bucket, Modes
<1>4. TypeOK
  <2>1. NoPass \in Pass
    BY DEF NoPass, Pass
  <2>2. [u \in Uploads |-> NewUpload] \in [Uploads -> Upload]
    BY NewUploadIs
  <2> QED
    BY <1>0, <1>1, <1>3, <2>1, <2>2 DEF Init, TypeOK
<1>5. BucketInv
  BY <1>3 DEF Init, BucketInv, LockNeedsVersioning
<1>6. Dated /\ LatestIsCurrent
  BY <1>1, <1>2 DEF Init, Dated, LatestIsCurrent
<1>7. Whole(obj) /\ Apart(obj) /\ Described(obj)
  BY <1>1, <1>2 DEF Init, Whole, Apart, Described, Slots, Fits
<1>8. PartsAgree(mpu)
  BY NewUploadIs DEF Init, PartsAgree, NoPart
<1>9. Passed
  BY DEF Init, Passed, NoPass
<1>10. Emptied
  BY DEF Init, Emptied
<1> QED
  BY <1>4, <1>5, <1>6, <1>7, <1>8, <1>9, <1>10 DEF ObjectsInv, Undamaged, Told

LEMMA ObjectsInvStep ==
    ASSUME ObjectsInv, [Next]_vars
    PROVE  ObjectsInv'
<1>1. TypeOK' /\ BucketInv'
  BY TypeStep, BucketKept DEF ObjectsInv
<1> QED
  BY <1>1, DatedStep, UndamagedStep, PassedStep, EmptiedStep DEF ObjectsInv

LEMMA ObjectsInvHolds == Spec => []ObjectsInv
<1>1. Init => ObjectsInv
  BY ObjectsInvInit
<1>2. ObjectsInv /\ [Next]_vars => ObjectsInv'
  BY ObjectsInvStep
<1> QED
  BY <1>1, <1>2, PTL DEF Spec

\* ListObjectVersions sorts by LastModified: the entry with IsLatest is the version that a
\* GET without versionId serves, through overwrites, copies, assembled uploads, deletes,
\* lifecycle passes and any fault in the middle of them.
THEOREM LatestIsTheCurrent == Spec => []LatestIsCurrent
<1>1. ObjectsInv => LatestIsCurrent
  BY DEF ObjectsInv
<1> QED
  BY <1>1, ObjectsInvHolds, PTL

\* As long as no operation has failed half way and the key is not copied onto itself (which
\* CopyObject gets wrong), every body has the metadata that describe it, every archived
\* version is filed under its own ID, and every part is what its ETag says.
THEOREM FilesStayInStep ==
    ASSUME "current" \notin Copies
    PROVE  Spec => []FilesAgree
<1>1. Init => Told
  BY ObjectsInvInit
<1>2. ObjectsInv /\ Told /\ [Next]_vars => Told'
  BY ToldStep DEF ObjectsInv
<1>3. ObjectsInv /\ Told => FilesAgree
  BY DEF ObjectsInv, Undamaged, Told, FilesAgree, Whole, Described, Fits, Slots, Apart, PartsAgree
<1> QED
  BY <1>1, <1>2, <1>3, ObjectsInvHolds, PTL DEF Spec

-----------------------------------------------------------------------------
(* What becomes of a version that can be read. *)

\* The reasons for which version v may be lost.
Excuse(v) ==
    \/ IsCurrent(obj, v) /\ Fault
    \/ IsCurrent(obj, v) /\ bkt.st = "ok" /\ ~Enabled
    \/ IsCurrent(obj, v) /\ StaleDelete /\ ~Locked(obj.cur.meta, FALSE)
    \/ Names(v) /\ (Fault \/ ~Locked(Resolve(obj, v).meta, FALSE))
    \/ \E bypass \in BOOLEAN :
          DeleteObjectVersion(v, bypass) /\ ~Locked(Resolve(obj, v).meta, bypass)

LEMMA ReadableIs ==
    ASSUME NEW o, NEW v, GetObjectVersion(o, v) \in Data
    PROVE  /\ Resolve(o, v).meta.st = "ok" /\ ~Resolve(o, v).meta.marker
           /\ Resolve(o, v).body \in Data /\ Resolve(o, v).body # Absent
<1>1. Absent \notin Data
  BY DEF Absent, Data
<1> QED
  BY <1>1 DEF GetObjectVersion

\* Version v is read from the same files as before.
LEMMA SameFiles ==
    ASSUME NEW o, NEW p, NEW v, Resolve(p, v).body = Resolve(o, v).body,
           SameId(Resolve(p, v).meta, Resolve(o, v).meta)
    PROVE  GetObjectVersion(p, v) = GetObjectVersion(o, v)
BY DEF GetObjectVersion, SameId

LEMMA ReplacedExcuse ==
    ASSUME TypeOK, Dated, [Next]_vars, Replaced, NEW v \in 1..nvid,
           GetObjectVersion(obj, v) \in Data,
           GetObjectVersion(obj', v) # GetObjectVersion(obj, v)
    PROVE  Excuse(v)
<1>0. /\ v \in Vids /\ v \in Int /\ v > 0 /\ v <= nvid /\ nvid \in Int /\ RoomForWrite
      /\ NewVid \in Int /\ obj \in Object
  BY RoomIs, FilesAssumption DEF Replaced, TypeOK, Vids
<1> DEFINE id == ArchiveVid(obj, nvid + 1)
<1>1. PICK r \in Outcome : Replaces(r) /\ obj' = r.obj /\ (Fault \/ r.clean)
  BY DEF Replaced
<1>2. PICK can \in BOOLEAN, b \in Body, m \in Meta :
          /\ NewVersion(m)
          /\ Overwritten(obj, r.obj, Enabled, id, can, b, m, r.clean)
  BY <1>1 DEF Replaces
<1>3. \A n : SameId(n, n)
  BY DEF SameId
<1>4. CASE ~IsCurrent(obj, v)
  <2>1. ~IsCurrent(obj', v)
    BY <1>0, <1>4, CurrentIsOld
  <2>2. ~HasCurrent(obj) \/ v # id
    <3>1. CASE obj.cur.meta.vid = 0
      BY <1>0, <3>1 DEF ArchiveVid
    <3>2. CASE obj.cur.meta.vid # 0
      BY <1>4, <3>2 DEF ArchiveVid, HasCurrent, IsCurrent
    <3> QED
      BY <3>1, <3>2
  <2>3. obj'.arch[v] = obj.arch[v]
    BY <1>0, <1>1, <1>2, <2>2 DEF Overwritten
  <2>4. Resolve(obj', v) = Resolve(obj, v)
    BY <1>4, <2>1, <2>3 DEF Resolve
  <2> QED
    BY <1>3, <2>4, SameFiles
<1>5. CASE IsCurrent(obj, v) /\ (Fault \/ ~Enabled)
  BY <1>5 DEF Excuse, Replaced
<1>6. CASE IsCurrent(obj, v) /\ ~Fault /\ Enabled
  <2>1. HasCurrent(obj) /\ id = v /\ Resolve(obj, v) = obj.cur /\ obj.cur.meta.st = "ok"
    BY <1>0, <1>6, ReadableIs DEF Resolve, HasCurrent, IsCurrent, ArchiveVid
  <2>2. CASE obj' = obj
    BY <2>2
  <2>3. CASE obj' # obj
    <3>1. /\ obj'.arch[v] = [body |-> obj.cur.body, meta |-> Filed(obj, v)]
          /\ obj'.cur = [body |-> b, meta |-> m] \/ obj'.cur = obj.cur
      BY <1>1, <1>2, <1>6, <2>1, <2>3 DEF Overwritten
    <3>2. CASE obj'.cur = obj.cur
      BY <1>3, <1>6, <3>2, SameFiles DEF Resolve, IsCurrent
    <3>3. CASE obj'.cur = [body |-> b, meta |-> m]
      <4>1. m.vid = NewVid /\ NewVid > nvid
        BY <1>0, <1>2, <1>6, RoomIs DEF NewVersion
      <4>2. ~IsCurrent(obj', v)
        BY <1>0, <3>3, <4>1 DEF IsCurrent
      <4>3. Resolve(obj', v) = [body |-> obj.cur.body, meta |-> Filed(obj, v)]
        BY <3>1, <4>2 DEF Resolve
      <4>4. /\ Resolve(obj', v).body = obj.cur.body
            /\ Resolve(obj', v).meta.st = obj.cur.meta.st
            /\ Resolve(obj', v).meta.marker = obj.cur.meta.marker
        BY <1>0, <4>3, FiledSlot
      <4>5. GetObjectVersion(obj', v) = GetObjectVersion(obj, v)
        BY <2>1, <4>4 DEF GetObjectVersion
      <4> QED
        BY <4>5
    <3> QED
      BY <3>1, <3>2, <3>3
  <2> QED
    BY <2>2, <2>3
<1> QED
  BY <1>4, <1>5, <1>6

LEMMA ChangedExcuse ==
    ASSUME TypeOK, Dated, [Next]_vars, Changed, NEW v \in 1..nvid,
           GetObjectVersion(obj, v) \in Data,
           GetObjectVersion(obj', v) # GetObjectVersion(obj, v)
    PROVE  Excuse(v)
<1>0. v \in Vids /\ v # 0 /\ v <= nvid /\ obj \in Object
  BY FilesAssumption DEF TypeOK, Vids
<1>1. PICK w \in 0..MaxVid, gone \in BOOLEAN : Touched(obj, obj', w, ~Fault, gone) /\ Reason(w, gone)
  BY DEF Changed
<1>2. \A n : SameId(n, n)
  BY DEF SameId
<1>3. IsCurrent(obj', v) => IsCurrent(obj, v)
  BY <1>0, CurrentIsOld
<1>4. (w = 0 /\ IsCurrent(obj, v)) \/ w = v
  <2> SUFFICES ASSUME ~(w = 0 /\ IsCurrent(obj, v)), w # v
               PROVE  Resolve(obj', v) = Resolve(obj, v)
    BY <1>2, SameFiles
  <2>1. CASE w = 0 \/ IsCurrent(obj, w)
    <3>1. obj'.arch = obj.arch /\ ~IsCurrent(obj, v)
      BY <1>1, <2>1 DEF Touched, IsCurrent
    <3> QED
      BY <1>3, <3>1 DEF Resolve
  <2>2. CASE ~(w = 0 \/ IsCurrent(obj, w))
    <3>1. obj'.cur = obj.cur /\ obj'.arch[v] = obj.arch[v]
      BY <1>0, <1>1, <2>2 DEF Touched
    <3> QED
      BY <3>1 DEF Resolve, IsCurrent
  <2> QED
    BY <2>1, <2>2
<1>5. Fault \/ gone
  <2> SUFFICES ASSUME ~Fault, ~gone
               PROVE  /\ Resolve(obj', v).body = Resolve(obj, v).body
                      /\ SameId(Resolve(obj', v).meta, Resolve(obj, v).meta)
    BY SameFiles
  <2>1. CASE w = 0 \/ IsCurrent(obj, w)
    <3>1. obj'.cur.body = obj.cur.body /\ SameId(obj'.cur.meta, obj.cur.meta) /\ obj'.arch = obj.arch
      BY <1>1, <2>1 DEF Touched, Touch
    <3>2. IsCurrent(obj', v) <=> IsCurrent(obj, v)
      BY <3>1 DEF IsCurrent, SameId
    <3> QED
      BY <1>2, <3>1, <3>2 DEF Resolve
  <2>2. CASE ~(w = 0 \/ IsCurrent(obj, w))
    <3>1. obj'.cur = obj.cur /\ w = v /\ ~IsCurrent(obj, v)
      BY <1>1, <1>4, <2>2 DEF Touched
    <3>2. obj'.arch[v].body = obj.arch[v].body /\ SameId(obj'.arch[v].meta, obj.arch[v].meta)
      BY <1>1, <2>2, <3>1 DEF Touched, Touch
    <3> QED
      BY <3>1, <3>2 DEF Resolve, IsCurrent
  <2> QED
    BY <2>1, <2>2
<1>6. ~Resolve(obj, v).meta.marker
  BY ReadableIs
<1>7. CASE w = 0 /\ IsCurrent(obj, v)
  BY <1>1, <1>5, <1>7 DEF Reason, Excuse
<1>8. CASE w = v
  BY <1>0, <1>1, <1>5, <1>6, <1>8 DEF Reason, Excuse
<1> QED
  BY <1>4, <1>7, <1>8

LEMMA LostHasExcuse ==
    ASSUME TypeOK, Dated, [Next]_vars, NEW v \in Lost
    PROVE  Excuse(v)
<1>0. /\ v \in 1..nvid /\ GetObjectVersion(obj, v) \in Data /\ obj' # obj
      /\ GetObjectVersion(obj', v) # GetObjectVersion(obj, v)
  BY DEF Lost
<1>1. CASE Replaced
  BY <1>0, <1>1, ReplacedExcuse
<1>2. CASE Changed
  BY <1>0, <1>2, ChangedExcuse
<1>3. CASE Aged
  <2>1. v \in Vids
    BY <1>0, FilesAssumption DEF TypeOK, Vids
  <2>2. IsCurrent(obj', v) <=> IsCurrent(obj, v)
    BY <1>3 DEF Aged, SameId, IsCurrent
  <2>3. /\ Resolve(obj', v).body = Resolve(obj, v).body
        /\ SameId(Resolve(obj', v).meta, Resolve(obj, v).meta)
    BY <1>3, <2>1, <2>2 DEF Aged, Resolve
  <2> QED
    BY <1>0, <2>3, SameFiles
<1> QED
  BY <1>0, <1>1, <1>2, <1>3, StepShape DEF ObjectKept

\* A version that can be read stays readable, with its content, until something is asked of
\* that very version; only the current one is exposed to the steps of others, and then only
\* without versioning, to a fault, or to a pass or a rollback that began without it.
THEOREM ReadableVersionsStay == Spec => VersionsAreKept
<1>1. ObjectsInv /\ [Next]_vars
         => \A v \in Lost : \/ Names(v)
                            \/ IsCurrent(obj, v) /\ (~Enabled \/ Fault \/ StaleDelete)
  <2> SUFFICES ASSUME ObjectsInv, [Next]_vars, NEW v \in Lost
               PROVE  \/ Names(v)
                      \/ IsCurrent(obj, v) /\ (~Enabled \/ Fault \/ StaleDelete)
    OBVIOUS
  <2>1. Excuse(v)
    BY LostHasExcuse DEF ObjectsInv
  <2>2. (\E bypass \in BOOLEAN : DeleteObjectVersion(v, bypass)) => Names(v)
    BY DEF Names
  <2> QED
    BY <2>1, <2>2 DEF Excuse
<1> QED
  BY <1>1, ObjectsInvHolds, PTL DEF Spec, VersionsAreKept

\* In a bucket with object lock a version under a legal hold or retention survives every
\* step but a fault; retention in GOVERNANCE mode yields only to a delete of that version
\* with the bypass header.
THEOREM LocksHold == Spec => LockHolds
<1>1. ObjectsInv /\ [Next]_vars
         => \A v \in Lost :
               bkt.lock /\ Locked(Resolve(obj, v).meta, FALSE) =>
                  \/ Fault
                  \/ /\ ~Locked(Resolve(obj, v).meta, TRUE)
                     /\ DeleteObjectVersion(v, TRUE)
  <2> SUFFICES ASSUME ObjectsInv, [Next]_vars, NEW v \in Lost, bkt.lock,
                      Locked(Resolve(obj, v).meta, FALSE), ~Fault
               PROVE  ~Locked(Resolve(obj, v).meta, TRUE) /\ DeleteObjectVersion(v, TRUE)
    OBVIOUS
  <2>1. Excuse(v)
    BY LostHasExcuse DEF ObjectsInv
  <2>2. bkt.st = "ok" => Enabled
    BY DEF ObjectsInv, BucketInv, LockNeedsVersioning, Enabled
  <2>3. IsCurrent(obj, v) => Resolve(obj, v).meta = obj.cur.meta
    BY DEF Resolve
  <2>4. PICK bypass \in BOOLEAN :
           DeleteObjectVersion(v, bypass) /\ ~Locked(Resolve(obj, v).meta, bypass)
    BY <2>1, <2>2, <2>3 DEF Excuse
  <2>5. bypass = TRUE
    BY <2>4
  <2> QED
    BY <2>4, <2>5
<1> QED
  BY <1>1, ObjectsInvHolds, PTL DEF Spec, LockHolds

-----------------------------------------------------------------------------
(* What the second half of a request, or of a lifecycle pass, does. *)

\* Unless a fault hits, an operation leaves the pass as its step says.
LEMMA EndedQuiet ==
    ASSUME TypeOK, NEW r, r.clean \in BOOLEAN, r.how = "killed" => ~r.clean,
           NEW p, NEW q, NEW l, Ended(r, p, q, l), ~Fault
    PROVE  lc' = l /\ r.clean
<1>1. r.clean
  BY EndedIs
<1> QED
  BY <1>1 DEF Ended

LEMMA LeaveQuiet ==
    ASSUME TypeOK, NEW r, Flags(r), NEW p, NEW l, Leave(r, p, l), ~Fault
    PROVE  lc' = l /\ r.clean /\ obj' = r.obj
<1>1. r.clean \in BOOLEAN /\ (r.how = "killed" => ~r.clean)
  BY DEF Flags, Outcome
<1> QED
  BY <1>1, EndedQuiet DEF Leave

LEMMA RewriteKeepsPass ==
    ASSUME NEW v, NEW m, NEW r \in Rewrite(obj, v, m), NEW p, NEW l, TypeOK, Leave(r, p, l), ~Fault
    PROVE  lc' = l
<1> DEFINE Put(n) == IF v = 0 \/ IsCurrent(obj, v) THEN [obj EXCEPT !.cur.meta = n]
                     ELSE [obj EXCEPT !.arch[v].meta = n]
<1>2. r \in Done(Put(m)) \cup Spoilt("disk", {Put(TornMeta)}) \cup Spoilt("kill", {Put(TornMeta)})
  BY DEF Rewrite
<1> HIDE DEF Put
<1>3. CASE r \in Done(Put(m))
  <2>1. r = [obj |-> Put(m), how |-> "ok", clean |-> TRUE]
    BY <1>3 DEF Done
  <2>2. r.clean \in BOOLEAN /\ (r.how = "killed" => ~r.clean)
    BY <2>1
  <2> QED
    BY <2>2, EndedQuiet DEF Leave
<1>4. CASE \E f \in {"disk", "kill"} : r \in Spoilt(f, {Put(TornMeta)})
  <2>1. PICK f, o : r = [obj |-> o, how |-> IF f = "kill" THEN "killed" ELSE "error",
                         clean |-> FALSE]
    BY <1>4, Zenon DEF Spoilt
  <2>2. r.clean \in BOOLEAN /\ (r.how = "killed" => ~r.clean)
    BY <2>1
  <2> QED
    BY <2>2, EndedQuiet DEF Leave
<1> QED
  BY <1>2, <1>3, <1>4

LEMMA DeleteFlags ==
    ASSUME TypeOK, RoomForWrite, NEW bypass, NEW r \in DeleteOutcomes(bypass)
    PROVE  Flags(r)
<1>0. obj \in Object
  BY DEF TypeOK
<1>1. CASE Enabled
  BY <1>1, MarkerReplaces DEF Replaces, Strict
<1>2. CASE ~Enabled /\ Locked(obj.cur.meta, bypass)
  BY <1>0, <1>2, DoneIs DEF DeleteOutcomes, Strict
<1>3. CASE ~Enabled /\ ~Locked(obj.cur.meta, bypass)
  BY <1>0, <1>3, RemoveFilesLeaves DEF DeleteOutcomes
<1> QED
  BY <1>1, <1>2, <1>3

\* The steps of requests leave the list of the pass alone.
LEMMA RequestKeepsPass ==
    ASSUME TypeOK, ObjectStep, ~Fault
    PROVE  lc' = lc
<1>0. obj \in Object /\ nvid \in 0..MaxVid /\ MaxVid \in Nat /\ pend \subseteq 0..MaxVid
      /\ 0 \in 0..nvid
  BY FilesAssumption DEF TypeOK
<1>1. ASSUME NEW mode \in HeaderModes, NEW hold \in HeaderHolds, NEW bad \in BOOLEAN,
             PutObject(mode, hold, bad)
      PROVE  lc' = lc
  <2>1. PICK r \in PutOutcomes(mode, hold) :
          Leave(r, IF bad /\ r.how = "ok" THEN pend \cup {NewVid} ELSE pend, lc)
    BY <1>1 DEF PutObject
  <2>2. Flags(r)
    BY <1>1, PutReplaces DEF PutObject, Replaces, Strict
  <2> QED
    BY <2>1, <2>2, LeaveQuiet
<1>2. ASSUME NEW bypass \in BOOLEAN, DeleteObjectVersioned(bypass)
      PROVE  lc' = lc
  BY <1>2, DeleteFlags, LeaveQuiet DEF DeleteObjectVersioned
<1>3. ASSUME NEW v \in 1..nvid, NEW bypass \in BOOLEAN, DeleteObjectVersion(v, bypass)
      PROVE  lc' = lc
  <2>1. v \in Vids
    BY <1>0 DEF Vids
  <2> QED
    BY <1>3, <2>1, DeleteVersionLeaves, LeaveQuiet DEF DeleteObjectVersion
<1>4. ASSUME NEW v \in pend, RollbackPut(v)
      PROVE  lc' = lc
  <2>1. PICK r \in (IF bkt.st = "none" THEN Refused(obj)
                    ELSE IF v = 0 THEN DeletePlain ELSE DeleteVersion(v, FALSE)) :
                Leave(r, pend \ {v}, lc)
    BY <1>4 DEF RollbackPut
  <2>2. v # 0 => v \in Vids
    BY <1>0 DEF Vids
  <2>3. CASE bkt.st = "none"
    BY <1>0, <2>1, <2>3, DoneIs, LeaveQuiet DEF Strict
  <2>4. CASE bkt.st # "none" /\ v = 0
    BY <2>1, <2>4, DeletePlainLeaves, LeaveQuiet
  <2>5. CASE bkt.st # "none" /\ v # 0
    BY <2>1, <2>2, <2>5, DeleteVersionLeaves, LeaveQuiet
  <2> QED
    BY <2>3, <2>4, <2>5
<1>5. ASSUME NEW v \in 0..nvid, NEW mode \in LockModes, PutObjectRetention(v, mode)
      PROVE  lc' = lc
  BY <1>5, RewriteKeepsPass DEF PutObjectRetention, Update
<1>6. ASSUME NEW v \in 0..nvid, NEW on \in BOOLEAN, PutObjectLegalHold(v, on)
      PROVE  lc' = lc
  BY <1>6, RewriteKeepsPass DEF PutObjectLegalHold, Update
<1>7. ASSUME NEW v \in 0..nvid, SetMetaField(v)
      PROVE  lc' = lc
  BY <1>7, RewriteKeepsPass DEF SetMetaField
<1>8. ASSUME NEW v \in 0..nvid, NEW mode \in HeaderModes, NEW hold \in HeaderHolds,
             CopyObject(v, mode, hold) \/ CopyFromElsewhere(mode, hold)
      PROVE  lc' = lc
  <2>1. PICK r : Replaces(r) /\ Leave(r, pend, lc)
    BY <1>8, CopyLeaves DEF CopyStep
  <2>2. Flags(r)
    BY <2>1 DEF Replaces, Strict
  <2> QED
    BY <2>1, <2>2, LeaveQuiet
<1> QED
  BY <1>0, <1>1, <1>2, <1>3, <1>4, <1>5, <1>6, <1>7, <1>8 DEF ObjectStep

LEMMA CompleteKeepsPass ==
    ASSUME TypeOK, NEW u \in Uploads, NEW S \in SUBSET Parts, CompleteMultipartUpload(u, S), ~Fault
    PROVE  lc' = lc
<1>1. mpu[u] \in Upload /\ mpu[u].mode \in Modes
  BY DEF TypeOK, Upload
<1>2. PICK mode \in {mpu[u].mode, "none"} : \E r \in AssembleOutcomes(u, S, mode) :
          \/ r.how # "ok" /\ Leave(r, pend, lc) /\ UNCHANGED mpu
          \/ /\ r.how = "ok"
             /\ \E q \in RemoveUploadDir(mpu[u]) :
                   /\ Leave([obj |-> r.obj, how |-> q.how, clean |-> q.clean], pend, lc)
                   /\ mpu' = [mpu EXCEPT ![u] = q.up]
  BY DEF CompleteMultipartUpload
<1>3. PICK r \in AssembleOutcomes(u, S, mode) :
          \/ r.how # "ok" /\ Leave(r, pend, lc) /\ UNCHANGED mpu
          \/ /\ r.how = "ok"
             /\ \E q \in RemoveUploadDir(mpu[u]) :
                   /\ Leave([obj |-> r.obj, how |-> q.how, clean |-> q.clean], pend, lc)
                   /\ mpu' = [mpu EXCEPT ![u] = q.up]
  BY <1>2
<1>4. mode \in Modes /\ RoomForWrite
  BY <1>1 DEF Modes, CompleteMultipartUpload
<1>5. Flags(r)
  BY <1>4, AssembleReplaces DEF Replaces, Strict
<1>6. CASE r.how # "ok"
  BY <1>3, <1>5, <1>6, LeaveQuiet
<1>7. CASE r.how = "ok"
  <2>1. PICK q \in RemoveUploadDir(mpu[u]) :
               Leave([obj |-> r.obj, how |-> q.how, clean |-> q.clean], pend, lc)
    BY <1>3, <1>7
  <2>2. UFlags(q)
    BY <1>1, RemoveUploadDirLeaves
  <2> DEFINE s == [obj |-> r.obj, how |-> q.how, clean |-> q.clean]
  <2>3. s.clean \in BOOLEAN /\ (s.how = "killed" => ~s.clean) /\ Ended(s, pend, rej, lc)
    BY <2>1, <2>2 DEF UFlags, Leave
  <2> HIDE DEF s
  <2> QED
    BY <2>3, EndedQuiet
<1> QED
  BY <1>6, <1>7

\* What the pass takes off its list of noncurrent versions is an archived version, or
\* nothing.
LEMMA ListedSparesCurrent ==
    ASSUME ObjectsInv, hurts = 0, ~Fault, NEW i \in lc.todo, ActOnListed(i), i.op = "noncurrent"
    PROVE  obj'.cur = obj.cur
<1>0. TypeOK /\ obj \in Object /\ i \in Job
  BY DEF ObjectsInv, TypeOK, Pass
<1>1. CASE DropListed(i)
  BY <1>1 DEF DropListed
<1>2. CASE DeleteListed(i)
  <2>1. PICK r \in (IF i.id = 0 THEN Refused(obj) ELSE DeleteVersion(i.id, FALSE)) :
             Leave(r, pend, PassRest(i))
    BY <1>2 DEF DeleteListed
  <2>2. CASE i.id = 0
    BY <1>0, <2>1, <2>2, DoneIs DEF Leave
  <2>3. CASE i.id # 0
    <3>1. i.id \in Vids /\ ~IsCurrent(obj, i.id)
      <4>1. i.id \in 0..MaxVid
        BY <1>0 DEF Job
      <4>2. i.id \in Vids
        BY <2>3, <4>1, FilesAssumption DEF Vids
      <4> QED
        BY <2>3, <4>2 DEF ObjectsInv, Passed
    <3>2. r \in Refused(obj) \/ r \in RemoveArchived(obj, i.id)
      BY <2>1, <2>3, <3>1 DEF DeleteVersion
    <3>3. r.obj.cur = obj.cur
      <4>1. CASE r \in Refused(obj)
        BY <1>0, <4>1, DoneIs
      <4>2. CASE r \in RemoveArchived(obj, i.id)
        <5>1. Touched(obj, r.obj, i.id, r.clean, TRUE)
          BY <1>0, <3>1, <4>2, RemoveArchivedLeaves
        <5> QED
          BY <2>3, <3>1, <5>1 DEF Touched
      <4> QED
        BY <3>2, <4>1, <4>2
    <3> QED
      BY <2>1, <3>3 DEF Leave
  <2> QED
    BY <2>2, <2>3
<1> QED
  BY <1>1, <1>2 DEF ActOnListed, ExpireObject, ExpireVersioned, AbortListed

\* As long as no operation has failed half way, enforceNoncurrentExpiration never deletes the
\* current version, whatever was written since its list was taken: the version IDs on the list
\* are never current again.
THEOREM NoncurrentLeavesCurrent == Spec => NoncurrentSparesCurrent
<1>1. ObjectsInv /\ [Next]_vars
         => \A j \in lc.todo \ lc'.todo :
               j.op = "noncurrent" /\ hurts' = 0 => obj'.cur = obj.cur
  <2> SUFFICES ASSUME ObjectsInv, [Next]_vars, NEW j \in lc.todo \ lc'.todo,
                      j.op = "noncurrent", hurts' = 0
               PROVE  obj'.cur = obj.cur
    OBVIOUS
  <2>0. TypeOK /\ lc \in Pass
    BY DEF ObjectsInv, TypeOK
  <2>1. hurts = 0 /\ ~Fault
    BY <2>0, NoFaultYet
  <2>2. CASE BucketStep
    BY <2>2 DEF BucketStep, CreateBucket, DeleteBucket, PutBucketVersioning, PutBucketObjectLock,
                WriteBucketMeta, ChangeBucket
  <2>3. CASE ObjectStep
    BY <2>0, <2>1, <2>3, RequestKeepsPass
  <2>4. CASE UploadStep
    <3>1. CASE \E u \in Uploads, S \in SUBSET Parts : CompleteMultipartUpload(u, S)
      BY <2>0, <2>1, <3>1, CompleteKeepsPass
    <3>2. CASE ~\E u \in Uploads, S \in SUBSET Parts : CompleteMultipartUpload(u, S)
      BY <2>4, <3>2 DEF UploadStep, CreateMultipartUpload, UploadPart, UploadPartCopy,
              RollbackPart, AbortMultipartUpload, Abort, LeaveUpload
    <3> QED
      BY <3>1, <3>2
  <2>5. CASE \E i \in lc.todo : ActOnListed(i)
    <3>1. PICK i \in lc.todo : ActOnListed(i)
      BY <2>5
    <3>2. CASE i = j
      BY <2>1, <3>1, <3>2, ListedSparesCurrent
    <3>3. CASE i # j
      <4>1. lc.todo \ PassRest(i).todo = {i}
        BY <2>0, PassRestDrops
      <4>2. lc' # PassRest(i)
        BY <3>3, <4>1
      <4>3. CASE DropListed(i) \/ AbortListed(i)
        BY <4>3 DEF DropListed, AbortListed, Abort, LeaveUpload
      <4>4. CASE bkt.st # "none" /\ UNCHANGED bkt
                 /\ (ExpireObject(i) \/ ExpireVersioned(i) \/ DeleteListed(i))
        <5>0. obj \in Object /\ (i.op # "abort" /\ i.id # 0 => i.id \in Vids)
          <6>1. i \in Job /\ obj \in Object
            BY <2>0 DEF TypeOK, Pass
          <6>2. i.op # "abort" => i.id \in 0..MaxVid
            BY <6>1 DEF Job
          <6> QED
            BY <6>1, <6>2, FilesAssumption DEF Vids
        <5>1. CASE ExpireObject(i)
          BY <2>0, <2>1, <4>2, <5>1, DeletePlainLeaves, LeaveQuiet DEF ExpireObject
        <5>2. CASE ExpireVersioned(i)
          <6>1. PICK r \in (IF bkt.st = "torn" THEN Refused(obj) ELSE DeleteOutcomes(FALSE)) :
                     Leave(r, pend, PassRest(i))
            BY <5>2 DEF ExpireVersioned
          <6>2. Flags(r)
            BY <2>0, <5>0, <5>2, <6>1, DoneIs, DeleteFlags DEF ExpireVersioned, Strict
          <6> QED
            BY <2>0, <2>1, <4>2, <6>1, <6>2, LeaveQuiet
        <5>3. CASE DeleteListed(i)
          <6>1. PICK r \in (IF i.id = 0 THEN Refused(obj) ELSE DeleteVersion(i.id, FALSE)) :
                     Leave(r, pend, PassRest(i))
            BY <5>3 DEF DeleteListed
          <6>2. i.id # 0 => i.id \in Vids
            BY <5>0, <5>3 DEF DeleteListed
          <6>3. Flags(r)
            <7>1. CASE i.id = 0
              BY <5>0, <6>1, <7>1, DoneIs DEF Strict
            <7>2. CASE i.id # 0
              BY <2>0, <6>1, <6>2, <7>2, DeleteVersionLeaves
            <7> QED
              BY <7>1, <7>2
          <6> QED
            BY <2>0, <2>1, <4>2, <6>1, <6>3, LeaveQuiet
        <5> QED
          BY <4>4, <5>1, <5>2, <5>3
      <4> QED
        BY <3>1, <4>3, <4>4 DEF ActOnListed
    <3> QED
      BY <3>2, <3>3
  <2>6. CASE LifecycleStep /\ ~\E i \in lc.todo : ActOnListed(i)
    BY <2>6 DEF LifecycleStep, StartExpiration, ReadVersioning, ListForExpiration,
          ListNoncurrent, ListLoneMarker, ListIncomplete, TakeUp
  <2>7. CASE (\E v \in 0..MaxVid : Lapse(v)) \/ Restart \/ UNCHANGED vars
    BY <2>7 DEF Lapse, Restart, vars
  <2> QED
    BY <2>2, <2>3, <2>4, <2>5, <2>6, <2>7 DEF Next
<1> QED
  BY <1>1, ObjectsInvHolds, PTL DEF Spec, NoncurrentSparesCurrent

\* As long as no operation has failed half way, the rollback of a PUT whose digest was wrong
\* leaves nothing to read under its version ID, wherever the version has been filed since,
\* unless the version is locked.
THEOREM RejectedUploadsGo == Spec => RejectedUploadIsGone
<1>1. ObjectsInv /\ [Next]_vars
         => \A v \in (pend \ pend') \ {0} :
               RollbackPut(v) /\ hurts' = 0 =>
                  \/ GetObjectVersion(obj', v) = Absent
                  \/ Locked(Resolve(obj, v).meta, FALSE)
  <2> SUFFICES ASSUME ObjectsInv, [Next]_vars, NEW v \in (pend \ pend') \ {0},
                      RollbackPut(v), hurts' = 0, ~Locked(Resolve(obj, v).meta, FALSE)
               PROVE  GetObjectVersion(obj', v) = Absent
    OBVIOUS
  <2>0. TypeOK /\ obj \in Object /\ v \in Vids
    <3>1. TypeOK /\ obj \in Object /\ v \in 0..MaxVid /\ v # 0
      BY DEF ObjectsInv, TypeOK
    <3> QED
      BY <3>1, FilesAssumption DEF Vids
  <2>1. hurts = 0 /\ ~Fault
    BY <2>0, NoFaultYet
  <2>2. PICK r \in (IF bkt.st = "none" THEN Refused(obj) ELSE DeleteVersion(v, FALSE)) :
                Leave(r, pend \ {v}, lc)
    BY DEF RollbackPut
  <2>3. CASE bkt.st = "none"
    <3>1. obj' = NoObject
      BY <2>0, <2>2, <2>3, DoneIs DEF Leave, ObjectsInv, Emptied
    <3> QED
      BY <2>0, <3>1 DEF NoObject, NoFiles, NoMeta, GetObjectVersion, Resolve, IsCurrent
  <2>4. CASE bkt.st # "none"
    <3>1. Flags(r) /\ r \in DeleteVersion(v, FALSE)
      BY <2>0, <2>2, <2>4, DeleteVersionLeaves
    <3>2. obj' = r.obj /\ r.clean
      BY <2>0, <2>1, <2>2, <3>1, LeaveQuiet
    <3>3. CASE Resolve(obj, v).meta.st # "ok"
      <4>1. obj' = obj
        BY <2>0, <3>1, <3>2, <3>3, DoneIs DEF DeleteVersion
      <4> QED
        BY <3>3, <4>1 DEF GetObjectVersion
    <3>4. CASE Resolve(obj, v).meta.st = "ok" /\ ~IsCurrent(obj, v)
      <4>1. r \in RemoveArchived(obj, v)
        BY <3>1, <3>4 DEF DeleteVersion
      <4>2. Touched(obj, r.obj, v, r.clean, TRUE) /\ r.obj.arch[v] = NoFiles
        BY <2>0, <3>2, <3>4, <4>1, RemoveArchivedLeaves
      <4>3. obj'.cur = obj.cur
        BY <3>2, <3>4, <4>2 DEF Touched
      <4>4. Resolve(obj', v) = NoFiles
        BY <3>2, <3>4, <4>2, <4>3 DEF Resolve, IsCurrent
      <4> QED
        BY <4>4 DEF GetObjectVersion, NoFiles, NoMeta
    <3>5. CASE Resolve(obj, v).meta.st = "ok" /\ IsCurrent(obj, v)
      <4>1. r \in RemoveFiles(obj)
        BY <3>1, <3>5 DEF DeleteVersion
      <4>2. obj.cur.body # Absent
        <5>1. obj.cur.meta.st = "ok" /\ Whole(obj)
          BY <2>1, <3>5 DEF IsCurrent, ObjectsInv, Undamaged
        <5> QED
          BY <5>1 DEF Whole, Slots
      <4>3. Touched(obj, r.obj, 0, r.clean, TRUE) /\ r.obj.cur = NoFiles
        BY <2>0, <3>2, <4>1, <4>2, RemoveFilesLeaves
      <4>4. obj'.arch = obj.arch /\ obj'.cur = NoFiles
        BY <3>2, <4>3 DEF Touched
      <4>5. obj.arch[v].meta.st # "ok"
        BY <2>0, <2>1, <3>5 DEF ObjectsInv, Undamaged, Apart, IsCurrent
      <4>6. Resolve(obj', v) = obj.arch[v]
        BY <4>4 DEF Resolve, IsCurrent, NoFiles, NoMeta
      <4> QED
        BY <4>5, <4>6 DEF GetObjectVersion
    <3> QED
      BY <3>3, <3>4, <3>5
  <2> QED
    BY <2>3, <2>4
<1> QED
  BY <1>1, ObjectsInvHolds, PTL DEF Spec, RejectedUploadIsGone
=============================================================================
