------------------------------- MODULE S3Files -------------------------------
(***************************************************************************)
(* The files of one S3 key: internal/s3/storage.go.                        *)
(*                                                                         *)
(* A key has a current body and a current .meta.json, and the same two     *)
(* files below .ver/<key>/<versionID> for every archived version.  Every   *)
(* file is truncated and written again in place.  The storage operations   *)
(* hold s.mu, so that one operation is one step; what can end it half way  *)
(* is a client that stops sending ("client"), an I/O error ("disk") or the *)
(* end of the process ("kill").                                            *)
(*                                                                         *)
(* LastModified is the number of the write, and a body is named by the     *)
(* write that sent it: no two have the same.  Retention has no end date;   *)
(* that it has run out is a step of its own (Lapse).  Tags, user metadata, *)
(* encryption and storage class are not kept: no decision here depends on  *)
(* them.                                                                   *)
(*                                                                         *)
(* An operation is the set of its possible outcomes: the files it leaves,  *)
(* how it ended, and whether everything it tried to do to a file worked.   *)
(***************************************************************************)
EXTENDS Integers, FiniteSets

CONSTANTS
    MaxWrites,  \* bound on the number of writes
    MaxVid,     \* bound on the version IDs that newVersionID hands out
    Faults      \* what may go wrong: "client", "disk", "kill"

ASSUME FilesAssumption ==
    /\ MaxWrites \in Nat
    /\ MaxVid \in Nat
    /\ Faults \subseteq {"client", "disk", "kill"}

Data == 1..MaxWrites
Absent == 0   \* no such file
Cut == -1     \* a body that was only partly written
Blank == -2   \* an empty body, which every delete marker has

Vids == 1..MaxVid
Body == Data \cup {Absent, Cut, Blank}
Modes == {"none", "GOVERNANCE", "COMPLIANCE"}

\* ObjectMetadata.  vid 0 is the empty VersionID; mode is the retention that is in force.
Meta == [st : {"absent", "torn", "ok"}, vid : 0..MaxVid, marker : BOOLEAN,
         etag : Data \cup {Absent}, mod : 0..MaxWrites, noncurrent : BOOLEAN,
         mode : Modes, hold : BOOLEAN]
Slot == [body : Body, meta : Meta]
Object == [cur : Slot, arch : [Vids -> Slot]]

NoMeta == [st |-> "absent", vid |-> 0, marker |-> FALSE, etag |-> Absent, mod |-> 0,
           noncurrent |-> FALSE, mode |-> "none", hold |-> FALSE]
TornMeta == [NoMeta EXCEPT !.st = "torn"]
NoFiles == [body |-> Absent, meta |-> NoMeta]
NoObject == [cur |-> NoFiles, arch |-> [v \in Vids |-> NoFiles]]

Outcome == [obj : Object, how : {"ok", "error", "killed"}, clean : BOOLEAN]

Done(o) == {[obj |-> o, how |-> "ok", clean |-> TRUE]}
Refused(o) == {[obj |-> o, how |-> "error", clean |-> TRUE]}

\* What is left, O a set of objects, when fault f cuts an operation short after it has
\* changed a file.  Before that a failing operation changes nothing.
Spoilt(f, O) ==
    {[obj |-> o, how |-> IF f = "kill" THEN "killed" ELSE "error", clean |-> FALSE] :
        o \in IF f \in Faults THEN O ELSE {}}

-----------------------------------------------------------------------------
(* What the readers see. *)

\* The slot that version v is read from: the current files first, then .ver.
IsCurrent(o, v) == o.cur.meta.st = "ok" /\ o.cur.meta.vid = v
Resolve(o, v) == IF IsCurrent(o, v) THEN o.cur ELSE o.arch[v]

\* GetObjectVersion: the body it returns, or Absent for its errors.
GetObjectVersion(o, v) ==
    LET s == Resolve(o, v)
    IN  IF s.meta.st = "ok" /\ ~s.meta.marker THEN s.body ELSE Absent

\* The entries of ListObjectVersions: bodies whose metadata can be read.
Listed(s) == s.body # Absent /\ s.meta.st = "ok"
Entries(o) ==
    {m \in {o.cur.meta} \cup {o.arch[v].meta : v \in Vids} :
        \/ m = o.cur.meta /\ Listed(o.cur)
        \/ \E v \in Vids : m = o.arch[v].meta /\ Listed(o.arch[v])}

\* The entry that sorts first by LastModified is the one with IsLatest.  An archived copy
\* with the LastModified of the current file comes after it: slices.SortFunc sorts so few
\* entries by insertion.
IsLatest(o, m) ==
    /\ \A e \in Entries(o) : e.mod <= m.mod
    /\ Listed(o.cur) /\ o.cur.meta.mod = m.mod => m = o.cur.meta

\* checkObjectLockLocked: unreadable metadata protects nothing.
Locked(m, bypass) ==
    /\ m.st = "ok"
    /\ m.hold \/ m.mode = "COMPLIANCE" \/ (m.mode = "GOVERNANCE" /\ ~bypass)

-----------------------------------------------------------------------------
(* The operations that every handler is built from. *)

\* Mutant of ArchiveVid: every archived object is given a new version ID.
ArchiveVidFresh(o, fresh) == fresh

\* The version ID an archived object is filed under.
ArchiveVid(o, fresh) == IF o.cur.meta.vid = 0 THEN fresh ELSE o.cur.meta.vid

HasCurrent(o) == o.cur.meta.st = "ok" /\ o.cur.body # Absent

\* archiveCurrentVersionLocked.  A failing copy removes the archived body; so does a failing
\* metadata write, which leaves the old, a torn or, when the file cannot be closed, the new
\* metadata; a failing tag write removes both.
Archive(o, fresh) ==
    LET id == ArchiveVid(o, fresh)
        old == o.arch[id]
        new == [body |-> o.cur.body,
                meta |-> [o.cur.meta EXCEPT !.vid = id, !.noncurrent = TRUE]]
        Put(s) == [o EXCEPT !.arch[id] = s]
    IN  IF o.cur.meta.st = "torn" THEN Refused(o)
        ELSE IF ~HasCurrent(o) THEN Done(o)
        ELSE Done(Put(new))
             \cup Spoilt("disk", {Put([old EXCEPT !.body = Absent]),
                                  Put([old EXCEPT !.body = Absent, !.meta = TornMeta]),
                                  Put([old EXCEPT !.body = Absent, !.meta = new.meta]),
                                  Put(NoFiles)})
             \cup Spoilt("kill", {Put([old EXCEPT !.body = Cut]),
                                  Put([old EXCEPT !.body = new.body]),
                                  Put([old EXCEPT !.body = new.body, !.meta = TornMeta]),
                                  Put(new)})

\* writeObject: truncate and fill the body, then replace the metadata; when that fails, be
\* it as the complete file is closed, the body is removed.  The body is closed last, and an
\* error then removes nothing.
WriteObject(o, body, m, fromClient) ==
    LET Cur(b, n) == [o EXCEPT !.cur.body = b, !.cur.meta = n]
        old == o.cur.meta
    IN  Done(Cur(body, m))
        \cup (IF fromClient THEN Spoilt("client", {Cur(Cut, old)}) ELSE {})
        \cup Spoilt("disk", {Cur(Cut, old), Cur(Absent, old), Cur(Absent, TornMeta),
                             Cur(Absent, m), Cur(body, m)})
        \cup Spoilt("kill", {Cur(Cut, old), Cur(body, old), Cur(body, TornMeta)})

\* The delete marker of DeleteObjectVersioned.
WriteMarker(o, m) ==
    LET Cur(b, n) == [o EXCEPT !.cur.body = b, !.cur.meta = n]
        old == o.cur.meta
    IN  Done(Cur(Blank, m))
        \cup Spoilt("disk", {Cur(Blank, old), Cur(Absent, old), Cur(Absent, TornMeta),
                             Cur(Absent, m)})
        \cup Spoilt("kill", {Cur(Blank, old), Cur(Blank, TornMeta)})

\* applyTagsLocked for an object just written: when it fails the object is removed.
Tagged(o) ==
    Done(o)
    \cup Spoilt("disk", {[o EXCEPT !.cur = NoFiles]})
    \cup Spoilt("kill", {o})

\* deleteObjectFilesLocked: without a body nothing is removed; when the metadata cannot
\* be removed the request succeeds all the same.
RemoveFiles(o) ==
    LET left == {[o EXCEPT !.cur.body = Absent]}
    IN  IF o.cur.body = Absent THEN Refused(o)
        ELSE Done([o EXCEPT !.cur = NoFiles])
             \cup {[r EXCEPT !.how = "ok"] : r \in Spoilt("disk", left)}
             \cup Spoilt("kill", left)

\* The same for the files of an archived version, in DeleteObjectVersion.
RemoveArchived(o, v) ==
    LET left == {[o EXCEPT !.arch[v].body = Absent]}
    IN  Done([o EXCEPT !.arch[v] = NoFiles])
        \cup {[r EXCEPT !.how = "ok"] : r \in Spoilt("disk", left)}
        \cup Spoilt("kill", left)

\* writeMeta of version v, or of the current version when v is 0.  An error as the file is
\* closed leaves what success leaves.
Rewrite(o, v, m) ==
    LET Put(n) == IF v = 0 \/ IsCurrent(o, v) THEN [o EXCEPT !.cur.meta = n]
                  ELSE [o EXCEPT !.arch[v].meta = n]
    IN  Done(Put(m)) \cup Spoilt("disk", {Put(TornMeta)}) \cup Spoilt("kill", {Put(TornMeta)})

\* One operation after another: the second runs only if the first succeeded.
Then(R, Next(_)) ==
    {r \in R : r.how # "ok"}
    \cup UNION {{[s EXCEPT !.clean = @ /\ r.clean] : s \in Next(r.obj)} :
                    r \in {q \in R : q.how = "ok"}}
=============================================================================
