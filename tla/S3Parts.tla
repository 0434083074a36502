------------------------------- MODULE S3Parts -------------------------------
(***************************************************************************)
(* The files of one multipart upload: .mpu/<uploadID> of                   *)
(* internal/s3/storage.go.                                                 *)
(*                                                                         *)
(* upload.json holds what CreateMultipartUpload was asked for, every part  *)
(* has a body and a .part.meta.json with its ETag.  A body and its ETag are *)
(* named by the write that sent the part, as in S3Files.  Sizes are not    *)
(* kept: a list of parts that are too small is refused and changes nothing. *)
(*                                                                         *)
(* An operation is the set of its outcomes, as in S3Files: the upload it   *)
(* leaves, how it ended, and whether every step of it worked.              *)
(***************************************************************************)
EXTENDS S3Files

CONSTANTS
    MaxUploads,   \* bound on the upload IDs; randRead gives out no ID twice
    MaxParts      \* the part numbers are 1..MaxParts

ASSUME PartsAssumption ==
    /\ MaxUploads \in Nat
    /\ MaxParts \in Nat

Uploads == 1..MaxUploads
Parts == 1..MaxParts

\* Unreadable .part.meta.json.
Unreadable == -1

Part == [body : Data \cup {Absent, Cut}, etag : Data \cup {Absent, Unreadable}]
NoPart == [body |-> Absent, etag |-> Absent]

\* st: is there an upload.json, and can it be read?  An upload of which it is gone is
\* found by no operation, whatever else is left in its directory.
Upload == [st : {"new", "open", "torn", "gone"}, mode : Modes, hold : BOOLEAN,
           part : [Parts -> Part]]
NewUpload == [st |-> "new", mode |-> "none", hold |-> FALSE, part |-> [p \in Parts |-> NoPart]]
GoneUpload == [NewUpload EXCEPT !.st = "gone"]

UDone(u) == {[up |-> u, how |-> "ok", clean |-> TRUE]}
USpoilt(f, U) ==
    {[up |-> u, how |-> IF f = "kill" THEN "killed" ELSE "error", clean |-> FALSE] :
        u \in IF f \in Faults THEN U ELSE {}}

\* CreateMultipartUpload.  After an error the directory is removed again.
OpenUpload(mode, hold) ==
    LET u == [NewUpload EXCEPT !.st = "open", !.mode = mode, !.hold = hold]
    IN  UDone(u)
        \cup USpoilt("disk", {GoneUpload})
        \cup USpoilt("kill", {GoneUpload, [NewUpload EXCEPT !.st = "torn"], u})

\* UploadPart and UploadPartCopy: truncate and fill the body, then replace the metadata.
\* What fails is not cleaned up, so that a body may be left with the ETag of the one before.
WritePart(u, p, w, fromClient) ==
    LET Put(b, e) == [u EXCEPT !.part[p] = [body |-> b, etag |-> e]]
        old == u.part[p].etag
        short == {Put(Cut, old), Put(w, old), Put(w, Unreadable)}
    IN  UDone(Put(w, w))
        \cup (IF fromClient THEN USpoilt("client", {Put(Cut, old)}) ELSE {})
        \cup USpoilt("disk", short)
        \cup USpoilt("kill", short)

\* DeletePart: the metadata first, and the body even if that failed.  It does not ask
\* whether the upload is still there.
RemovePart(u, p) ==
    LET Put(b, e) == [u EXCEPT !.part[p] = [body |-> b, etag |-> e]]
    IN  UDone([u EXCEPT !.part[p] = NoPart])
        \cup USpoilt("disk", {Put(Absent, u.part[p].etag), Put(u.part[p].body, Absent)})
        \cup USpoilt("kill", {Put(u.part[p].body, Absent)})

\* removeUploadDir removes the files in the order in which the directory lists them: until
\* upload.json is among them the upload stays, with any of its other files missing.
Remains(u) ==
    LET Left(B, E) == [p \in Parts |-> [body |-> IF p \in B THEN Absent ELSE u.part[p].body,
                                        etag |-> IF p \in E THEN Absent ELSE u.part[p].etag]]
    IN  {[u EXCEPT !.part = Left(B, E)] : B \in SUBSET Parts, E \in SUBSET Parts}
RemoveUploadDir(u) ==
    UDone(GoneUpload)
    \cup USpoilt("disk", Remains(u) \cup {GoneUpload})
    \cup USpoilt("kill", Remains(u) \cup {GoneUpload})

\* The parts that CompleteMultipartUpload may be given: their ETag can be compared with the
\* one in the request, and their body can be opened.
Usable(u) == {p \in Parts : u.part[p].etag \in Data /\ u.part[p].body # Absent}

\* Are the bodies of the parts S the ones that their ETags name?
Genuine(u, S) == \A p \in S : u.part[p].body = u.part[p].etag
==============================================================================
