# kumolo: TLA+ models

kumolo emulates AWS services in one Go process: an HTTP server dispatches each
request to S3, DynamoDB (with DynamoDB Streams), KMS, Cognito or STS. Every
service keeps its state in JSON files under a data directory, behind one
`sync.RWMutex` per service; there is no log and no transaction below the file
system, so what a request leaves behind when a call fails or the process ends is
decided by the order of its file operations.

This directory holds models of that code for TLC and proofs for TLAPS.
`PROJECT.json` lists the runs, the source lines of every definition, the
mutations each property was tested against, the hazards and the theorems.

## Inventory

| Component | State | Operations | What is hard |
|---|---|---|---|
| DynamoDB streams, storage (`storage_streams.go`, `storage_table.go`, `storage.go`) | metadata file per table, stream buffer and JSONL file per streamed table, `seqNum`, `streams` map | CreateTable, UpdateTable, DeleteTable, emit, trim, load | trim goroutine outside `s.mu`; deletion in three unlocked steps; restart; failing append, rewrite, remove |
| DynamoDB streams, readers (`handler_streams.go`) | none on the server: an iterator is a token (table, position) | ListStreams, DescribeStream, GetShardIterator, GetRecords | positions outlive trims, restarts and the stream itself |
| DynamoDB items (`storage_item.go`, `storage_transaction.go`) | one JSON file per item | PutItem, UpdateItem, DeleteItem, BatchWriteItem, TransactWriteItems | `writeJSON` truncates first; rollback from memory; kill between two writes; stream records and files must agree |
| DynamoDB reads (`storage_query.go`) | cursor held by the client | Scan, parallel Scan, Query, ListTables, ListStreams | pages computed from data that changes between them; ties; deleted cursors |
| DynamoDB metadata (`handler_table.go`, `handler_tag.go`, `handler_backup.go`) | metadata file | tags, TTL, backups, Kinesis destinations, index changes | read-modify-write of one file, truncated first |
| DynamoDB expressions, PartiQL | none | parse, evaluate | languages |
| S3 objects and versions (`s3/storage.go`) | data file, metadata, tags, archived versions, bucket configuration | Put, Copy, Delete, DeleteVersion, versioning, tagging | archive-then-write, delete markers, several files per object |
| S3 object lock | retention, legal hold | PutObjectRetention, PutObjectLegalHold, default retention | which deletions and overwrites are refused |
| S3 multipart | `.mpu` directory | Create, UploadPart, Complete, Abort | complete against abort and against parts still arriving |
| S3 lifecycle, replication | background goroutine; per-request goroutine | expire, abort uploads; copy | lists and objects that are stale when acted on |
| KMS (`kms/storage.go`, `handler*.go`) | a directory of JSON files per key, a file per alias and per grant, nothing in memory | create, enable, disable, schedule and cancel deletion, rotate, tag, policy, alias, grant; encrypt, decrypt, re-encrypt, sign, verify | requests of several operations, each under its own lock; rotation in three writes; old ciphertexts after rotation |
| Cognito (`cognito/storage*.go`, `handler*.go`, `srp.go`, `jwt.go`) | a directory per pool: `meta.json`, `keys.json`, a file per client, user, refresh token, revoked origin, group and membership, indexes of clients and of users by folded name; a session of a challenge is a signed token held by the client | sign-up, confirm, passwords, attributes, sign-in by password and by SRP, three challenges, MFA, refresh, revoke, sign-out, disable, groups, clients, keys, pool | requests of up to six operations, each under its own lock, and challenges that span requests; users found by sub and changed by name; deletions of many files; a refresh against a revocation, a sign-in against a sign-out |
| STS | none | AssumeRole, GetCallerIdentity | stateless |
| Server, configuration | the four storages | dispatch, shutdown | order of closing |

Interactions: the server calls the storages; item writes call the stream
storage under `s.mu`; the trim goroutine and the stream readers share buffers
with it through `streamsMu` and `buf.mu`; S3 calls KMS through an adapter.

What makes the components correct:

* streams: sequence numbers grow; a consumer sees each record once and in
  order; what a restart shows was there before it; a stream that is gone
  stays gone; expired records go away;
* items: a transaction is all or nothing; the stream tells exactly what is on
  disk;
* reads: paging returns every item that stayed, once, and ends;
* S3: a locked version is never lost; versions appear and disappear only by
  request; a failed request changes nothing that can be read;
* KMS: every ciphertext of a key can be decrypted once the key is enabled, whatever
  was rotated and whatever failed; a key that is pending deletion does not change; an
  alias keeps naming keys of one kind;
* Cognito: tokens only after all challenges, and none for a disabled user; a session
  that was ended is dead; a token names one user and verifies; a pool that is deleted is
  gone.

## Modules

| Module | Contents |
|---|---|
| `DynamoStreams` | stream storage, trim goroutine, table operations, kill and restart |
| `DynamoStreamConsumers` | iterators and GetRecords, composed with `DynamoStreams` by EXTENDS |
| `DynamoStreamsProofs` | the theorems about `DynamoStreams` |
| `DynamoStreamConsumersProofs` | the theorems about the readers, on top of those about the storage |
| `DynamoItemActions` | what one write does to one item (pure) |
| `DynamoItems` | single-item writes, batches, transactions, stream records, I/O failures, kill |
| `AtomicItems` | what TransactWriteItems promises; `DynamoItems` is shown to implement it |
| `DynamoItemsProofs` | the theorems about `DynamoItems`, that refinement among them |
| `DynamoPaging` | paginated reads |
| `DynamoPagingProofs` | the theorems about the reads that resume after a unique key |
| `S3Files` | the files of one S3 key: what each operation does to them and what a fault leaves (pure) |
| `S3Parts` | the files of one multipart upload, in the same way (pure) |
| `S3Objects` | a bucket with versioning and object lock: PUT, copies, DELETE, locks, multipart uploads, lifecycle passes, composed from `S3Files` and `S3Parts` by EXTENDS |
| `S3ObjectsProofs` | the theorems about `S3Objects` |
| `KmsStorage` | the files of the KMS and the operations on them, each one step, done or failed |
| `KmsRequests` | the requests, those of several operations step by step, composed with `KmsStorage` by EXTENDS |
| `KmsRequestsProofs` | the theorems about `KmsRequests` |
| `CognitoStorage` | the files of one user pool and the operations on them, each one step, done or failed |
| `CognitoRequests` | the requests, those of several operations step by step, composed with `CognitoStorage` by EXTENDS |
| `CognitoStorageProofs` | what every operation of `CognitoStorage` keeps and what it may change |
| `CognitoProofs` | the theorems about `CognitoRequests`, from those lemmas |
| `MCDynamoStreams`, `MCDynamoStreamConsumers`, `MCDynamoItems`, `MCS3Objects`, `MCKmsRequests`, `MCCognitoRequests` | symmetry sets and constants for TLC |

A definition whose comment begins with "Mutant of" is a deliberate bug. It is used
by no specification; it is there so that one can see the property named in
`PROJECT.json` fail.

### DynamoStreams

`meta`, `file`, `streams`, `bufs` and `seqNum` are the fields and files of the
same names. `writer` is what the holder of `s.mu` has still to do after it
released a finer lock: `ensureStreamBuffer`, or the three steps of
`deleteStreamBuffer` (`Unmap`, `MarkDeleted`, `RemoveStreamFile`). `trim` is the
goroutine: it lists the tables (`TrimStart`), takes a pointer (`TrimGet`) and
works on it under `buf.mu` (`TrimApply`). A slice of records is a set, since
records carry their number `n` and no operation reorders them. `Faults` says which
calls may fail; a failed rewrite of a metadata file leaves it unreadable
(`CorruptMeta`), a failed append a partial line (`torn`) that swallows the next
one. `Stop` drops the memory in any state; `Start` is `newStorage`.

### DynamoStreamConsumers

GetShardIterator is two steps because the stream is checked under `s.mu` and the
position computed after its release. `seen` records what a client was given
through one chain of iterators.

### DynamoItems

`items[k]` is a file: absent, a value, or `Corrupt`. A request on one item is one
action, since it holds `s.mu` and makes one write; batches and transactions are
steps, because a kill or a failing call can end them between two. (A kill in a
request on one item is the kill in a batch of one.) `WriteOutcomes` is
`writeJSON`: opened with `O_TRUNC`, written, closed. `req.snaps` is the list
`applied`. `doubt` holds the streamed items of requests cut short by a kill:
their last write has no record, and the properties about the stream resume with
the next one.

An item's content is one document, present with a value or not (`Bare`); the
updates are the removal of the document and an assignment to a path inside it,
which is invalid if it is missing. That is what the properties tell apart: valid,
invalid, and in place.

The records of a transaction are made after all its writes. As in the code, the new image
of a put is the item of the request and that of a delete is none, whatever is on disk by
then; the new image of an update is read back (`TransactEmit`).

`ImplementsAtomicItems` maps the items to `Committed`: while a transaction is
undecided, those that its snapshots would restore.

### DynamoPaging

`val[k]` is the index sort key of item k, 0 if there is no such item; items are
numbered in listing order. The observer fields of a pager (`got`, `twice`,
`steady`, `quiet`) state the properties. The mode `scan` also stands for
ListTables and for an ascending Query of a table, which resume in the same way.
Expiry by TTL is a `Write` of 0. A segment of a parallel scan is every n-th item of the
table as it is at that page, so that with writes in between nothing is promised of a single
item; no run states a property of segments beyond `NothingTwice`.

### S3Files, S3Parts and S3Objects

A key is its current body and `.meta.json`, and the same two files for every
version below `.ver`. A body is the number of the write that sent it, or `Cut` if
only part of it was written; metadata is absent, torn or readable. Every storage
operation holds `s.mu`, so one operation is one step, and is given as the set of
files it can leave: `Done`, or for a fault (`client`, `disk`, `kill`) what is
there at each point where it can stop (`Spoilt`). Closing a file is such a point: a
complete `.meta.json` that fails to close leaves new metadata without a body. `Then`
chains two operations: `PutObject` in a versioned bucket is `Archive`, then
`WriteObject`.

What takes several steps is what the code does under several locks: `pend` are the
uploads whose digest turned out wrong and whose rollback is still to come, `lc` is
the lifecycle enforcer between reading the rules, reading the versioning status,
listing, and acting on each entry of the list. Age is a choice: any listed entry
may be old enough. A retention period ends by `Lapse`, at any time. Version
IDs are random in the code and consecutive numbers here; `LastModified` is the number
of the write, so two writes within one tick of the clock are not modelled.

An upload (`mpu[u]`) has an `upload.json`, with the retention and the legal hold its
object will get, and per part a body and an ETag. `upload.json` decides whether the
upload can be found: `new`, `open`, `torn` or `gone`. `rej` are the parts with a wrong
digest that `handleUploadPart` has still to remove. CompleteMultipartUpload makes the
object and removes the upload's files under one lock, so both are one step; the files
are removed in whatever order the directory lists them, so a fault can leave any of
them (`Remains`). As in the code, no operation on an upload but Create and Complete asks
for the bucket.

A copy has three kinds of source (`Copies`): the key's own current version, which is
the file that is about to be written, an archived version of it, and an object from
elsewhere. The destination of a replication rule sees a copy from elsewhere or a delete
marker, its source sees `SetMetaField`.

Tags, ACLs, user metadata, encryption and storage class are left out; their
writers are `SetMetaField`, because a fault in them tears the metadata, and a copy or a
completed upload whose tags can not be written is removed again (`Tagged`). The bucket
has one key.

What is asked of the bucket beside PUT, DELETE and its configuration is chosen at the start
(`work`, out of `Workloads`): copies, locks, multipart uploads and the actions of lifecycle
rules. A behaviour of one workload is a behaviour of the server; the theorems hold for any
set of workloads, the one with everything included.

### KmsStorage and KmsRequests

Every operation of `Storage` holds `s.mu` from beginning to end and is one action. A
failed `writeJSON` leaves the old content, a torn file or the new content; an operation
of several writes (`CreateKey`, `RotateKeyOnDemand`) leaves what its order of writes
allows (`CreateKeyFailed`, `RotateFailed`). A read of key material may fail at any time:
where it is GetKeyMaterial the request ends with an internal error, where it is
GetPreviousKeyMaterials `tryDecryptWithFallback` drops the error and the answer is
InvalidCiphertextException, which `TestDecrypt_prevMatsStorageError` and
`TestReEncrypt_prevMatsStorageError` (`handler_lifecycle_test.go:1561`) expect. Key material
is a number, and `prev[k]` are the materials that can be read below `materials/`.

A request is one action if it makes one call to the storage. The others are records
in `req`: `load` and `seal` for Encrypt, GenerateDataKey, GenerateDataKeyPair, Sign and
GenerateMac; `open`, `previous` and `destination` for Decrypt, ReEncrypt, Verify and
VerifyMac; `retarget` for UpdateAlias; `policy` for PutKeyPolicy; `ensure`, `create`,
`name` and `again` for `EnsureAwsS3Key`, which S3 reaches through
`ResolveKeyForEncryption`. A request that gives an alias is the request by key ID once
the alias is resolved. CreateKey with tags is CreateKey and then TagResource, as in the
handler; the policy `default` is the one that CreateKey wrote. `out` are the outputs that
were answered and `refused` those that were called invalid, with the cause: nothing fits, or
the previous materials could not be read.

Which requests there are is chosen at the start (`work`): a behaviour of one workload is a
behaviour of the server, and the state spaces of the workloads add up instead of
multiplying. The theorems hold for any set of workloads, the one with everything
included.

### CognitoStorage and CognitoRequests

One pool, since no operation touches two. Every operation of `Storage` holds `s.mu` from
beginning to end and is one action; what a failing one leaves is what its order of writes
and removals allows, up to the eleven stages of `DeleteUserPool`. A file is absent, torn or
readable; the marker of a revoked origin counts whatever it contains. Clients, users,
refresh tokens and keys have random identifiers in the code and are numbered here in the
order they are made, so an identifier is never used twice. A user's name is spelled in
several ways that `strings.ToLower` folds (`Fold`): the index knows the folded name, the
memberships of groups the exact one, and the SRP verifier (`password`) the spelling of the
request that made it. A *family* is a refresh token together with the access tokens that
carry its identifier as `origin_jti`.

A request in flight is a record `req[p]`; its `step` names the operation it is about to
make: `keys`, `complete`, `policy` and `answer` are the stages of a sign-in
(`GetOrCreatePoolKeys`, the two halves of `completeAuth`, `writeAuthResult`), `origins`,
`revoke`, `forget` and `delete` those of a request that ends sessions, and the others are
the last write of a request that has read its user or, for ConfirmSignUp, whether the pool
verifies contacts by itself. Reads that follow each other are one
step, and so are the reads behind a write: they read other files, and a request that misses
one only ends early. What a client holds is `issued` (access tokens) and `sessions` (of
challenges, which are never used up). `cut`, `ended` and `barred` record what requests
have answered: the family they were given and revoked, the sessions they ended, the users
they disabled; `told` are the families for which RevokeToken answered without having found
their refresh token (`handleRevokeTokenUnknown`). `watch` records for a request what has been true of the pool and of users
from its beginning on; it guards nothing.

As for the KMS, the requests of a behaviour are chosen at the start (`work`), together
with the pool and its first user (`Starts`). Left out are requests that are refused or only
read, the expiry of tokens, sessions and codes (from then on they are refused), the
values of attributes but for one contact and its verification, and the passwords
themselves: a request that gives a wrong one is refused.

## Runs

| Run | Shows | Bounds |
|---|---|---|
| `lifecycle` | `SeqOrdered`, `NoResurrection`, `OrphanFileFrozen`, `ExpiredEventuallyTrimmed` with failing open, write and remove calls and restarts | one table, three buffers (the table's, the writer's, the trimmer's), two records, two labels, two view types, clock to 3 with retention 1: a record can expire while another does not, and a stream can be recreated once |
| `reader` | `InOrderOnce`, `ResumeIsExact`, `BufferIsDurable` with failing removes and restarts | the same, one consumer, two reads per iterator; failing appends are excluded because `BufferIsDurable` is about those that succeed |
| `requests` | `ImplementsAtomicItems`, `EndsInPrefix`, `ReplicaIsExact`, `OldImageIsPrevious`, `NoPhantomRecord` with failing open and remove calls and kills | three items, one streamed, transactions of three actions: a failure after two writes, one of which created its item |
| `pages` | `NothingSkipped`, `NothingTwice`, `PagingEnds` | three items, limits 1 and 2, two clients, two segments: a page can end inside, at and after the data |
| `versions` | `VersionsAreKept`, `LockHolds`, `RejectedUploadIsGone`, `NoncurrentSparesCurrent`, `LatestIsCurrent`, `FilesAgree`, `LockNeedsVersioning` with one fault at any file operation | three writes and three version IDs: a version can be archived, archived again after a failed write, and overwritten once more after a list was taken; one PUT or part to be undone at a time. The workloads are copies and locks; locks and lifecycle passes; one multipart upload of two parts, both of which can be sent and completed, or one of them sent again, while a PUT or a completion replaces the object and the enforcer aborts. COMPLIANCE is not among the modes, since it protects exactly like a legal hold. Copies are of archived versions and of objects from elsewhere; the key's current version is copied in `selfcopy` |
| `keys` | `SealedMaterialKept`, `GenuineOpens`, `RotationsAreCounted`, `PendingIsFrozen`, `DefaultKeyStable`, `AliasKeepsKind` with one operation that fails half way, failing reads, and restarts | two keys of two kinds, two requests in flight, two rotations per key, four materials: a key can be rotated twice between two steps of a request, two requests can create the default key of S3 |
| `sessions` | `CutFamiliesAreDead`, `EndedCannotRefresh`, `DisabledGetNoTokens`, `MfaNeverSkipped`, `TokensNameTheirUser`, `EveryTokenVerifies`, `GroupsAgree`, `NothingOutlivesPool` with one operation that fails half way, and restarts | two spellings of one name, two requests in flight, two users (one after the other under the same name), two families, two keys, one client, group, contact and tag: a user can be deleted and made again, a session can be made while another is ended, and two sign-ins can race for the key |
| `torn`, `before`, `index`, `selfcopy`, `revoked` | where the code does not do what its comments or documents say, see below | as small as shows it |

Symmetry is used for buffer identities and for the items without a stream, which
no definition tells apart, and in no run with a liveness property.

Fairness: `FairSpec` of `DynamoStreams` lets the trim goroutine run (the ticker of
`startTrimLoop` fires until Close, and none of its locks is held across a wait);
nothing is assumed of clients or of table operations. `FairSpec` of `DynamoPaging`
says that a client asks for the next page until there is none.

Deadlock is checked in every run but those of KMS and Cognito. There only requests that
change something are steps, and with torn files and no identifier left to hand out there
may be none. `keys` uses symmetry in keys and clients, `sessions` in the requests. The types of
`DynamoStreams` and `KmsRequests` are not invariants of a run, since the theorems below
state them for every instance.

### Disagreements

* `torn`: rollback "to preserve atomicity" does not restore the item whose own
  write failed after truncation.
* `before`: "the item state prior to update" is a shallow copy that nested
  assignments change.
* `index`: "resumes from the item after the given primary key" resumes after the
  sort key, and drops what shares it; an index without a sort key has no second
  page.
* `selfcopy`: "CopyObject copies an object from src to dst" (`s3/storage.go:421`). Copied
  onto itself with versioning enabled, the current version is truncated before it is read;
  the new current version is empty and carries the ETag of the source. The comment at
  `s3/storage.go:514` knows of the truncation and excludes the unversioned case only.
* `revoked`: after RevokeToken "access tokens derived from that refresh token must be
  rejected" (`docs/aws-spec/cognito/revoke_token.md:9`). An "unknown token is treated as
  already revoked" (`handler_auth.go:1003`), but a sign-in that stores its refresh token
  between the two loops of a GlobalSignOut has the token deleted and its origin not revoked:
  RevokeToken answers 200 and the access token is still accepted. `CutFamiliesAreDead` is
  what does hold: of families whose refresh token RevokeToken found.

Others, not made into runs: changing only the view type rotates the stream label "so
clients see a new stream identity" but keeps the buffer with the old records; positions of iterators shift when the stream is
trimmed, so unread records can be passed over; `docs/aws-spec/dynamodb/scan.md:50` says that
"the keyspace is NOT physically partitioned; all segments see the same full dataset", while
`storage_query.go:131` gives each segment every n-th item (for a table that is not written
the segments are disjoint and together complete, `SegmentsCoverTheTable`); ListStreams ends early when the
cursor's stream is gone; a streamed item whose file is torn can not be repaired by
any item request; the comment on `emitStreamRecord` says it is called outside the
table lock, and every caller holds it.

In S3, also not made into runs but visible in the exceptions the properties make:

* a PUT that fails half way has already replaced the current body; the version it
  replaced is only safe in its archived copy, which has the same version ID, is listed
  as noncurrent, and makes `NoncurrentVersionExpiration` delete the current file
  (`NoncurrentSparesCurrent` speaks of behaviours without a fault);
* torn metadata of the current version makes the key unwritable while versioning
  is enabled, because it cannot be archived;
* the rollback of an unversioned PUT, and a lifecycle pass that saw the bucket
  unversioned, delete whatever is current when they get to it (`StaleDelete`);
* the rollback of a rejected upload is refused if the bucket's default retention
  already protects it, so the upload stays;
* while versioning is suspended or object lock is off, a PUT overwrites a locked
  object; PutObjectRetention replaces any retention by any other;
* a part that is sent again and fails half way leaves the ETag of the part before it
  with a cut body; completed with that ETag, the object is not what its ETag says
  (`FilesAgree` speaks of behaviours without a fault);
* the rollback of a part with a wrong digest removes whichever part has that number by
  then, and a completion can use a part that is about to be removed;
* uploads survive DeleteBucket and can be completed into a new bucket of the same name;
  the default retention of the object is the one of the time of CreateMultipartUpload;
* an upload whose files could not all be removed after its completion can be completed
  again, if `upload.json` and the parts asked for are among those left.

In KMS, likewise:

* PutKeyPolicy checks in the handler that the key is not pending deletion and writes
  later, so the policy of a pending key can change (`PendingIsFrozen` leaves it out);
* an alias that is deleted and created again while UpdateAlias is on its way is moved to
  a key of another kind (`AliasKeepsKind` leaves deleted aliases out);
* a rotation that fails in its last write is not counted towards the limit of rotations;
  one that tears `material.json` makes the key unusable, though the old material is saved;
* the loser of a race for the default key of S3 leaves its key behind without a name; one
  torn alias file makes every CreateAlias fail.

* `create-alias.md` says that a key can have up to 256 aliases; CreateAlias counts them,
  UpdateAlias moves any number of aliases to one key.

In Cognito, likewise:

* after GlobalSignOut "any previously issued access token must return
  `NotAuthorizedException`" (`global_sign_out.md`), but a sign-in that stores its refresh
  token between the two loops of a sign-out has the token deleted and its origin not
  revoked; no later sign-out with another session's token finds it, and its access token
  stays valid (`revoked` shows that RevokeToken does not end it either);
* the user of an access token is looked up by its sub and changed by its name under
  another lock; a user deleted and made again in between is changed instead;
* `sign_up.md` says that names are case-insensitive; the verifier of SRP is made with the
  name as the request spells it, so a sign-in by SRP with another spelling fails;
* UpdateUserAttributes decides from the user it looked up whether a contact changes and
  has to be verified again, and writes later: of two concurrent changes the second can keep
  `email_verified` for an address nobody verified;
* completeAuth reads the user and then the pool: if the user's own requirement begins
  after the first read and the pool's ends before the second, a sign-in passes without a
  code although one of them required it at every moment (`MfaNeverSkipped` is about a
  requirement that lasts);
* `docs/aws-spec/cognito/admin_disable_user.md:47` says that NEW_PASSWORD_REQUIRED "does not
  re-check `Enabled`" and that a user disabled in between "could still complete the
  challenge"; the code is stricter: the handler ends in completeAuth, which reads the user
  again and refuses a disabled one. `DisabledGetNoTokens` states what the code does, against
  the document; what a disabled user can still do is set the new password. The document also
  says that USER_SRP_AUTH is not implemented, which it is;
* a request that saw the user enabled answers tokens after AdminDisableUser has answered
  (`DisabledGetNoTokens` is about requests that begin later);
* a session of MFA_SETUP proves that a code was given when it was verified
  (`handler_mfa.go:452-483`), which may be before a later enrolment with another secret:
  `MfaNeverSkipped` counts it as proven;
* AddUserToGroup does not look at the group again: a group that is deleted and made again
  while it is on its way starts with a member;
* one refresh token file that does not parse makes every GlobalSignOut and the second
  half of every AdminDisableUser of the pool fail;
* when DeleteUserPoolClient fails between its two removals the index entry can not be
  removed by any request; the comment in `storage_user.go` that calls an index entry
  without a user unreachable overlooks the same in DeleteUser;
* UpdateUserPool replaces the tags without the limit that TagResource checks.

## Proofs

Every safety property that a passing run checks is also a theorem. A theorem drops the
bounds of its run; where it needs an assumption, the assumption excludes a failure under
which the property is false, and the list below says which.

### Streams

`DynamoStreamsProofs` proves, for every number of tables, buffers, records,
restarts and for every set of failing calls unless said otherwise:

* `TypeCorrect`: `TypeOK`, including that `TrimApply` never follows a nil
  pointer;
* `OrphanFileStaysFrozen`: `OrphanFileFrozen`;
* `SequenceNumbersOrdered`: `SeqOrdered`, assuming `ClockLeads`;
* `RestartResurrectsNothing`: `NoResurrection`, assuming that reads do not fail;
* `KillLosesNoRecord`: `BufferIsDurable`, assuming that opening and writing stream files
  do not fail (a failed append leaves the record in the buffer only).

None of the invariants is inductive by itself. `Pointers` adds who may hold a
pointer to which buffer: two tables never share one, and a buffer the trim
goroutine holds is either mapped for the table it is working on, or about to be marked
by the writer, or marked deleted. That is what keeps a late trim away from the file of
another stream. `SeqInv` adds that every
record in any buffer and in any file, also the files of tables without a stream,
has a number that neither the clock nor, while the process runs, `seqNum` is
behind, and that each buffer and each file is ordered: then neither a restart nor
a file left over from an earlier stream can bring a number back. `Untorn` is what
`BufferIsDurable` needs: no file ends in a partial line, which would swallow the next
append.

`DynamoStreamConsumersProofs` proves, for any number of clients, calls and limits:

* `ReadersSeeEachOnce`: `InOrderOnce`, assuming that reads do not fail (a buffer loaded
  empty after a failed read starts the positions over, and the next restart brings the old
  records back);
* `ResumingIsExact`: `ResumeIsExact`, assuming `ClockLeads`; here reads may fail;
* `ReadRecordsAreDurable`: `BufferIsDurable` of the composition, since clients change
  nothing of the storage (`StorageUnchanged`).

The server knows nothing of a client, so the invariant has to relate a position to a slice
that is trimmed, dropped and reloaded. `Shown` is the slice as a reader can ever see it:
the live buffer or, without one, what the next buffer would be loaded with. `Fresh` says
that whatever stands at the position or later is newer than all that was delivered. Trims
move records towards the front and never past the position (`FreshKept`), and `ShownStep`
says that nothing comes back into view and that a new record comes in at the end. One case
of it is easy to miss: between the step that takes a buffer out of the map and the one that
marks it deleted, a trim that holds its pointer can still write the file, with records
whose own append had failed. `Shown` therefore counts the buffer that is leaving
(`Leaving`). `HeldInv` says that no two records anywhere have the same number, which makes
a slice finite and its indexes a numbering of it (`RankOnto`); `FindSeqPosExact` is the
correctness of the scan in `findSeqPos`.

### Items

`DynamoItemsProofs` proves, for any items, values, conditions, batches, and transactions of
any length:

* `RecordsAreOnDisk`: `NoPhantomRecord`, whatever fails;
* `ReplicaFollows`: `ReplicaIsExact`;
* `OldImageFollows`: `OldImageIsPrevious`, without updates of nested paths (the run
  `before` shows why);
* `TransactionsEndInPrefix`: `EndsInPrefix`;
* `TransactionsAreAllOrNothing`: `AllOrNothing`;
* `StorageIsAtomic`: `ImplementsAtomicItems`, the refinement of `AtomicItems`.

All but the first assume `Mild`: open and remove calls may fail and the process may be
killed anywhere, but no write fails half way (the run `torn` shows what it does) and a
rollback meets no second failure, which the code ignores. The invariant `ItemsInv` is
`TypeInv`, `Undo` and `Sent`. `Written`, in `TypeInv`, says that what the puts
and deletes of a transaction have written is still on disk unless it is being rolled back:
the image in the record of a put comes from the request, so that this has to be shown. `Undo` says of a transaction under way that its snapshots are
those of its first actions, in order, with the content from before it, and that every item
it has changed has one; once it is decided, that the items are its whole effect. `Sent` says
that what the stream has told of an item is the item, or its snapshot while the records are
still to come. For the refinement, a step of the detailed specification is either a stutter
of `Committed` (a write, a snapshot, a step of a rollback) or the one step of `AtomicItems`
that its answer stands for.

### Reads

`DynamoPagingProofs` proves `PagesSkipNothing` (`NothingSkipped`), `PagesRepeatNothing`
(`NothingTwice`) and `SegmentsCoverTheTable` (the segments of a parallel scan without
writes are disjoint and together complete) for any number of items,
clients, segments and limits, for reads that resume after a unique key (`KeyModes`: Scan and
what resumes like it, parallel Scan, descending Query, ListStreams). Reads of an index are
excluded: they resume after a sort key that several items share, which the run `index`
refutes. `PagerInv` says that the items returned lie behind the cursor, and that every item
owed was returned or lies ahead of it.

### S3

`S3ObjectsProofs` proves, for any number of writes, versions, parts, uploads and faults and
any set of lock documents and workloads:

* `LockImpliesVersioning`: `LockNeedsVersioning`;
* `LatestIsTheCurrent`: `LatestIsCurrent`;
* `FilesStayInStep`: `FilesAgree`, if the key is not copied onto itself (`selfcopy`);
* `ReadableVersionsStay`: `VersionsAreKept`;
* `LocksHold`: `LockHolds`;
* `NoncurrentLeavesCurrent`: `NoncurrentSparesCurrent`;
* `RejectedUploadsGo`: `RejectedUploadIsGone`.

`LockNeedsVersioning` needs the type of the bucket's configuration beside it (`BucketInv`):
no step but the four requests on the bucket changes it, and each of them, or what a fault
leaves of it, keeps the pair of status and lock consistent. The others rest on
`ObjectsInv`. `Dated` says that no file carries an ID or a date beyond those handed out, so
that whatever is written next is newer than everything filed. `Undamaged` says that, while
nothing has failed, every version is filed under its own ID and the current one has no
double; `Passed` that the entries of a list of noncurrent versions are not current and, as
IDs are not handed out twice, will not be. `Told` is the part about ETags that a copy of the
key onto itself breaks. The many operations are reduced once to four shapes (`StepShape`):
the object is kept, it gets a new current version, one version of it is removed or
rewritten (`Reason` says why), or a retention period ends. From them `LostHasExcuse` gets that a version is lost only for one of the
reasons in `Excuse`, and the two action properties about versions and locks follow from that.

### KMS

`KmsRequestsProofs` proves, for any sets of keys, aliases, grants, clients and workloads
and any bounds on materials, limits and failures:

* `KmsTypeCorrect`: `TypeOK`;
* `NoMaterialLost`: `SealedMaterialKept`;
* `GenuineOutputsOpen`: `GenuineOpens`, which leaves only the refusals of requests whose own
  read of the previous materials failed;
* `PendingStaysFrozen`: `PendingIsFrozen`;
* `DefaultKeyNeverMoves`: `DefaultKeyStable`;
* `HistoryCountsRotations`: `RotationsAreCounted`;
* `AliasesKeepTheirKind`: `AliasKeepsKind`.

The inductive invariant `Inv` says of every output that was answered, and of every
request about to answer one, that its key exists, that its material is not newer than
the last one generated (`Numbered`), that it is in a file, and, if the key is not
symmetric, that it is the current one (`Sealed`); and of a request between its two
attempts that the material is among the previous ones and not the current one (`Good`).
The last point is the one that matters: a failed rewrite of a saved material can only
tear the copy of the current material, never one that is only in `materials/`.
`Keeps` is what any operation may do to the materials; it is shown once per operation and
carries `Sealed` and `Good` over every step. The two action properties follow from the
guards that the operations check under the lock and from `Inv`'s types, and from UpdateAlias
never being on its way for `alias/aws/s3`. The last two have invariants of their own, each
carried over the few kinds of step that `StepKind` sorts Next into: `CountInv` relates the
recorded rotations to the retired materials and the failures so far, and `AliasInv` says of
an UpdateAlias between its comparison and its write that its target is still of the kind of
the key the alias names. Assumed is what `StorageAssumption` says: the
markers for absent and torn files are not values, and the bounds are numbers.

### Cognito

`CognitoProofs` proves, for any names, spellings, groups, requests and workloads and any
bounds on clients, users, families, keys and failures:

* `TypeCorrect`: `TypeOK`;
* `RevokedFamiliesStayDead`: `CutFamiliesAreDead`, which is about families whose refresh token
  RevokeToken found; of the others it is false (`revoked`);
* `EndedSessionsStayEnded`: `EndedCannotRefresh`;
* `DisabledStayOut`: `DisabledGetNoTokens`;
* `MfaIsRequired`: `MfaNeverSkipped`;
* `SubAndNameAgree`: `TokensNameTheirUser`;
* `IssuedTokensVerify`: `EveryTokenVerifies`;
* `MembershipsAgree`: `GroupsAgree`;
* `PoolLeavesNothing`: `NothingOutlivesPool`.

The proof has two layers. `CognitoStorageProofs` shows of each operation, done or failed,
that it is `Sound`: it keeps `StorageInv` (the types, that identifiers are handed out in
order, that an index entry leads to a user of that name, and, while nothing has failed,
that the two sides of a membership and of a client agree) and it changes what was there
only as `Moves` says: what is gone does not come back, a user keeps its name and stays found
by it, a refresh token does not change, an origin stays revoked until all users are gone,
and the key stays the same until the users and clients are. `CognitoProofs` builds on that
alone. `Good` says what each step of a request relies on, for example that the user of a
request about to answer was made and is found by its name, that its family is its own, and
that it was not barred since the request began. `Dead` is the part that makes
`CutFamiliesAreDead` inductive: a family stays refused although a refresh still
carries it, because it is in `revoked_jtis` or because everyone who holds something of it
is gone. Since `Moves` preserves both, a step has only to account for the request that
takes it (`Step`). Assumed are `StorageAssumption` (the markers are not values, `Fold` maps
names to names) and `RequestsAssumption` (the starts are made of pools and users).

### What is only model-checked

Liveness (`ExpiredEventuallyTrimmed`, `PagingEnds`), since the prover does not reason about
fairness and ENABLED. What recursive or folded definitions compute for every input would
need induction over data, which the installed provers can not instantiate; the theorems do
not depend on it. The five disagreements are counterexamples and need no proof.

The theorems assume of the constants what the modules' ASSUMEs say and TLC evaluates: among
them that there are items to write (`Keys # {}`) and that those of a paged table are finitely
many.

## Plan

1. S3: replication between two buckets, with the status that tells how far it is; an
   abstract version history with write-once retention as the specification to implement;
   the content of tags.
2. Proofs: an abstract append-only log with a cursor per client, which the streams and
   their readers implement; the theorems of `DynamoItems` with a second failure in the
   rollback, for as much as holds then.

Not planned: STS and the dispatcher (stateless), expression languages, PartiQL and
S3 Select (parsers), cryptography, formatting of responses.
