----------------------------- MODULE KmsRequests -----------------------------
(***************************************************************************)
(* The KMS requests: internal/kms/handler*.go, and ResolveKeyForEncryption *)
(* of storage.go, which S3 calls.                                          *)
(*                                                                         *)
(* Most requests are one operation of KmsStorage.  The others call several *)
(* operations, and between two of them anybody may rotate, disable or      *)
(* schedule the key, or change the aliases: those that encrypt and decrypt, *)
(* sign and verify; UpdateAlias; PutKeyPolicy; and the default key of S3.  *)
(*                                                                         *)
(* A request names its key by ID.  One that gives an alias is that request *)
(* once the alias is resolved, since it never looks at the alias again; if *)
(* it cannot be resolved the request does nothing.  A request that is      *)
(* refused, or that only reads, changes nothing and is left out.           *)
(*                                                                         *)
(* A ciphertext, a MAC or a signature is known by the key and the material *)
(* that made it; whoever opens one gives the encryption context, or the    *)
(* message, it was made with.                                              *)
(***************************************************************************)
EXTENDS KmsStorage

CONSTANTS
    Clients,    \* the requests in flight
    Workloads   \* what the clients of one behaviour do

Work == {"keys", "states", "rotate", "config", "aliases", "s3", "grants", "crypto"}

ASSUME RequestsAssumption == Workloads \subseteq SUBSET Work

VARIABLES
    req,      \* the requests
    out,      \* the ciphertexts, MACs and signatures that were answered
    refused,  \* those that were answered to be invalid, and why
    work      \* what the clients do

vars == <<meta, kind, material, prev, history, rotation, tags, policy, alias, grants, dropped,
          nmat, faults, req, out, refused, work>>

Output == [key : Keys, mat : Material]

\* Nothing fits the output, or the previous materials could not be read.
Refusal == [out : Output, cause : {"invalid", "unreadable"}]

\* idle; about to load the material to make an output; about to answer it; about to load
\* the material to open one; about to try the previous materials; about to look at the
\* destination key of ReEncrypt; about to retarget an alias; about to write a policy;
\* in EnsureAwsS3Key.
Steps == {"idle", "load", "seal", "open", "previous", "destination", "retarget", "policy",
          "ensure", "create", "name", "again"}

Request == [step : Steps, key : Keys \cup {Absent}, mat : Material \cup {Absent},
            out : Output \cup {Absent}, dst : Keys \cup {Absent},
            alias : Aliases \cup {Absent}, round : 0..2]

Idle == [step |-> "idle", key |-> Absent, mat |-> Absent, out |-> Absent, dst |-> Absent,
         alias |-> Absent, round |-> 0]

TypeOK ==
    /\ StorageTypeOK
    /\ req \in [Clients -> Request]
    /\ out \subseteq Output
    /\ refused \subseteq Refusal
    /\ work \in Workloads

Init ==
    /\ StorageInit
    /\ req = [c \in Clients |-> Idle]
    /\ out = {}
    /\ refused = {}
    /\ work \in Workloads

Become(c, r) == req' = [req EXCEPT ![c] = r]
At(c, step) == req[c].step = step

-----------------------------------------------------------------------------
(* Encrypt, GenerateDataKey, GenerateDataKeyPair, Sign and GenerateMac, and *)
(* what opens their outputs: Decrypt, ReEncrypt, Verify and VerifyMac.     *)

\* The key is enabled and of a kind that the operation is for; it may still turn out to
\* have no material.
Usable(k) == meta[k] = "Enabled" /\ kind[k] # "rsa"

BeginUse(c, k) ==
    /\ At(c, "idle")
    /\ Usable(k)
    /\ Become(c, [Idle EXCEPT !.step = "load", !.key = k])
    /\ UNCHANGED <<storage, out, refused>>

\* GetKeyMaterial, which reads meta.json again.  Whoever calls it ends when it fails, and a
\* read can always fail.
Loads(k, m) == Readable(k) /\ m \in Material /\ m = material[k]

LoadToSeal(c) ==
    /\ At(c, "load")
    /\ \/ Become(c, Idle)
       \/ \E m \in Material :
             Loads(req[c].key, m) /\ Become(c, [req[c] EXCEPT !.step = "seal", !.mat = m])
    /\ UNCHANGED <<storage, out, refused>>

Seal(c) ==
    /\ At(c, "seal")
    /\ out' = out \cup {[key |-> req[c].key, mat |-> req[c].mat]}
    /\ Become(c, Idle)
    /\ UNCHANGED <<storage, refused>>

\* Only what was encrypted can be encrypted again; d is Absent otherwise.
BeginOpen(c, o, d) ==
    /\ At(c, "idle")
    /\ Usable(o.key)
    /\ d # Absent => kind[o.key] = "symmetric"
    /\ Become(c, [Idle EXCEPT !.step = "open", !.key = o.key, !.out = o, !.dst = d])
    /\ UNCHANGED <<storage, out, refused>>

\* What follows when the output was opened.
Opened(c) == IF req[c].dst = Absent THEN Idle ELSE [req[c] EXCEPT !.step = "destination"]

\* The answer is that the output is invalid.
Refuse(c, cause) ==
    /\ Become(c, Idle)
    /\ refused' = refused \cup {[out |-> req[c].out, cause |-> cause]}

\* Mutant of LoadToOpen: the previous materials are not tried.
LoadToOpenOnly(c) ==
    /\ At(c, "open")
    /\ \/ Become(c, Idle) /\ UNCHANGED refused
       \/ \E m \in Material :
             /\ Loads(req[c].key, m)
             /\ \/ m = req[c].out.mat /\ Become(c, Opened(c)) /\ UNCHANGED refused
                \/ m # req[c].out.mat /\ Refuse(c, "invalid")
    /\ UNCHANGED <<storage, out>>

\* GetKeyMaterial and the first attempt.  Only Decrypt and ReEncrypt try again.
LoadToOpen(c) ==
    /\ At(c, "open")
    /\ \/ Become(c, Idle) /\ UNCHANGED refused
       \/ \E m \in Material :
             /\ Loads(req[c].key, m)
             /\ \/ m = req[c].out.mat /\ Become(c, Opened(c)) /\ UNCHANGED refused
                \/ /\ m # req[c].out.mat
                   /\ IF kind[req[c].key] = "symmetric"
                      THEN Become(c, [req[c] EXCEPT !.step = "previous"]) /\ UNCHANGED refused
                      ELSE Refuse(c, "invalid")
    /\ UNCHANGED <<storage, out>>

\* GetPreviousKeyMaterials and the attempts with each of them.  That the directory cannot be
\* listed, or one of its files not be read, counts as finding nothing that fits.
TryPrevious(c) ==
    /\ At(c, "previous")
    /\ \/ IF req[c].out.mat \in prev[req[c].key]
          THEN Become(c, Opened(c)) /\ UNCHANGED refused
          ELSE Refuse(c, "invalid")
       \/ Refuse(c, "unreadable")
    /\ UNCHANGED <<storage, out>>

\* ReEncrypt looks at its destination key once it has the plaintext.
CheckDestination(c) ==
    LET d == req[c].dst IN
    /\ At(c, "destination")
    /\ Become(c, IF Usable(d) /\ kind[d] = "symmetric"
                 THEN [Idle EXCEPT !.step = "load", !.key = d] ELSE Idle)
    /\ UNCHANGED <<storage, out, refused>>

-----------------------------------------------------------------------------
(* UpdateAlias and PutKeyPolicy check first and write later. *)

\* Mutant of BeginUpdateAlias: the kinds are not compared.
BeginUpdateAliasAnyway(c, a, k) ==
    /\ At(c, "idle")
    /\ a # AwsS3
    /\ alias[a] \in Keys
    /\ Readable(alias[a]) /\ Readable(k)
    /\ Become(c, [Idle EXCEPT !.step = "retarget", !.key = k, !.alias = a])
    /\ UNCHANGED <<storage, out, refused>>

\* ResolveAlias and GetKeyMetadata: the current target and the new one are of one kind.
\* The kind of a key never changes: that it is read later than the alias makes no odds.
BeginUpdateAlias(c, a, k) ==
    /\ At(c, "idle")
    /\ a # AwsS3
    /\ alias[a] \in Keys
    /\ Readable(alias[a]) /\ Readable(k)
    /\ kind[alias[a]] = kind[k]
    /\ Become(c, [Idle EXCEPT !.step = "retarget", !.key = k, !.alias = a])
    /\ UNCHANGED <<storage, out, refused>>

EndUpdateAlias(c) ==
    /\ At(c, "retarget")
    /\ \/ \E ok \in BOOLEAN : UpdateAlias(req[c].alias, req[c].key, ok)
       \/ /\ ~(alias[req[c].alias] \in Keys /\ Targetable(req[c].key))
          /\ UNCHANGED storage
    /\ Become(c, Idle)
    /\ UNCHANGED <<out, refused>>

BeginPutKeyPolicy(c, k) ==
    /\ At(c, "idle")
    /\ Targetable(k)
    /\ Become(c, [Idle EXCEPT !.step = "policy", !.key = k])
    /\ UNCHANGED <<storage, out, refused>>

EndPutKeyPolicy(c) ==
    /\ At(c, "policy")
    /\ PutKeyPolicy(req[c].key)
    /\ Become(c, Idle)
    /\ UNCHANGED <<out, refused>>

-----------------------------------------------------------------------------
(* ResolveKeyForEncryption for an object without a key of its own: twice    *)
(* EnsureAwsS3Key, and then the key that alias/aws/s3 names.               *)

BeginS3(c) ==
    /\ At(c, "idle")
    /\ Become(c, [Idle EXCEPT !.step = "ensure", !.round = 1])
    /\ UNCHANGED <<storage, out, refused>>

\* EnsureAwsS3Key has returned a key.
Ensured(c) ==
    IF req[c].round = 1 THEN [Idle EXCEPT !.step = "ensure", !.round = 2] ELSE Idle

Known(k) == k \in Keys /\ Readable(k)

\* ResolveAlias and GetKeyMetadata, before a key is created and after another request
\* has named one.
Resolve(c) ==
    /\ req[c].step \in {"ensure", "again"}
    /\ Become(c, IF Known(alias[AwsS3]) THEN Ensured(c)
                 ELSE IF alias[AwsS3] = Absent /\ At(c, "ensure")
                      THEN [req[c] EXCEPT !.step = "create"] ELSE Idle)
    /\ UNCHANGED <<storage, out, refused>>

CreateManagedKey(c, k) ==
    /\ At(c, "create")
    /\ \/ /\ CreateKeyDone(k, "symmetric")
          /\ Become(c, [req[c] EXCEPT !.step = "name", !.key = k])
       \/ /\ CreateKeyFailed(k, "symmetric")
          /\ Become(c, Idle)
    /\ UNCHANGED <<out, refused>>

\* CreateAlias.  When it fails the new key stays, and nothing names it.
NameManagedKey(c) ==
    LET k == req[c].key IN
    /\ At(c, "name")
    /\ \/ \E ok \in BOOLEAN :
             CreateAlias(AwsS3, k, ok) /\ Become(c, IF ok THEN Ensured(c) ELSE Idle)
       \/ /\ ~(Admits(k) /\ alias[AwsS3] = Absent)
          /\ Become(c, IF Admits(k) THEN [req[c] EXCEPT !.step = "again"] ELSE Idle)
          /\ UNCHANGED storage
    /\ UNCHANGED <<out, refused>>

-----------------------------------------------------------------------------
(* The specification. *)

Use ==
    \E c \in Clients :
        \/ \E k \in Keys : BeginUse(c, k)
        \/ \E o \in out, d \in Keys \cup {Absent} : BeginOpen(c, o, d)
        \/ LoadToSeal(c) \/ Seal(c)
        \/ LoadToOpen(c) \/ TryPrevious(c) \/ CheckDestination(c)

S3 ==
    \E c \in Clients :
        \/ BeginS3(c) \/ Resolve(c)
        \/ \E k \in Keys : CreateManagedKey(c, k)
        \/ NameManagedKey(c)

ChangeKeys == \E k \in Keys, kd \in KindsMade : CreateKeyDone(k, kd) \/ CreateKeyFailed(k, kd)

ChangeStates ==
    \E k \in Keys : EnableKey(k) \/ DisableKey(k) \/ ScheduleKeyDeletion(k) \/ CancelKeyDeletion(k)

Rotate == \E k \in Keys : RotateKeyOnDemand(k)

Configure ==
    \E k \in Keys :
        \/ EnableKeyRotation(k) \/ DisableKeyRotation(k)
        \/ \E t \in (SUBSET TagKeys) \ {{}} : TagResource(k, t) \/ UntagResource(k, t)

PutPolicies ==
    \E c \in Clients : (\E k \in Keys : BeginPutKeyPolicy(c, k)) \/ EndPutKeyPolicy(c)

\* handleCreateAlias refuses the aliases of AWS; handleDeleteAlias does not.
ChangeAliases ==
    \E a \in Aliases :
        \/ \E k \in Keys, ok \in BOOLEAN : a # AwsS3 /\ CreateAlias(a, k, ok)
        \/ DeleteAlias(a)

MoveAliases ==
    \E c \in Clients :
        \/ \E a \in Aliases, k \in Keys : BeginUpdateAlias(c, a, k)
        \/ EndUpdateAlias(c)

ChangeGrants ==
    \E k \in Keys, g \in Grants : CreateGrant(k, g) \/ RevokeGrant(k, g) \/ RetireGrantByToken(k, g)

\* The server is killed: the requests are forgotten, the files stay.
Restart ==
    /\ \E c \in Clients : req[c] # Idle
    /\ req' = [c \in Clients |-> Idle]
    /\ UNCHANGED <<storage, out, refused>>

\* One operation of the storage is the whole request.
Alone == UNCHANGED <<req, out, refused>>

Next ==
    /\ \/ "keys" \in work /\ ChangeKeys /\ Alone
       \/ "states" \in work /\ ChangeStates /\ Alone
       \/ "rotate" \in work /\ Rotate /\ Alone
       \/ "config" \in work /\ Configure /\ Alone
       \/ "config" \in work /\ PutPolicies
       \/ "aliases" \in work /\ ChangeAliases /\ Alone
       \/ "aliases" \in work /\ MoveAliases
       \/ "grants" \in work /\ ChangeGrants /\ Alone
       \/ "crypto" \in work /\ Use
       \/ "s3" \in work /\ S3
       \/ Restart
    /\ UNCHANGED work

Spec == Init /\ [][Next]_vars

-----------------------------------------------------------------------------
(* Properties. *)

\* No material is lost: what made an output that was answered is in material.json or in a
\* readable file of materials/, whatever RotateKeyOnDemand, an Encrypt that read the
\* material before a rotation and answers after it, and failed writes do.
SealedMaterialKept ==
    \A o \in out : material[o.key] = o.mat \/ o.mat \in prev[o.key]

\* Decrypt, ReEncrypt, Verify and VerifyMac answer that an output made by this server is
\* invalid only when GetPreviousKeyMaterials could not read the previous materials for that
\* very request (tryDecryptWithFallback drops its error): not because the key is rotated
\* between GetKeyMaterial and GetPreviousKeyMaterials or while the output was being made,
\* and not because a rotation failed half way.
GenuineOpens == \A x \in refused : x.cause = "unreadable"

\* rotation_history.json records no rotation that did not save and replace the material,
\* and misses only those whose request failed: the limit on rotations counts them.
RotationsAreCounted ==
    \A k \in Keys : history[k] # Torn =>
        LET retired == Cardinality(prev[k] \ {material[k]})
        IN  history[k] <= retired /\ retired <= history[k] + faults

\* While a key is pending deletion nothing of it changes but its policy, the state itself,
\* and that grants and aliases are taken away: no request that saw it enabled goes on to
\* rotate, configure or tag it, or to give it an alias or a grant.
PendingIsFrozen ==
    [][\A k \in Keys : meta[k] = "PendingDeletion" /\ meta'[k] = "PendingDeletion" =>
          /\ <<kind[k], material[k], prev[k], history[k], rotation[k], tags[k]>>'
               = <<kind[k], material[k], prev[k], history[k], rotation[k], tags[k]>>
          /\ \A a \in Aliases : alias'[a] = k => alias[a] = k
          /\ \A g \in Grants : grants'[k][g] # Absent => grants[k][g] # Absent]_vars

\* alias/aws/s3 never moves from one key to another: of two requests that find it missing
\* and create a key each, the second takes the key of the first.
DefaultKeyStable ==
    [][alias'[AwsS3] # alias[AwsS3] => alias[AwsS3] = Absent \/ ~(alias'[AwsS3] \in Keys)]_vars

\* An alias that has not been deleted keeps naming keys of one kind, however many
\* UpdateAlias requests compare and write at the same time.
AliasKeepsKind ==
    [][\A a \in Aliases \ dropped' : alias[a] \in Keys /\ alias'[a] \in Keys =>
          kind'[alias'[a]] = kind[alias[a]]]_vars

=============================================================================
