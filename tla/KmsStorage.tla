----------------------------- MODULE KmsStorage ------------------------------
(***************************************************************************)
(* The files of the KMS backend and the operations on them:                *)
(* internal/kms/storage.go.                                                *)
(*                                                                         *)
(* A key is a directory with meta.json, material.json, policy.json,        *)
(* rotation.json, rotation_history.json, tags.json, materials/ and grants/; *)
(* an alias is a file that names its key.  Nothing is kept in memory.      *)
(* Every operation holds s.mu from beginning to end.  Every write          *)
(* truncates the file first, so a failed write may leave one that does not *)
(* parse.                                                                  *)
(*                                                                         *)
(* Of a key's metadata the state and the kind are kept: Enabled and        *)
(* DeletionDate are always written with KeyState and follow from it.  Key  *)
(* material is a number, and the random bytes of a new one are always new. *)
(***************************************************************************)
EXTENDS Integers, FiniteSets

CONSTANTS
    Keys,          \* key IDs
    Aliases,       \* alias names
    AwsS3,         \* alias/aws/s3
    Grants,        \* grant IDs, and the token that belongs to each
    TagKeys,
    KindsMade,     \* the kinds of keys that CreateKey is asked for
    Absent, Torn,  \* no file; a file that does not parse
    maxOnDemandRotations,
    maxAliasesPerKey,
    maxGrantsPerKey,
    maxTagsPerKey,
    MaxMaterials,  \* bound on the key materials generated
    MaxFaults      \* bound on the operations that fail half way

\* SYMMETRIC_DEFAULT; a key that kumolo does nothing with, such as RSA for
\* ENCRYPT_DECRYPT; HMAC; a signing key; and a signing key of a spec for which kumolo
\* generates no material.
Kinds == {"symmetric", "rsa", "mac", "sign", "bare"}

ASSUME StorageAssumption ==
    /\ AwsS3 \in Aliases
    /\ KindsMade \subseteq Kinds
    /\ Absent # Torn
    /\ Absent \notin Keys /\ Torn \notin Keys
    /\ Absent \notin Int /\ Torn \notin Int
    /\ \A t \in SUBSET TagKeys : t # Absent /\ t # Torn
    /\ {Absent, Torn} \cap {"Enabled", "Disabled", "PendingDeletion", "default", "put", "on",
                           "off", "stored"} = {}
    /\ maxOnDemandRotations \in Nat /\ maxAliasesPerKey \in Nat
    /\ maxGrantsPerKey \in Nat /\ maxTagsPerKey \in Nat
    /\ MaxMaterials \in Nat /\ MaxFaults \in Nat

VARIABLES
    meta,      \* meta.json: KeyState
    kind,      \* meta.json: KeySpec and KeyUsage
    material,  \* material.json
    prev,      \* materials/: the materials in files that can be read
    history,   \* rotation_history.json: its length
    rotation,  \* rotation.json: Enabled
    tags,      \* tags.json
    policy,    \* policy.json
    alias,     \* aliases/: TargetKeyId
    grants,    \* grants/
    dropped,   \* the aliases that were deleted at some time
    nmat,      \* the materials generated so far
    faults     \* the operations that failed half way so far

keyFiles == <<meta, kind, material, prev, history, rotation, tags, policy>>
storage == <<meta, kind, material, prev, history, rotation, tags, policy, alias, grants,
             dropped, nmat, faults>>

State == {"Enabled", "Disabled", "PendingDeletion"}
Material == 1..MaxMaterials
Policies == {"default", "put"}

StorageTypeOK ==
    /\ meta \in [Keys -> State \cup {Absent, Torn}]
    /\ kind \in [Keys -> Kinds]
    /\ material \in [Keys -> Material \cup {Absent, Torn}]
    /\ prev \in [Keys -> SUBSET Material]
    /\ history \in [Keys -> Nat \cup {Torn}]
    /\ rotation \in [Keys -> {"on", "off", Absent, Torn}]
    /\ tags \in [Keys -> {Torn} \cup SUBSET TagKeys]
    /\ policy \in [Keys -> Policies \cup {Absent, Torn}]
    /\ alias \in [Aliases -> Keys \cup {Absent, Torn}]
    /\ grants \in [Keys -> [Grants -> {"stored", Absent, Torn}]]
    /\ dropped \subseteq Aliases
    /\ nmat \in 0..MaxMaterials
    /\ faults \in 0..MaxFaults

\* Without a file the tags are empty and the history has length 0.
StorageInit ==
    /\ meta = [k \in Keys |-> Absent]
    /\ kind = [k \in Keys |-> "symmetric"]
    /\ material = [k \in Keys |-> Absent]
    /\ prev = [k \in Keys |-> {}]
    /\ history = [k \in Keys |-> 0]
    /\ rotation = [k \in Keys |-> Absent]
    /\ tags = [k \in Keys |-> {}]
    /\ policy = [k \in Keys |-> Absent]
    /\ alias = [a \in Aliases |-> Absent]
    /\ grants = [k \in Keys |-> [g \in Grants |-> Absent]]
    /\ dropped = {}
    /\ nmat = 0
    /\ faults = 0

-----------------------------------------------------------------------------
(* Files. *)

\* writeJSON: open with O_TRUNC, write, close.  When it fails the old content is still
\* there, or a part of the new one, or all of it.
writeJSON(old, new) ==
    {[file |-> new, ok |-> TRUE]} \cup [file : {old, Torn, new}, ok : {FALSE}]

\* root.Remove
removeFile(old) == {[file |-> Absent, ok |-> TRUE], [file |-> old, ok |-> FALSE]}

Count(ok) == IF ok THEN UNCHANGED faults ELSE faults < MaxFaults /\ faults' = faults + 1

\* keyExistsLocked and readKeyMeta.
keyExists(k) == meta[k] # Absent
Readable(k) == meta[k] \in State

-----------------------------------------------------------------------------
(* Keys. *)

HasMaterial(kd) == kd # "bare"

\* A key ID that no directory has.
Fresh(k) == meta[k] = Absent /\ material[k] = Absent /\ policy[k] = Absent

SetKey(k, me, kd, ma, po) ==
    /\ meta' = [meta EXCEPT ![k] = me]
    /\ kind' = [kind EXCEPT ![k] = kd]
    /\ material' = [material EXCEPT ![k] = ma]
    /\ policy' = [policy EXCEPT ![k] = po]
    /\ nmat' = IF HasMaterial(kd) THEN nmat + 1 ELSE nmat
    /\ UNCHANGED <<prev, history, rotation, tags, alias, grants, dropped>>

\* The new material, when the kind of key has one.
NewMaterial(kd) == IF HasMaterial(kd) THEN nmat + 1 ELSE Absent

CreateKeyDone(k, kd) ==
    /\ Fresh(k)
    /\ nmat < MaxMaterials
    /\ SetKey(k, "Enabled", kd, NewMaterial(kd), "default")
    /\ UNCHANGED faults

\* A write or the random source fails, or the process is killed: each of the files
\* written so far, but for policy.json, may have been removed again.  Only the last one
\* written is torn.
CreateKeyFailed(k, kd) ==
    /\ Fresh(k)
    /\ nmat < MaxMaterials
    /\ Count(FALSE)
    /\ \E me \in {"Enabled", Absent, Torn},
          ma \in {NewMaterial(kd), Absent, IF HasMaterial(kd) THEN Torn ELSE Absent},
          po \in {"default", Absent, Torn} :
          /\ ma # Absent => me # Torn
          /\ po # Absent => me # Torn /\ ma # Torn
          /\ SetKey(k, me, kd, ma, po)

\* The write of the metadata with a new state.
WriteState(k, s) ==
    /\ \E o \in writeJSON(meta[k], s) : meta' = [meta EXCEPT ![k] = o.file] /\ Count(o.ok)
    /\ UNCHANGED <<kind, material, prev, history, rotation, tags, policy, alias, grants,
                   dropped, nmat>>

EnableKey(k) == meta[k] = "Disabled" /\ WriteState(k, "Enabled")
DisableKey(k) == meta[k] = "Enabled" /\ WriteState(k, "Disabled")
ScheduleKeyDeletion(k) == meta[k] \in {"Enabled", "Disabled"} /\ WriteState(k, "PendingDeletion")
CancelKeyDeletion(k) == meta[k] = "PendingDeletion" /\ WriteState(k, "Disabled")

-----------------------------------------------------------------------------
(* Rotation. *)

\* Every operation on the rotation of a key asks for this.
Rotatable(k) == meta[k] = "Enabled" /\ kind[k] = "symmetric"

WriteRotation(k, r) ==
    /\ Rotatable(k)
    /\ \E o \in writeJSON(rotation[k], r) :
          rotation' = [rotation EXCEPT ![k] = o.file] /\ Count(o.ok)
    /\ UNCHANGED <<meta, kind, material, prev, history, tags, policy, alias, grants, dropped,
                   nmat>>

EnableKeyRotation(k) == WriteRotation(k, "on")
DisableKeyRotation(k) == WriteRotation(k, "off")

SetMaterials(k, p, m, h) ==
    /\ prev' = [prev EXCEPT ![k] = p]
    /\ material' = [material EXCEPT ![k] = m]
    /\ history' = [history EXCEPT ![k] = h]
    /\ nmat' = nmat + 1
    /\ UNCHANGED <<meta, kind, rotation, tags, policy, alias, grants, dropped>>

CanRotate(k) ==
    /\ Rotatable(k)
    /\ history[k] # Torn
    /\ history[k] < maxOnDemandRotations
    /\ material[k] \in Material
    /\ nmat < MaxMaterials

\* The current material is saved among the previous ones, then replaced, and then the
\* rotation is recorded.
RotateDone(k) ==
    /\ CanRotate(k)
    /\ SetMaterials(k, prev[k] \cup {material[k]}, nmat + 1, history[k] + 1)
    /\ UNCHANGED faults

\* Mutant of RotateFailed: the current material is replaced before it is saved.
RotateReplacesFirst(k) ==
    /\ CanRotate(k)
    /\ Count(FALSE)
    /\ \E p \in {prev[k], prev[k] \ {material[k]}, prev[k] \cup {material[k]}},
          m \in {material[k], Torn, nmat + 1},
          h \in {history[k], Torn, history[k] + 1} :
          /\ p # prev[k] => m = nmat + 1
          /\ h # history[k] => p = prev[k] \cup {material[k]}
          /\ SetMaterials(k, p, m, h)

\* Mutant of RotateFailed: the rotation is recorded before it is made.
RotateRecordsFirst(k) ==
    /\ CanRotate(k)
    /\ Count(FALSE)
    /\ \E p \in {prev[k], prev[k] \ {material[k]}, prev[k] \cup {material[k]}},
          m \in {material[k], Torn, nmat + 1},
          h \in {history[k], Torn, history[k] + 1} :
          /\ p # prev[k] => h = history[k] + 1
          /\ m # material[k] => p = prev[k] \cup {material[k]}
          /\ SetMaterials(k, p, m, h)

\* A write or the random source fails, or the process is killed: some of the writes were
\* made, and the last of them perhaps only in part.
RotateFailed(k) ==
    /\ CanRotate(k)
    /\ Count(FALSE)
    /\ \E p \in {prev[k], prev[k] \ {material[k]}, prev[k] \cup {material[k]}},
          m \in {material[k], Torn, nmat + 1},
          h \in {history[k], Torn, history[k] + 1} :
          /\ m # material[k] => p = prev[k] \cup {material[k]}
          /\ h # history[k] => m = nmat + 1
          /\ SetMaterials(k, p, m, h)

RotateKeyOnDemand(k) == RotateDone(k) \/ RotateFailed(k)

-----------------------------------------------------------------------------
(* Tags and the policy. *)

Taggable(k) == Readable(k) /\ meta[k] # "PendingDeletion" /\ tags[k] # Torn

WriteTags(k, t) ==
    /\ \E o \in writeJSON(tags[k], t) : tags' = [tags EXCEPT ![k] = o.file] /\ Count(o.ok)
    /\ UNCHANGED <<meta, kind, material, prev, history, rotation, policy, alias, grants,
                   dropped, nmat>>

TagResource(k, t) ==
    /\ Taggable(k)
    /\ Cardinality(tags[k] \cup t) <= maxTagsPerKey
    /\ WriteTags(k, tags[k] \cup t)
UntagResource(k, t) == Taggable(k) /\ WriteTags(k, tags[k] \ t)

PutKeyPolicy(k) ==
    /\ keyExists(k)
    /\ \E o \in writeJSON(policy[k], "put") :
          policy' = [policy EXCEPT ![k] = o.file] /\ Count(o.ok)
    /\ UNCHANGED <<meta, kind, material, prev, history, rotation, tags, alias, grants,
                   dropped, nmat>>

-----------------------------------------------------------------------------
(* Aliases. *)

\* countAliasesForKeyLocked fails when any alias cannot be read.
countAliasesForKey(k) == Cardinality({a \in Aliases : alias[a] = k})

Targetable(k) == Readable(k) /\ meta[k] # "PendingDeletion"

\* CreateAlias is going to write the alias, given that it does not exist.
Admits(k) ==
    /\ Targetable(k)
    /\ \A a \in Aliases : alias[a] # Torn
    /\ countAliasesForKey(k) < maxAliasesPerKey

WriteAlias(a, k, ok) ==
    /\ \E o \in writeJSON(alias[a], k) :
          alias' = [alias EXCEPT ![a] = o.file] /\ ok = o.ok /\ Count(ok)
    /\ UNCHANGED <<keyFiles, grants, dropped, nmat>>

\* Mutant of CreateAlias: an alias that exists is written over.
CreateAliasAnyway(a, k, ok) == Admits(k) /\ WriteAlias(a, k, ok)

CreateAlias(a, k, ok) == Admits(k) /\ alias[a] = Absent /\ WriteAlias(a, k, ok)

\* Mutant of UpdateAlias: it trusts the state that the handler has seen.
UpdateAliasAnyway(a, k, ok) == alias[a] \in Keys /\ WriteAlias(a, k, ok)

UpdateAlias(a, k, ok) == alias[a] \in Keys /\ Targetable(k) /\ WriteAlias(a, k, ok)

DeleteAlias(a) ==
    /\ alias[a] # Absent
    /\ \E o \in removeFile(alias[a]) : alias' = [alias EXCEPT ![a] = o.file] /\ Count(o.ok)
    /\ dropped' = dropped \cup {a}
    /\ UNCHANGED <<keyFiles, grants, nmat>>

-----------------------------------------------------------------------------
(* Grants. *)

WriteGrant(k, g, outcomes) ==
    /\ \E o \in outcomes : grants' = [grants EXCEPT ![k][g] = o.file] /\ Count(o.ok)
    /\ UNCHANGED <<keyFiles, alias, dropped, nmat>>

\* A grant ID is new among the grants of all keys.  The files that cannot be read count.
CreateGrant(k, g) ==
    /\ meta[k] = "Enabled"
    /\ \A j \in Keys : grants[j][g] = Absent
    /\ Cardinality({f \in Grants : grants[k][f] # Absent}) < maxGrantsPerKey
    /\ WriteGrant(k, g, writeJSON(Absent, "stored"))

\* RetireGrantByID is the same.
RevokeGrant(k, g) ==
    /\ Targetable(k)
    /\ grants[k][g] # Absent
    /\ WriteGrant(k, g, removeFile(grants[k][g]))

\* Every key is searched, whatever its state; a file that cannot be read is passed over.
RetireGrantByToken(k, g) ==
    /\ keyExists(k)
    /\ grants[k][g] = "stored"
    /\ WriteGrant(k, g, removeFile(grants[k][g]))

=============================================================================
