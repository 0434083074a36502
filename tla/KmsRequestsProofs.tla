-------------------------- MODULE KmsRequestsProofs --------------------------
(***************************************************************************)
(* Proofs about KmsRequests, for any keys, clients, workloads and bounds.  *)
(*                                                                         *)
(* Keeps says what any operation of the storage does to the materials, and *)
(* is shown for each operation once.  Good says what a request in flight   *)
(* may rely on; Keeps preserves it.  Safe says what no step may do to a    *)
(* key that is pending deletion and to alias/aws/s3.  StepKind sorts the   *)
(* steps once more, for the two invariants of the end: CountInv, on the    *)
(* recorded rotations, and AliasInv, on what UpdateAlias has compared.     *)
(***************************************************************************)
EXTENDS KmsRequests, FiniteSetTheorems, TLAPS

\* The material m of key k is in a file that can be read.
Held(k, m) == material[k] = m \/ m \in prev[k]

\* An output that was, or is about to be, answered.
Sealed(k, m) ==
    /\ meta[k] # Absent
    /\ m <= nmat
    /\ Held(k, m)
    /\ kind[k] # "symmetric" => material[k] = m

\* What a request relies on between its operations.
Good(r) ==
    /\ r.step \in {"load", "seal", "open", "previous", "retarget", "policy", "name"} => r.key \in Keys
    /\ r.step = "load" => meta[r.key] # Absent
    /\ r.step = "seal" => r.mat \in Material /\ Sealed(r.key, r.mat)
    /\ r.step \in {"open", "previous"} => r.out \in out /\ r.out.key = r.key
    /\ r.step = "previous" =>
          r.out.mat \in prev[r.key] /\ material[r.key] # r.out.mat
    /\ r.step = "destination" => r.dst \in Keys
    /\ r.step = "retarget" => r.alias \in Aliases \ {AwsS3}

\* Materials are numbered in the order they are made.
Numbered == \A k \in Keys : material[k] \in Material => material[k] <= nmat

Inv ==
    /\ TypeOK
    /\ Numbered
    /\ \A o \in out : Sealed(o.key, o.mat)
    /\ \A c \in Clients : Good(req[c])
    /\ GenuineOpens

\* What an operation of the storage may do to the materials: a key that exists keeps
\* existing and keeps its kind, and its material changes only when the key is symmetric,
\* to a new one, and after the old one was saved.
Keeps ==
    /\ nmat' \in Nat /\ nmat <= nmat'
    /\ \A k \in Keys : meta[k] # Absent =>
          /\ meta'[k] # Absent
          /\ kind'[k] = kind[k]
          /\ \/ material'[k] = material[k] /\ prev'[k] = prev[k]
             \/ /\ kind[k] = "symmetric"
                /\ material'[k] \in {material[k], Torn, nmat + 1}
                /\ \A m \in Material : m # material[k] /\ m \in prev[k] => m \in prev'[k]
                /\ material'[k] # material[k] => material[k] \in prev'[k]
    /\ Numbered'

-----------------------------------------------------------------------------

LEMMA Constants ==
    /\ Absent # Torn
    /\ Absent \notin Keys /\ Torn \notin Keys
    /\ Absent \notin Material /\ Torn \notin Material
    /\ Absent \notin State /\ Torn \notin State
    /\ Absent \notin Nat /\ Torn \notin Nat
    /\ AwsS3 \in Aliases
    /\ MaxMaterials \in Nat /\ MaxFaults \in Nat
    /\ KindsMade \subseteq Kinds
<1>1. Absent \notin State /\ Torn \notin State
  BY StorageAssumption DEF State
<1>2. Absent \notin Int /\ Torn \notin Int /\ MaxMaterials \in Nat /\ MaxFaults \in Nat
  BY StorageAssumption
<1>3. Absent \notin Nat /\ Torn \notin Nat
  BY <1>2
<1>4. Absent \notin Material /\ Torn \notin Material
  BY <1>2 DEF Material
<1>5. /\ Absent # Torn /\ Absent \notin Keys /\ Torn \notin Keys
      /\ AwsS3 \in Aliases /\ KindsMade \subseteq Kinds
  BY StorageAssumption
<1> QED BY <1>1, <1>2, <1>3, <1>4, <1>5

\* One write: the possible contents, and the count of faults.
LEMMA WriteOutcome ==
    ASSUME NEW old, NEW new, NEW o \in writeJSON(old, new)
    PROVE  o.file \in {old, Torn, new}
<1>1. CASE o = [file |-> new, ok |-> TRUE]
  BY <1>1
<1>2. CASE o \in [file : {old, Torn, new}, ok : {FALSE}]
  BY <1>2
<1> QED BY <1>1, <1>2 DEF writeJSON

LEMMA RemoveOutcome ==
    ASSUME NEW old, NEW o \in removeFile(old)
    PROVE  o.file \in {old, Absent}
<1>1. CASE o = [file |-> Absent, ok |-> TRUE]
  BY <1>1
<1>2. CASE o = [file |-> old, ok |-> FALSE]
  BY <1>2
<1> QED BY <1>1, <1>2 DEF removeFile

LEMMA CountType ==
    ASSUME faults \in 0..MaxFaults, NEW ok, Count(ok)
    PROVE  faults' \in 0..MaxFaults
BY Constants DEF Count

LEMMA SetKeyType ==
    ASSUME StorageTypeOK, faults' \in 0..MaxFaults, nmat < MaxMaterials,
           NEW k \in Keys, NEW me \in {"Enabled", Absent, Torn}, NEW kd \in Kinds,
           NEW ma \in {NewMaterial(kd), Absent, Torn}, NEW po \in {"default", Absent, Torn},
           SetKey(k, me, kd, ma, po)
    PROVE  StorageTypeOK'
<1>1. nmat + 1 \in Material /\ nmat + 1 \in 0..MaxMaterials
  BY Constants DEF StorageTypeOK, Material
<1>2. ma \in Material \cup {Absent, Torn}
  BY <1>1 DEF NewMaterial
<1>3. nmat' \in 0..MaxMaterials
  BY <1>1 DEF SetKey, StorageTypeOK
<1>4. me \in State \cup {Absent, Torn} /\ po \in Policies \cup {Absent, Torn}
  BY DEF State, Policies
<1> QED BY <1>2, <1>3, <1>4 DEF StorageTypeOK, SetKey

LEMMA CreateKeyType ==
    ASSUME StorageTypeOK, NEW k \in Keys, NEW kd \in Kinds,
           CreateKeyDone(k, kd) \/ CreateKeyFailed(k, kd)
    PROVE  StorageTypeOK'
<1>1. CASE CreateKeyDone(k, kd)
  <2>1. faults' \in 0..MaxFaults
    BY <1>1 DEF CreateKeyDone, StorageTypeOK
  <2> QED BY <1>1, <2>1, SetKeyType DEF CreateKeyDone
<1>2. CASE CreateKeyFailed(k, kd)
  <2>1. faults' \in 0..MaxFaults
    BY <1>2, CountType DEF CreateKeyFailed, StorageTypeOK
  <2>2. PICK me \in {"Enabled", Absent, Torn},
             ma \in {NewMaterial(kd), Absent, IF HasMaterial(kd) THEN Torn ELSE Absent},
             po \in {"default", Absent, Torn} : SetKey(k, me, kd, ma, po)
    BY <1>2 DEF CreateKeyFailed
  <2> QED BY <1>2, <2>1, <2>2, SetKeyType DEF CreateKeyFailed
<1> QED BY <1>1, <1>2


LEMMA StateType ==
    ASSUME StorageTypeOK, NEW k \in Keys,
           \/ EnableKey(k) \/ DisableKey(k) \/ ScheduleKeyDeletion(k) \/ CancelKeyDeletion(k)
    PROVE  StorageTypeOK'
<1>1. PICK s \in State : WriteState(k, s)
  BY DEF EnableKey, DisableKey, ScheduleKeyDeletion, CancelKeyDeletion, State
<1>2. PICK o \in writeJSON(meta[k], s) : meta' = [meta EXCEPT ![k] = o.file] /\ Count(o.ok)
  BY <1>1 DEF WriteState
<1>3. o.file \in State \cup {Absent, Torn}
  BY <1>2, WriteOutcome DEF StorageTypeOK
<1>4. faults' \in 0..MaxFaults
  BY <1>2, CountType DEF StorageTypeOK
<1> QED BY <1>1, <1>2, <1>3, <1>4 DEF StorageTypeOK, WriteState

LEMMA RotationType ==
    ASSUME StorageTypeOK, NEW k \in Keys, EnableKeyRotation(k) \/ DisableKeyRotation(k)
    PROVE  StorageTypeOK'
<1>1. PICK r \in {"on", "off"} : WriteRotation(k, r)
  BY DEF EnableKeyRotation, DisableKeyRotation
<1>2. PICK o \in writeJSON(rotation[k], r) :
         rotation' = [rotation EXCEPT ![k] = o.file] /\ Count(o.ok)
  BY <1>1 DEF WriteRotation
<1>3. o.file \in {"on", "off", Absent, Torn}
  BY <1>2, WriteOutcome DEF StorageTypeOK
<1>4. faults' \in 0..MaxFaults
  BY <1>2, CountType DEF StorageTypeOK
<1> QED BY <1>1, <1>2, <1>3, <1>4 DEF StorageTypeOK, WriteRotation

LEMMA SetMaterialsType ==
    ASSUME StorageTypeOK, faults' \in 0..MaxFaults, NEW k \in Keys, CanRotate(k),
           NEW p \in {prev[k], prev[k] \ {material[k]}, prev[k] \cup {material[k]}},
           NEW m \in {material[k], Torn, nmat + 1},
           NEW h \in {history[k], Torn, history[k] + 1},
           SetMaterials(k, p, m, h)
    PROVE  StorageTypeOK'
<1>1. nmat + 1 \in Material /\ nmat + 1 \in 0..MaxMaterials
  BY Constants DEF StorageTypeOK, Material, CanRotate
<1>2. p \in SUBSET Material
  BY DEF StorageTypeOK, CanRotate
<1>3. m \in Material \cup {Absent, Torn}
  BY <1>1 DEF StorageTypeOK
<1>4. h \in Nat \cup {Torn}
  BY DEF StorageTypeOK, CanRotate
<1> QED BY <1>1, <1>2, <1>3, <1>4 DEF StorageTypeOK, SetMaterials

LEMMA RotateType ==
    ASSUME StorageTypeOK, NEW k \in Keys, RotateKeyOnDemand(k)
    PROVE  StorageTypeOK'
<1>1. CASE RotateDone(k)
  <2>1. faults' \in 0..MaxFaults
    BY <1>1 DEF RotateDone, StorageTypeOK
  <2> QED BY <1>1, <2>1, SetMaterialsType DEF RotateDone
<1>2. CASE RotateFailed(k)
  <2>1. faults' \in 0..MaxFaults
    BY <1>2, CountType DEF RotateFailed, StorageTypeOK
  <2> QED BY <1>2, <2>1, SetMaterialsType DEF RotateFailed
<1> QED BY <1>1, <1>2 DEF RotateKeyOnDemand

LEMMA TagType ==
    ASSUME StorageTypeOK, NEW k \in Keys, NEW t \in SUBSET TagKeys,
           TagResource(k, t) \/ UntagResource(k, t)
    PROVE  StorageTypeOK'
<1>1. PICK u \in SUBSET TagKeys : WriteTags(k, u)
  BY DEF TagResource, UntagResource, StorageTypeOK, Taggable
<1>2. PICK o \in writeJSON(tags[k], u) : tags' = [tags EXCEPT ![k] = o.file] /\ Count(o.ok)
  BY <1>1 DEF WriteTags
<1>3. o.file \in {Torn} \cup SUBSET TagKeys
  BY <1>2, WriteOutcome DEF StorageTypeOK
<1>4. faults' \in 0..MaxFaults
  BY <1>2, CountType DEF StorageTypeOK
<1> QED BY <1>1, <1>2, <1>3, <1>4 DEF StorageTypeOK, WriteTags

LEMMA PolicyType ==
    ASSUME StorageTypeOK, NEW k \in Keys, PutKeyPolicy(k)
    PROVE  StorageTypeOK'
<1>1. PICK o \in writeJSON(policy[k], "put") :
         policy' = [policy EXCEPT ![k] = o.file] /\ Count(o.ok)
  BY DEF PutKeyPolicy
<1>2. o.file \in Policies \cup {Absent, Torn}
  BY <1>1, WriteOutcome DEF StorageTypeOK, Policies
<1>3. faults' \in 0..MaxFaults
  BY <1>1, CountType DEF StorageTypeOK
<1> QED BY <1>1, <1>2, <1>3 DEF StorageTypeOK, PutKeyPolicy

LEMMA WriteAliasType ==
    ASSUME StorageTypeOK, NEW a \in Aliases, NEW k \in Keys, NEW ok \in BOOLEAN,
           WriteAlias(a, k, ok)
    PROVE  StorageTypeOK'
<1>1. PICK o \in writeJSON(alias[a], k) : alias' = [alias EXCEPT ![a] = o.file] /\ Count(ok)
  BY DEF WriteAlias
<1>2. o.file \in Keys \cup {Absent, Torn}
  BY <1>1, WriteOutcome DEF StorageTypeOK
<1>3. faults' \in 0..MaxFaults
  BY <1>1, CountType DEF StorageTypeOK
<1> QED BY <1>1, <1>2, <1>3 DEF StorageTypeOK, WriteAlias, keyFiles

LEMMA DeleteAliasType ==
    ASSUME StorageTypeOK, NEW a \in Aliases, DeleteAlias(a)
    PROVE  StorageTypeOK'
<1>1. PICK o \in removeFile(alias[a]) : alias' = [alias EXCEPT ![a] = o.file] /\ Count(o.ok)
  BY DEF DeleteAlias
<1>2. o.file \in Keys \cup {Absent, Torn}
  BY <1>1, RemoveOutcome DEF StorageTypeOK
<1>3. faults' \in 0..MaxFaults
  BY <1>1, CountType DEF StorageTypeOK
<1> QED BY <1>1, <1>2, <1>3 DEF StorageTypeOK, DeleteAlias, keyFiles

LEMMA GrantType ==
    ASSUME StorageTypeOK, NEW k \in Keys, NEW g \in Grants,
           CreateGrant(k, g) \/ RevokeGrant(k, g) \/ RetireGrantByToken(k, g)
    PROVE  StorageTypeOK'
<1>1. PICK f \in {"stored", Absent, Torn} :
         grants' = [grants EXCEPT ![k][g] = f] /\ \E ok : Count(ok)
  <2>1. CASE CreateGrant(k, g)
    <3>1. PICK o \in writeJSON(Absent, "stored") :
             grants' = [grants EXCEPT ![k][g] = o.file] /\ Count(o.ok)
      BY <2>1 DEF CreateGrant, WriteGrant
    <3>2. o.file \in {"stored", Absent, Torn}
      BY <3>1, WriteOutcome
    <3> QED BY <3>1, <3>2
  <2>2. CASE RevokeGrant(k, g) \/ RetireGrantByToken(k, g)
    <3>1. PICK o \in removeFile(grants[k][g]) :
             grants' = [grants EXCEPT ![k][g] = o.file] /\ Count(o.ok)
      BY <2>2 DEF RevokeGrant, RetireGrantByToken, WriteGrant
    <3>2. o.file \in {"stored", Absent, Torn}
      BY <3>1, RemoveOutcome DEF StorageTypeOK
    <3> QED BY <3>1, <3>2
  <2> QED BY <2>1, <2>2
<1>2. faults' \in 0..MaxFaults
  BY <1>1, CountType DEF StorageTypeOK
<1>3. UNCHANGED <<keyFiles, alias, dropped, nmat>>
  BY DEF CreateGrant, RevokeGrant, RetireGrantByToken, WriteGrant
<1>4. grants' \in [Keys -> [Grants -> {"stored", Absent, Torn}]]
  BY <1>1 DEF StorageTypeOK
<1> QED BY <1>2, <1>3, <1>4 DEF StorageTypeOK, keyFiles

-----------------------------------------------------------------------------
(* What the operations do to the materials. *)

LEMMA QuietKeeps ==
    ASSUME Numbered, TypeOK, UNCHANGED <<kind, material, prev, nmat>>,
           \A k \in Keys : meta[k] # Absent => meta'[k] # Absent
    PROVE  Keeps
BY Constants DEF Keeps, Numbered, TypeOK, StorageTypeOK

LEMMA CreateKeyKeeps ==
    ASSUME Numbered, TypeOK, NEW k \in Keys, NEW kd \in Kinds,
           CreateKeyDone(k, kd) \/ CreateKeyFailed(k, kd)
    PROVE  Keeps
<1>1. PICK me \in {"Enabled", Absent, Torn}, ma \in {NewMaterial(kd), Absent, Torn},
           po \in {"default", Absent, Torn} : SetKey(k, me, kd, ma, po)
  BY DEF CreateKeyDone, CreateKeyFailed
<1>2. meta[k] = Absent
  BY DEF CreateKeyDone, CreateKeyFailed, Fresh
<1>3. \A j \in Keys : meta[j] # Absent => meta'[j] = meta[j] /\ kind'[j] = kind[j]
                                          /\ material'[j] = material[j] /\ prev'[j] = prev[j]
  BY <1>1, <1>2 DEF SetKey, TypeOK, StorageTypeOK
<1>4. nmat' \in Nat /\ nmat <= nmat'
  BY <1>1, Constants DEF SetKey, TypeOK, StorageTypeOK
<1>5. Numbered'
  <2> SUFFICES ASSUME NEW j \in Keys, material'[j] \in Material PROVE material'[j] <= nmat'
    BY DEF Numbered, Material
  <2>1. CASE j # k
    <3>1. material'[j] = material[j]
      BY <1>1, <2>1 DEF SetKey, TypeOK, StorageTypeOK
    <3>2. material[j] \in Int /\ material[j] <= nmat
      BY <3>1 DEF Numbered, Material
    <3>3. nmat \in Int /\ nmat' \in {nmat, nmat + 1}
      BY <1>1, Constants DEF SetKey, TypeOK, StorageTypeOK
    <3> QED BY <3>1, <3>2, <3>3
  <2>2. CASE j = k
    <3>1. material'[j] = ma
      BY <1>1, <2>2 DEF SetKey, TypeOK, StorageTypeOK
    <3>2. HasMaterial(kd) /\ ma = nmat + 1
      BY <3>1, Constants DEF NewMaterial
    <3>3. nmat' = nmat + 1
      BY <3>2, <1>1 DEF SetKey
    <3>4. nmat \in Int
      BY Constants DEF TypeOK, StorageTypeOK
    <3> QED BY <3>1, <3>2, <3>3, <3>4
  <2> QED BY <2>1, <2>2
<1> QED BY <1>3, <1>4, <1>5 DEF Keeps

LEMMA RotateKeeps ==
    ASSUME Numbered, TypeOK, NEW k \in Keys, RotateKeyOnDemand(k)
    PROVE  Keeps
<1>1. PICK p \in {prev[k], prev[k] \ {material[k]}, prev[k] \cup {material[k]}},
           m \in {material[k], Torn, nmat + 1},
           h \in {history[k], Torn, history[k] + 1} :
         (m # material[k] => p = prev[k] \cup {material[k]}) /\ SetMaterials(k, p, m, h)
  BY DEF RotateKeyOnDemand, RotateDone, RotateFailed
<1>2. kind[k] = "symmetric" /\ material[k] \in Material
  BY DEF RotateKeyOnDemand, RotateDone, RotateFailed, CanRotate, Rotatable
<1>3. meta' = meta /\ kind' = kind /\ nmat' = nmat + 1
  BY <1>1 DEF SetMaterials
<1>4. material'[k] = m /\ prev'[k] = p
  BY <1>1 DEF SetMaterials, TypeOK, StorageTypeOK
<1>5. \A j \in Keys : j # k => material'[j] = material[j] /\ prev'[j] = prev[j]
  BY <1>1 DEF SetMaterials, TypeOK, StorageTypeOK
<1>6. nmat \in Nat /\ Material \subseteq Int
  BY Constants DEF TypeOK, StorageTypeOK, Material
<1>7. Numbered'
  <2> SUFFICES ASSUME NEW j \in Keys, material'[j] \in Material PROVE material'[j] <= nmat'
    BY DEF Numbered, Material
  <2>1. CASE j # k
    <3>1. material'[j] = material[j] /\ material[j] \in Int
      BY <2>1, <1>5, <1>6
    <3>2. material[j] <= nmat
      BY <3>1 DEF Numbered
    <3> QED BY <3>1, <3>2, <1>3, <1>6
  <2>2. CASE j = k
    <3>1. material'[j] \in {material[k], nmat + 1}
      BY <2>2, <1>1, <1>4, Constants
    <3>2. material[k] \in Int /\ material[k] <= nmat
      BY <1>2, <1>6 DEF Numbered
    <3> QED BY <3>1, <3>2, <1>3, <1>6
  <2> QED BY <2>1, <2>2
<1> QED BY <1>1, <1>2, <1>3, <1>4, <1>5, <1>6, <1>7 DEF Keeps

LEMMA StateKeeps ==
    ASSUME Numbered, TypeOK, NEW k \in Keys,
           \/ EnableKey(k) \/ DisableKey(k) \/ ScheduleKeyDeletion(k) \/ CancelKeyDeletion(k)
    PROVE  Keeps
<1>1. PICK s \in State : WriteState(k, s)
  BY DEF EnableKey, DisableKey, ScheduleKeyDeletion, CancelKeyDeletion, State
<1>2. meta[k] \in State
  BY DEF EnableKey, DisableKey, ScheduleKeyDeletion, CancelKeyDeletion, State
<1>3. PICK o \in writeJSON(meta[k], s) : meta' = [meta EXCEPT ![k] = o.file]
  BY <1>1 DEF WriteState
<1>4. o.file # Absent
  BY <1>2, <1>3, WriteOutcome, Constants
<1>5. \A j \in Keys : meta[j] # Absent => meta'[j] # Absent
  BY <1>3, <1>4 DEF TypeOK, StorageTypeOK
<1> QED BY <1>1, <1>5, QuietKeeps DEF WriteState

LEMMA StorageUnchangedKeeps ==
    ASSUME Numbered, TypeOK, UNCHANGED storage
    PROVE  Keeps
BY QuietKeeps DEF storage

LEMMA AliasKeeps ==
    ASSUME Numbered, TypeOK, NEW a \in Aliases, NEW k \in Keys, NEW ok \in BOOLEAN,
           WriteAlias(a, k, ok)
    PROVE  Keeps
BY QuietKeeps DEF WriteAlias, keyFiles

\* What is sealed stays sealed.
LEMMA SealedStays ==
    ASSUME TypeOK, Numbered, Keeps, NEW k \in Keys, NEW m \in Material, Sealed(k, m)
    PROVE  Sealed(k, m)'
<1>1. meta'[k] # Absent /\ kind'[k] = kind[k]
  BY DEF Keeps, Sealed
<1>2. m <= nmat'
  <2>1. nmat \in Int /\ m \in Int
    BY Constants DEF TypeOK, StorageTypeOK, Material
  <2>2. nmat' \in Int /\ nmat <= nmat' /\ m <= nmat
    BY DEF Keeps, Sealed
  <2> QED BY <2>1, <2>2
<1>3. material'[k] = m \/ m \in prev'[k]
  BY DEF Keeps, Sealed, Held
<1>4. kind'[k] # "symmetric" => material'[k] = m
  BY DEF Keeps, Sealed
<1> QED BY <1>1, <1>2, <1>3, <1>4 DEF Sealed, Held

\* A request that does not move can rely on the same things after an operation.
LEMMA GoodStays ==
    ASSUME TypeOK, Numbered, Keeps, out \subseteq out', NEW r \in Request, Good(r),
           \A o \in out : Sealed(o.key, o.mat)
    PROVE  Good(r)'
<1>1. r.step = "load" => meta'[r.key] # Absent
  BY DEF Good, Keeps
<1>2. r.step = "seal" => r.mat \in Material /\ Sealed(r.key, r.mat)'
  BY SealedStays DEF Good
<1>3. ASSUME r.step = "previous"
      PROVE  r.out.mat \in prev'[r.key] /\ material'[r.key] # r.out.mat
  <2>1. r.key \in Keys /\ r.out \in out /\ r.out.key = r.key
    BY <1>3 DEF Good
  <2>2. r.out.mat \in Material /\ Sealed(r.key, r.out.mat)
    BY <2>1 DEF TypeOK, Output
  <2>3. r.out.mat \in prev[r.key] /\ material[r.key] # r.out.mat
    BY <1>3 DEF Good
  <2>4. r.out.mat # nmat + 1
    BY <2>2, Constants DEF Sealed, TypeOK, StorageTypeOK, Material
  <2> QED BY <2>1, <2>2, <2>3, <2>4, Constants DEF Keeps, Sealed
<1> QED BY <1>1, <1>2, <1>3 DEF Good

-----------------------------------------------------------------------------
(* The invariant is inductive. *)

LEMMA IdleGood == Idle \in Request /\ Good(Idle) /\ Good(Idle)'
<1>1. Idle \in Request
  BY DEF Idle, Request, Steps
<1>2. Idle.step = "idle"
  BY DEF Idle
<1> QED BY <1>1, <1>2 DEF Good

\* An operation of the storage by somebody who is not a client.
LEMMA StorageStep ==
    ASSUME Inv, StorageTypeOK', Keeps, Alone, UNCHANGED work
    PROVE  Inv'
<1>1. TypeOK'
  BY DEF Inv, TypeOK, Alone
<1>2. \A o \in out' : Sealed(o.key, o.mat)'
  <2> SUFFICES ASSUME NEW o \in out PROVE Sealed(o.key, o.mat)'
    BY DEF Alone
  <2>1. o.key \in Keys /\ o.mat \in Material /\ Sealed(o.key, o.mat)
    BY DEF Inv, TypeOK, Output
  <2> QED BY <2>1, SealedStays DEF Inv
<1>3. \A c \in Clients : Good(req[c])'
  <2> SUFFICES ASSUME NEW c \in Clients PROVE Good(req[c])'
    OBVIOUS
  <2>1. req[c] \in Request /\ Good(req[c]) /\ req'[c] = req[c]
    BY DEF Inv, TypeOK, Alone
  <2>2. out \subseteq out'
    BY DEF Alone
  <2> DEFINE r == req[c]
  <2>3. Good(r)'
    BY <2>1, <2>2, GoodStays DEF Inv
  <2> QED BY <2>3
<1> QED BY <1>1, <1>2, <1>3 DEF Inv, Alone, Keeps, GenuineOpens

\* A client moves to the request r.
LEMMA RequestStep ==
    ASSUME Inv, StorageTypeOK', Keeps, NEW c \in Clients, NEW r \in Request,
           req' = [req EXCEPT ![c] = r], Good(r)',
           out \subseteq out', out' \subseteq Output, \A o \in out' \ out : Sealed(o.key, o.mat)',
           refused' \subseteq Refusal, GenuineOpens', UNCHANGED work
    PROVE  Inv'
<1>1. TypeOK'
  BY DEF Inv, TypeOK
<1>2. \A o \in out' : Sealed(o.key, o.mat)'
  <2> SUFFICES ASSUME NEW o \in out PROVE Sealed(o.key, o.mat)'
    OBVIOUS
  <2>1. o.key \in Keys /\ o.mat \in Material /\ Sealed(o.key, o.mat)
    BY DEF Inv, TypeOK, Output
  <2> QED BY <2>1, SealedStays DEF Inv
<1>3. \A d \in Clients : Good(req[d])'
  <2> SUFFICES ASSUME NEW d \in Clients PROVE Good(req[d])'
    OBVIOUS
  <2>1. CASE d = c
    <3>1. req'[d] = r
      BY <2>1 DEF Inv, TypeOK
    <3> QED BY <3>1
  <2>2. CASE d # c
    <3>1. req[d] \in Request /\ Good(req[d]) /\ req'[d] = req[d]
      BY <2>2 DEF Inv, TypeOK
    <3> QED BY <3>1, GoodStays DEF Inv
  <2> QED BY <2>1, <2>2
<1> QED BY <1>1, <1>2, <1>3 DEF Inv, Keeps

\* A client moves, and the storage stays as it is.
LEMMA MoveStep ==
    ASSUME Inv, NEW c \in Clients, NEW r \in Request, Become(c, r), Good(r),
           UNCHANGED <<storage, out, refused, work>>
    PROVE  Inv'
<1>1. StorageTypeOK'
  BY DEF Inv, TypeOK, StorageTypeOK, storage
<1>2. Keeps
  BY StorageUnchangedKeeps DEF Inv
<1>3. Good(r)'
  BY DEF Good, Sealed, Held, storage
<1>4. refused' \subseteq Refusal /\ GenuineOpens'
  BY DEF Inv, TypeOK, GenuineOpens
<1> QED BY <1>1, <1>2, <1>3, <1>4, RequestStep DEF Become, Inv, TypeOK

\* A request ends because the previous materials cannot be read.
LEMMA UnreadableStep ==
    ASSUME Inv, NEW c \in Clients, req[c].out \in Output, Refuse(c, "unreadable"),
           UNCHANGED <<storage, out, work>>
    PROVE  Inv'
<1>1. StorageTypeOK'
  BY DEF Inv, TypeOK, StorageTypeOK, storage
<1>2. Keeps
  BY StorageUnchangedKeeps DEF Inv
<1> DEFINE x == [out |-> req[c].out, cause |-> "unreadable"]
<1>3. x \in Refusal /\ x.cause = "unreadable" /\ refused' = refused \cup {x}
  BY DEF Refuse, Refusal
<1>4. refused' \subseteq Refusal /\ GenuineOpens'
  BY <1>3 DEF Inv, TypeOK, GenuineOpens
<1> QED BY <1>1, <1>2, <1>4, IdleGood, RequestStep DEF Refuse, Become, Inv, TypeOK

LEMMA UseMoves ==
    ASSUME Inv, NEW c \in Clients, UNCHANGED work,
           \/ \E k \in Keys : BeginUse(c, k)
           \/ \E o \in out, d \in Keys \cup {Absent} : BeginOpen(c, o, d)
           \/ LoadToSeal(c)
           \/ CheckDestination(c)
    PROVE  Inv'
<1>0. req[c] \in Request /\ Good(req[c])
  BY DEF Inv, TypeOK
<1>1. ASSUME NEW k \in Keys, BeginUse(c, k) PROVE Inv'
  <2> DEFINE r == [Idle EXCEPT !.step = "load", !.key = k]
  <2>1. r \in Request /\ r.step = "load" /\ r.key = k
    BY IdleGood DEF Request, Steps
  <2>2. meta[k] # Absent
    BY <1>1, StorageAssumption DEF BeginUse, Usable
  <2>3. Good(r)
    BY <2>1, <2>2 DEF Good
  <2> QED BY <1>1, <2>1, <2>3, MoveStep DEF BeginUse
<1>2. ASSUME NEW o \in out, NEW d \in Keys \cup {Absent}, BeginOpen(c, o, d) PROVE Inv'
  <2> DEFINE r == [Idle EXCEPT !.step = "open", !.key = o.key, !.out = o, !.dst = d]
  <2>1. o \in Output /\ o.key \in Keys
    BY DEF Inv, TypeOK, Output
  <2>2. r \in Request /\ r.step = "open" /\ r.key = o.key /\ r.out = o
    BY <2>1, IdleGood DEF Request, Steps
  <2>3. Good(r)
    BY <2>1, <2>2 DEF Good
  <2> QED BY <1>2, <2>2, <2>3, MoveStep DEF BeginOpen
<1>3. CASE LoadToSeal(c)
  <2> DEFINE k == req[c].key
             r(m) == [req[c] EXCEPT !.step = "seal", !.mat = m]
  <2>1. k \in Keys /\ meta[k] # Absent
    BY <1>0, <1>3 DEF Good, LoadToSeal, At
  <2>2. UNCHANGED <<storage, out, refused>>
    BY <1>3 DEF LoadToSeal
  <2>3. ASSUME NEW m \in Material, Loads(k, m), Become(c, r(m)) PROVE Inv'
    <3>1. r(m) \in Request /\ r(m).step = "seal" /\ r(m).key = k /\ r(m).mat = m
      BY <1>0, <2>3 DEF Request, Steps
    <3>2. Sealed(k, m)
      BY <2>1, <2>3 DEF Sealed, Held, Inv, Numbered, Loads
    <3>3. Good(r(m))
      BY <2>1, <2>3, <3>1, <3>2 DEF Good
    <3> QED BY <2>2, <2>3, <3>1, <3>3, MoveStep
  <2>4. CASE Become(c, Idle)
    BY <2>2, <2>4, IdleGood, MoveStep
  <2> QED BY <1>3, <2>3, <2>4 DEF LoadToSeal
<1>4. CASE CheckDestination(c)
  <2> DEFINE d == req[c].dst
             r == [Idle EXCEPT !.step = "load", !.key = d]
  <2>1. d \in Keys
    BY <1>0, <1>4 DEF Good, CheckDestination, At
  <2>2. CASE Usable(d) /\ kind[d] = "symmetric"
    <3>1. r \in Request /\ r.step = "load" /\ r.key = d
      BY <2>1, IdleGood DEF Request, Steps
    <3>2. meta[d] # Absent
      BY <2>2, StorageAssumption DEF Usable
    <3>3. Good(r)
      BY <2>1, <3>1, <3>2 DEF Good
    <3>4. Become(c, r) /\ UNCHANGED <<storage, out, refused>>
      BY <1>4, <2>2 DEF CheckDestination
    <3> QED BY <3>1, <3>3, <3>4, MoveStep
  <2>3. CASE ~(Usable(d) /\ kind[d] = "symmetric")
    <3>1. Become(c, Idle) /\ UNCHANGED <<storage, out, refused>>
      BY <1>4, <2>3 DEF CheckDestination
    <3> QED BY <3>1, IdleGood, MoveStep
  <2> QED BY <2>2, <2>3
<1> QED BY <1>1, <1>2, <1>3, <1>4

LEMMA SealMoves ==
    ASSUME Inv, NEW c \in Clients, UNCHANGED work, Seal(c)
    PROVE  Inv'
<1>1. PICK k \in Keys, m \in Material : k = req[c].key /\ m = req[c].mat /\ Sealed(k, m)
  BY DEF Inv, Good, Seal, At
<1> DEFINE o == [key |-> k, mat |-> m]
<1>2. o \in Output /\ o.key = k /\ o.mat = m
  BY DEF Output
<1>3. Keeps
  BY StorageUnchangedKeeps DEF Inv, Seal
<1>4. StorageTypeOK'
  BY DEF Inv, TypeOK, StorageTypeOK, Seal, storage
<1>5. Sealed(k, m)'
  BY <1>1, <1>3, SealedStays DEF Inv
<1>6. out' = out \cup {o}
  BY <1>1 DEF Seal
<1>7. out' \subseteq Output
  BY <1>2, <1>6 DEF Inv, TypeOK
<1>8. \A p \in out' \ out : Sealed(p.key, p.mat)'
  BY <1>2, <1>5, <1>6
<1>9. req' = [req EXCEPT ![c] = Idle] /\ refused' \subseteq Refusal /\ GenuineOpens'
  BY DEF Seal, Become, Inv, TypeOK, GenuineOpens
<1> QED BY <1>3, <1>4, <1>6, <1>7, <1>8, <1>9, IdleGood, RequestStep

\* What follows an output that was opened.
LEMMA OpenedGood ==
    ASSUME Inv, NEW c \in Clients
    PROVE  Opened(c) \in Request /\ Good(Opened(c))
<1>1. req[c] \in Request
  BY DEF Inv, TypeOK
<1>2. CASE req[c].dst = Absent
  BY <1>2, IdleGood DEF Opened
<1>3. CASE req[c].dst # Absent
  <2> DEFINE r == [req[c] EXCEPT !.step = "destination"]
  <2>1. r \in Request /\ r.step = "destination" /\ r.dst \in Keys
    BY <1>1, <1>3 DEF Request, Steps
  <2>2. Good(r)
    BY <2>1 DEF Good
  <2> QED BY <1>3, <2>1, <2>2 DEF Opened
<1> QED BY <1>2, <1>3

LEMMA OpenMoves ==
    ASSUME Inv, NEW c \in Clients, UNCHANGED work, LoadToOpen(c) \/ TryPrevious(c)
    PROVE  Inv'
<1> DEFINE k == req[c].key
           o == req[c].out
<1>0. req[c] \in Request /\ Good(req[c])
  BY DEF Inv, TypeOK
<1>1. k \in Keys /\ o \in out /\ o.key = k
  BY <1>0 DEF Good, LoadToOpen, TryPrevious, At
<1>2. Sealed(k, o.mat)
  BY <1>1 DEF Inv
<1>3. UNCHANGED <<storage, out>>
  BY DEF LoadToOpen, TryPrevious
<1>4. CASE LoadToOpen(c)
  <2>1. CASE Become(c, Idle) /\ UNCHANGED refused
    BY <2>1, <1>3, IdleGood, MoveStep
  <2>2. CASE Become(c, Opened(c)) /\ UNCHANGED refused
    BY <2>2, <1>3, OpenedGood, MoveStep
  <2>3. ASSUME NEW m \in Material, Loads(k, m), m # o.mat,
               IF kind[k] = "symmetric"
               THEN Become(c, [req[c] EXCEPT !.step = "previous"]) /\ UNCHANGED refused
               ELSE Refuse(c, "invalid")
        PROVE  Inv'
    <3> DEFINE r == [req[c] EXCEPT !.step = "previous"]
    <3>1. kind[k] = "symmetric" /\ o.mat \in prev[k] /\ material[k] # o.mat
      BY <1>2, <2>3 DEF Sealed, Held, Loads
    <3>2. Become(c, r) /\ UNCHANGED refused
      BY <2>3, <3>1
    <3>3. r \in Request /\ r.step = "previous" /\ r.key = k /\ r.out = o
      BY <1>0 DEF Request, Steps
    <3>4. Good(r)
      BY <1>1, <3>1, <3>3 DEF Good
    <3> QED BY <1>3, <3>2, <3>3, <3>4, MoveStep
  <2> QED BY <1>4, <2>1, <2>2, <2>3 DEF LoadToOpen
<1>5. CASE TryPrevious(c)
  <2>1. o.mat \in prev[k]
    BY <1>0, <1>5 DEF Good, TryPrevious, At
  <2>2. CASE Become(c, Opened(c)) /\ UNCHANGED refused
    BY <2>2, <1>3, OpenedGood, MoveStep
  <2>3. CASE Refuse(c, "unreadable")
    <3>1. o \in Output
      BY <1>1 DEF Inv, TypeOK
    <3> QED BY <2>3, <3>1, <1>3, UnreadableStep
  <2> QED BY <1>5, <2>1, <2>2, <2>3 DEF TryPrevious
<1> QED BY <1>4, <1>5

LEMMA CheckMoves ==
    ASSUME Inv, NEW c \in Clients, UNCHANGED work,
           \/ \E a \in Aliases, k \in Keys : BeginUpdateAlias(c, a, k)
           \/ \E k \in Keys : BeginPutKeyPolicy(c, k)
    PROVE  Inv'
<1>1. ASSUME NEW a \in Aliases, NEW k \in Keys, BeginUpdateAlias(c, a, k) PROVE Inv'
  <2> DEFINE r == [Idle EXCEPT !.step = "retarget", !.key = k, !.alias = a]
  <2>1. r \in Request /\ r.step = "retarget" /\ r.key = k /\ r.alias = a
    BY IdleGood DEF Request, Steps
  <2>2. Good(r)
    BY <1>1, <2>1 DEF Good, BeginUpdateAlias
  <2> QED BY <1>1, <2>1, <2>2, MoveStep DEF BeginUpdateAlias
<1>2. ASSUME NEW k \in Keys, BeginPutKeyPolicy(c, k) PROVE Inv'
  <2> DEFINE r == [Idle EXCEPT !.step = "policy", !.key = k]
  <2>1. r \in Request /\ r.step = "policy" /\ r.key = k
    BY IdleGood DEF Request, Steps
  <2>2. Good(r)
    BY <2>1 DEF Good
  <2> QED BY <1>2, <2>1, <2>2, MoveStep DEF BeginPutKeyPolicy
<1> QED BY <1>1, <1>2

\* A client moves while the storage changes, and nothing is answered.
LEMMA WriteStep ==
    ASSUME Inv, NEW c \in Clients, NEW r \in Request, Become(c, r), Good(r)',
           StorageTypeOK', Keeps, UNCHANGED <<out, refused, work>>
    PROVE  Inv'
BY RequestStep DEF Become, Inv, TypeOK, GenuineOpens

LEMMA EndUpdateAliasMoves ==
    ASSUME Inv, NEW c \in Clients, UNCHANGED work, EndUpdateAlias(c)
    PROVE  Inv'
<1>1. PICK k \in Keys, a \in Aliases : k = req[c].key /\ a = req[c].alias
  BY DEF Inv, Good, EndUpdateAlias, At
<1>2. Become(c, Idle) /\ UNCHANGED <<out, refused>>
  BY DEF EndUpdateAlias
<1>3. CASE UNCHANGED storage
  BY <1>2, <1>3, IdleGood, MoveStep
<1>4. ASSUME NEW ok \in BOOLEAN, UpdateAlias(a, k, ok) PROVE Inv'
  <2>1. WriteAlias(a, k, ok)
    BY <1>4 DEF UpdateAlias
  <2>2. StorageTypeOK'
    BY <2>1, WriteAliasType DEF Inv, TypeOK
  <2>3. Keeps
    BY <2>1, AliasKeeps DEF Inv
  <2> QED BY <1>2, <2>2, <2>3, IdleGood, WriteStep
<1> QED BY <1>1, <1>3, <1>4 DEF EndUpdateAlias

LEMMA EndPutKeyPolicyMoves ==
    ASSUME Inv, NEW c \in Clients, UNCHANGED work, EndPutKeyPolicy(c)
    PROVE  Inv'
<1>1. PICK k \in Keys : k = req[c].key
  BY DEF Inv, Good, EndPutKeyPolicy, At
<1>2. Become(c, Idle) /\ UNCHANGED <<out, refused>> /\ PutKeyPolicy(k)
  BY <1>1 DEF EndPutKeyPolicy
<1>3. StorageTypeOK'
  BY <1>2, PolicyType DEF Inv, TypeOK
<1>4. Keeps
  BY <1>2, QuietKeeps DEF Inv, PutKeyPolicy
<1> QED BY <1>2, <1>3, <1>4, IdleGood, WriteStep

\* A request that relies on nothing.
LEMMA FreeGood ==
    ASSUME NEW r, r.step \in {"idle", "ensure", "create", "again"}
    PROVE  Good(r) /\ Good(r)'
BY DEF Good

LEMMA EnsuredGood ==
    ASSUME Inv, NEW c \in Clients
    PROVE  Ensured(c) \in Request /\ Ensured(c).step \in {"idle", "ensure"}
<1> DEFINE r == [Idle EXCEPT !.step = "ensure", !.round = 2]
<1>1. r \in Request /\ r.step = "ensure"
  <2>1. 2 \in 0..2
    OBVIOUS
  <2> HIDE DEF r
  <2>2. r = [Idle EXCEPT !.step = "ensure", !.round = 2]
    BY DEF r
  <2> QED BY <2>1, <2>2, IdleGood, Zenon DEF Request, Steps
<1>2. Idle \in Request /\ Idle.step = "idle"
  BY IdleGood DEF Idle
<1> QED BY <1>1, <1>2 DEF Ensured

LEMMA S3Moves ==
    ASSUME Inv, NEW c \in Clients, UNCHANGED work, BeginS3(c) \/ Resolve(c)
    PROVE  Inv'
<1>0. req[c] \in Request
  BY DEF Inv, TypeOK
<1>1. CASE BeginS3(c)
  <2> DEFINE r == [Idle EXCEPT !.step = "ensure", !.round = 1]
  <2>1. r \in Request /\ r.step = "ensure"
    <3>1. 1 \in 0..2
      OBVIOUS
    <3> HIDE DEF r
    <3>2. r = [Idle EXCEPT !.step = "ensure", !.round = 1]
      BY DEF r
    <3> QED BY <3>1, <3>2, IdleGood, Zenon DEF Request, Steps
  <2>2. Good(r)
    BY <2>1 DEF Good
  <2> QED BY <1>1, <2>1, <2>2, MoveStep DEF BeginS3
<1>2. CASE Resolve(c)
  <2> DEFINE r == [req[c] EXCEPT !.step = "create"]
  <2>1. r \in Request /\ r.step = "create"
    BY <1>0 DEF Request, Steps
  <2>2. UNCHANGED <<storage, out, refused>>
    BY <1>2 DEF Resolve
  <2>3. CASE Become(c, Ensured(c))
    BY <2>2, <2>3, EnsuredGood, FreeGood, MoveStep
  <2>4. CASE Become(c, r)
    <3>1. Good(r)
      BY <2>1 DEF Good
    <3> QED BY <2>1, <2>2, <2>4, <3>1, MoveStep
  <2>5. CASE Become(c, Idle)
    BY <2>2, <2>5, IdleGood, MoveStep
  <2> QED BY <1>2, <2>3, <2>4, <2>5 DEF Resolve
<1> QED BY <1>1, <1>2

LEMMA CreateManagedKeyMoves ==
    ASSUME Inv, NEW c \in Clients, NEW k \in Keys, UNCHANGED work, CreateManagedKey(c, k)
    PROVE  Inv'
<1>1. CreateKeyDone(k, "symmetric") \/ CreateKeyFailed(k, "symmetric")
  BY DEF CreateManagedKey
<1>2. "symmetric" \in Kinds
  BY DEF Kinds
<1>3. StorageTypeOK'
  BY <1>1, <1>2, CreateKeyType DEF Inv, TypeOK
<1>4. Keeps
  BY <1>1, <1>2, CreateKeyKeeps DEF Inv
<1>5. UNCHANGED <<out, refused>>
  BY DEF CreateManagedKey
<1>6. PICK q \in Request : q = [req[c] EXCEPT !.step = "name", !.key = k]
  <2>1. req[c] \in Request
    BY DEF Inv, TypeOK
  <2> QED BY <2>1 DEF Request, Steps
<1>7. CASE Become(c, q)
  <2>1. q.step = "name" /\ q.key = k
    <3>1. req[c] \in Request
      BY DEF Inv, TypeOK
    <3> QED BY <3>1, <1>6 DEF Request
  <2>2. Good(q)'
    BY <2>1 DEF Good
  <2> QED BY <1>3, <1>4, <1>5, <1>7, <2>2, WriteStep
<1>8. CASE Become(c, Idle)
  BY <1>3, <1>4, <1>5, <1>8, IdleGood, WriteStep
<1> QED BY <1>6, <1>7, <1>8 DEF CreateManagedKey

LEMMA NameManagedKeyMoves ==
    ASSUME Inv, NEW c \in Clients, UNCHANGED work, NameManagedKey(c)
    PROVE  Inv'
<1>0. PICK k \in Keys : k = req[c].key
  BY DEF Inv, Good, NameManagedKey, At
<1>1. UNCHANGED <<out, refused>>
  BY DEF NameManagedKey
<1>2. PICK e \in Request : e = Ensured(c) /\ Good(e)'
  BY EnsuredGood, FreeGood
<1>3. ASSUME NEW ok \in BOOLEAN, CreateAlias(AwsS3, k, ok),
             Become(c, IF ok THEN Ensured(c) ELSE Idle)
      PROVE  Inv'
  <2>1. WriteAlias(AwsS3, k, ok) /\ AwsS3 \in Aliases
    BY <1>3, Constants DEF CreateAlias
  <2>2. StorageTypeOK'
    BY <2>1, WriteAliasType DEF Inv, TypeOK
  <2>3. Keeps
    BY <2>1, AliasKeeps DEF Inv
  <2>4. CASE Become(c, e)
    BY <1>1, <1>2, <2>2, <2>3, <2>4, WriteStep
  <2>5. CASE Become(c, Idle)
    BY <1>1, <2>2, <2>3, <2>5, IdleGood, WriteStep
  <2> QED BY <1>2, <1>3, <2>4, <2>5
<1>4. CASE UNCHANGED storage /\ Become(c, IF Admits(k) THEN [req[c] EXCEPT !.step = "again"] ELSE Idle)
  <2> DEFINE r == [req[c] EXCEPT !.step = "again"]
  <2>1. req[c] \in Request
    BY DEF Inv, TypeOK
  <2>2. r \in Request /\ r.step = "again"
    BY <2>1 DEF Request, Steps
  <2>3. CASE Become(c, r)
    <3>1. Good(r)
      BY <2>2 DEF Good
    <3> QED BY <1>1, <1>4, <2>2, <2>3, <3>1, MoveStep
  <2>4. CASE Become(c, Idle)
    BY <1>1, <1>4, <2>4, IdleGood, MoveStep
  <2> QED BY <1>4, <2>3, <2>4
<1> QED BY <1>0, <1>3, <1>4 DEF NameManagedKey

LEMMA RestartMoves ==
    ASSUME Inv, UNCHANGED work, Restart
    PROVE  Inv'
<1>1. StorageTypeOK'
  BY DEF Inv, TypeOK, StorageTypeOK, Restart, storage
<1>2. TypeOK'
  BY <1>1, IdleGood DEF Inv, TypeOK, Restart
<1>3. Numbered' /\ \A o \in out' : Sealed(o.key, o.mat)'
  BY DEF Inv, Numbered, Sealed, Held, Restart, storage
<1>4. \A c \in Clients : Good(req[c])'
  BY IdleGood DEF Restart
<1> QED BY <1>2, <1>3, <1>4 DEF Inv, Restart, GenuineOpens

\* Every request that is one operation of the storage.
LEMMA AloneMoves ==
    ASSUME Inv, UNCHANGED work, Alone,
           \/ ChangeKeys \/ ChangeStates \/ Rotate \/ Configure \/ ChangeAliases \/ ChangeGrants
    PROVE  Inv'
<1>0. Numbered /\ TypeOK /\ StorageTypeOK
  BY DEF Inv, TypeOK
<1>1. CASE ChangeKeys
  <2>1. PICK k \in Keys, kd \in KindsMade : CreateKeyDone(k, kd) \/ CreateKeyFailed(k, kd)
    BY <1>1 DEF ChangeKeys
  <2>2. kd \in Kinds
    BY Constants
  <2> QED BY <1>0, <2>1, <2>2, CreateKeyType, CreateKeyKeeps, StorageStep
<1>2. CASE ChangeStates
  BY <1>0, <1>2, StateType, StateKeeps, StorageStep DEF ChangeStates
<1>3. CASE Rotate
  BY <1>0, <1>3, RotateType, RotateKeeps, StorageStep DEF Rotate
<1>4. CASE Configure
  <2>1. PICK k \in Keys :
           \/ EnableKeyRotation(k) \/ DisableKeyRotation(k)
           \/ \E t \in (SUBSET TagKeys) \ {{}} : TagResource(k, t) \/ UntagResource(k, t)
    BY <1>4 DEF Configure
  <2>2. CASE EnableKeyRotation(k) \/ DisableKeyRotation(k)
    <3>1. UNCHANGED <<meta, kind, material, prev, nmat>>
      BY <2>2 DEF EnableKeyRotation, DisableKeyRotation, WriteRotation
    <3> QED BY <1>0, <2>2, <3>1, RotationType, QuietKeeps, StorageStep
  <2>3. ASSUME NEW t \in SUBSET TagKeys, TagResource(k, t) \/ UntagResource(k, t) PROVE Inv'
    <3>1. UNCHANGED <<meta, kind, material, prev, nmat>>
      BY <2>3 DEF TagResource, UntagResource, WriteTags
    <3> QED BY <1>0, <2>3, <3>1, TagType, QuietKeeps, StorageStep
  <2> QED BY <2>1, <2>2, <2>3
<1>5. CASE ChangeAliases
  <2>1. ASSUME NEW a \in Aliases, NEW k \in Keys, NEW ok \in BOOLEAN, CreateAlias(a, k, ok)
        PROVE  Inv'
    <3>1. WriteAlias(a, k, ok)
      BY <2>1 DEF CreateAlias
    <3> QED BY <1>0, <3>1, WriteAliasType, AliasKeeps, StorageStep
  <2>2. ASSUME NEW a \in Aliases, DeleteAlias(a) PROVE Inv'
    <3>1. UNCHANGED <<meta, kind, material, prev, nmat>>
      BY <2>2 DEF DeleteAlias, keyFiles
    <3> QED BY <1>0, <2>2, <3>1, DeleteAliasType, QuietKeeps, StorageStep
  <2> QED BY <1>5, <2>1, <2>2 DEF ChangeAliases
<1>6. CASE ChangeGrants
  <2>1. PICK k \in Keys, g \in Grants :
           CreateGrant(k, g) \/ RevokeGrant(k, g) \/ RetireGrantByToken(k, g)
    BY <1>6 DEF ChangeGrants
  <2>2. UNCHANGED <<meta, kind, material, prev, nmat>>
    BY <2>1 DEF CreateGrant, RevokeGrant, RetireGrantByToken, WriteGrant, keyFiles
  <2> QED BY <1>0, <2>1, <2>2, GrantType, QuietKeeps, StorageStep
<1> QED BY <1>1, <1>2, <1>3, <1>4, <1>5, <1>6

LEMMA InitInv == Init => Inv
<1> SUFFICES ASSUME Init PROVE Inv
  OBVIOUS
<1>1. StorageTypeOK
  BY Constants DEF Init, StorageInit, StorageTypeOK, Kinds
<1>2. TypeOK
  BY <1>1, IdleGood DEF Init, TypeOK
<1>3. Numbered
  BY Constants DEF Init, StorageInit, Numbered
<1> QED BY <1>2, <1>3, IdleGood DEF Init, Inv, GenuineOpens

LEMMA InvNext == Inv /\ [Next]_vars => Inv'
<1> SUFFICES ASSUME Inv, [Next]_vars PROVE Inv'
  OBVIOUS
<1>1. CASE UNCHANGED vars
  <2>1. Alone /\ UNCHANGED work /\ UNCHANGED storage
    BY <1>1 DEF vars, Alone, storage
  <2>2. StorageTypeOK'
    BY <2>1 DEF Inv, TypeOK, StorageTypeOK, storage
  <2>3. Keeps
    BY <2>1, StorageUnchangedKeeps DEF Inv
  <2> QED BY <2>1, <2>2, <2>3, StorageStep
<1>2. CASE Next
  <2>0. UNCHANGED work
    BY <1>2 DEF Next
  <2>1. CASE (ChangeKeys \/ ChangeStates \/ Rotate \/ Configure \/ ChangeAliases \/ ChangeGrants) /\ Alone
    BY <2>0, <2>1, AloneMoves
  <2>2. CASE PutPolicies
    BY <2>0, <2>2, CheckMoves, EndPutKeyPolicyMoves DEF PutPolicies
  <2>3. CASE MoveAliases
    BY <2>0, <2>3, CheckMoves, EndUpdateAliasMoves DEF MoveAliases
  <2>4. CASE Use
    BY <2>0, <2>4, UseMoves, SealMoves, OpenMoves DEF Use
  <2>5. CASE S3
    BY <2>0, <2>5, S3Moves, CreateManagedKeyMoves, NameManagedKeyMoves DEF S3
  <2>6. CASE Restart
    BY <2>0, <2>6, RestartMoves
  <2> QED BY <1>2, <2>1, <2>2, <2>3, <2>4, <2>5, <2>6 DEF Next
<1> QED BY <1>1, <1>2

LEMMA AlwaysInv == Spec => []Inv
BY InitInv, InvNext, PTL DEF Spec

\* Whatever is read from a file or held by a request has its type: in particular no request
\* goes on to answer an output without having found a material in material.json.
THEOREM KmsTypeCorrect == Spec => []TypeOK
<1>1. Inv => TypeOK
  BY DEF Inv
<1> QED BY <1>1, AlwaysInv, PTL

\* RotateKeyOnDemand, done or failed at any write, never loses a material that made an
\* output: the property that the run "keys" checks, for any number of keys, requests,
\* rotations and failures.
THEOREM NoMaterialLost == Spec => []SealedMaterialKept
<1>1. Inv => SealedMaterialKept
  BY DEF Inv, Sealed, Held, SealedMaterialKept
<1> QED BY <1>1, AlwaysInv, PTL

\* tryDecryptWithFallback reads the current material and the previous ones under two
\* separate locks; whatever is rotated in between, it calls an output that the server has
\* made invalid only if the second read itself fails.
THEOREM GenuineOutputsOpen == Spec => []GenuineOpens
<1>1. Inv => GenuineOpens
  BY DEF Inv, GenuineOpens
<1> QED BY <1>1, AlwaysInv, PTL

-----------------------------------------------------------------------------
(* What a step may never do. *)

\* What PendingIsFrozen and DefaultKeyStable say of a step.
Frozen(k) ==
    meta[k] = "PendingDeletion" /\ meta'[k] = "PendingDeletion" =>
        /\ <<kind[k], material[k], prev[k], history[k], rotation[k], tags[k]>>'
             = <<kind[k], material[k], prev[k], history[k], rotation[k], tags[k]>>
        /\ \A a \in Aliases : alias'[a] = k => alias[a] = k
        /\ \A g \in Grants : grants'[k][g] # Absent => grants[k][g] # Absent

Stable == alias'[AwsS3] # alias[AwsS3] => alias[AwsS3] = Absent \/ ~(alias'[AwsS3] \in Keys)

Safe == (\A k \in Keys : Frozen(k)) /\ Stable

\* An operation that changes neither these files nor the aliases and grants.
LEMMA QuietSafe ==
    ASSUME UNCHANGED <<kind, material, prev, history, rotation, tags, alias, grants>>
    PROVE  Safe
BY DEF Safe, Frozen, Stable

\* An operation on the files of one key that is not pending deletion.
LEMMA OneKeySafe ==
    ASSUME NEW k \in Keys, meta[k] # "PendingDeletion", UNCHANGED <<alias, grants>>,
           \A j \in Keys \ {k} :
              <<kind[j], material[j], prev[j], history[j], rotation[j], tags[j]>>'
                = <<kind[j], material[j], prev[j], history[j], rotation[j], tags[j]>>
    PROVE  Safe
BY DEF Safe, Frozen, Stable

LEMMA CreateKeySafe ==
    ASSUME StorageTypeOK, NEW k \in Keys, NEW kd \in Kinds,
           CreateKeyDone(k, kd) \/ CreateKeyFailed(k, kd)
    PROVE  Safe
<1>1. PICK me \in {"Enabled", Absent, Torn}, ma \in {NewMaterial(kd), Absent, Torn},
           po \in {"default", Absent, Torn} : SetKey(k, me, kd, ma, po)
  BY DEF CreateKeyDone, CreateKeyFailed
<1>2. meta[k] # "PendingDeletion"
  BY StorageAssumption DEF CreateKeyDone, CreateKeyFailed, Fresh
<1>3. \A j \in Keys \ {k} : kind'[j] = kind[j] /\ material'[j] = material[j]
  BY <1>1 DEF SetKey, StorageTypeOK
<1>4. UNCHANGED <<prev, history, rotation, tags, alias, grants>>
  BY <1>1 DEF SetKey
<1> QED BY <1>2, <1>3, <1>4, OneKeySafe

LEMMA RotateSafe ==
    ASSUME StorageTypeOK, NEW k \in Keys, RotateKeyOnDemand(k)
    PROVE  Safe
<1>1. PICK p, m, h : SetMaterials(k, p, m, h)
  BY DEF RotateKeyOnDemand, RotateDone, RotateFailed
<1>2. meta[k] # "PendingDeletion"
  BY DEF RotateKeyOnDemand, RotateDone, RotateFailed, CanRotate, Rotatable
<1>3. \A j \in Keys \ {k} : prev'[j] = prev[j] /\ material'[j] = material[j]
                             /\ history'[j] = history[j]
  BY <1>1 DEF SetMaterials, StorageTypeOK
<1>4. UNCHANGED <<kind, rotation, tags, alias, grants>>
  BY <1>1 DEF SetMaterials
<1> QED BY <1>2, <1>3, <1>4, OneKeySafe

LEMMA ConfigureSafe ==
    ASSUME StorageTypeOK, Configure
    PROVE  Safe
<1>1. ASSUME NEW k \in Keys, EnableKeyRotation(k) \/ DisableKeyRotation(k) PROVE Safe
  <2>1. PICK r : WriteRotation(k, r)
    BY <1>1 DEF EnableKeyRotation, DisableKeyRotation
  <2>2. meta[k] # "PendingDeletion"
    BY <2>1 DEF WriteRotation, Rotatable
  <2>3. PICK f : rotation' = [rotation EXCEPT ![k] = f]
    BY <2>1 DEF WriteRotation
  <2>4. \A j \in Keys \ {k} : rotation'[j] = rotation[j]
    BY <2>3 DEF StorageTypeOK
  <2>5. UNCHANGED <<kind, material, prev, history, tags, alias, grants>>
    BY <2>1 DEF WriteRotation
  <2> QED BY <2>2, <2>4, <2>5, OneKeySafe
<1>2. ASSUME NEW k \in Keys, NEW t \in SUBSET TagKeys, TagResource(k, t) \/ UntagResource(k, t)
      PROVE  Safe
  <2>1. PICK u : WriteTags(k, u)
    BY <1>2 DEF TagResource, UntagResource
  <2>2. meta[k] # "PendingDeletion"
    BY <1>2 DEF TagResource, UntagResource, Taggable
  <2>3. PICK f : tags' = [tags EXCEPT ![k] = f]
    BY <2>1 DEF WriteTags
  <2>4. \A j \in Keys \ {k} : tags'[j] = tags[j]
    BY <2>3 DEF StorageTypeOK
  <2>5. UNCHANGED <<kind, material, prev, history, rotation, alias, grants>>
    BY <2>1 DEF WriteTags
  <2> QED BY <2>2, <2>4, <2>5, OneKeySafe
<1> QED BY <1>1, <1>2 DEF Configure

\* An alias is written to name a key that is not pending deletion.
LEMMA WriteAliasSafe ==
    ASSUME StorageTypeOK, NEW a \in Aliases, NEW k \in Keys, NEW ok \in BOOLEAN,
           WriteAlias(a, k, ok), Targetable(k), a = AwsS3 => alias[a] = Absent
    PROVE  Safe
<1>1. PICK o \in writeJSON(alias[a], k) : alias' = [alias EXCEPT ![a] = o.file]
  BY DEF WriteAlias
<1>2. o.file \in {alias[a], Torn, k}
  BY <1>1, WriteOutcome
<1>3. alias'[a] \in {alias[a], Torn, k} /\ \A b \in Aliases \ {a} : alias'[b] = alias[b]
  BY <1>1, <1>2 DEF StorageTypeOK
<1>4. UNCHANGED <<kind, material, prev, history, rotation, tags, grants>>
  BY DEF WriteAlias, keyFiles
<1>5. ASSUME NEW j \in Keys, meta[j] = "PendingDeletion", NEW b \in Aliases, alias'[b] = j
      PROVE  alias[b] = j
  <2>1. j # k /\ j # Torn
    BY <1>5, Constants DEF Targetable
  <2> QED BY <1>3, <1>5, <2>1
<1>6. Stable
  BY <1>3, Constants DEF Stable
<1> QED BY <1>4, <1>5, <1>6 DEF Safe, Frozen

LEMMA ChangeAliasesSafe ==
    ASSUME StorageTypeOK, ChangeAliases
    PROVE  Safe
<1>1. ASSUME NEW a \in Aliases, NEW k \in Keys, NEW ok \in BOOLEAN, CreateAlias(a, k, ok)
      PROVE  Safe
  BY <1>1, WriteAliasSafe DEF CreateAlias, Admits
<1>2. ASSUME NEW a \in Aliases, DeleteAlias(a) PROVE Safe
  <2>1. PICK o \in removeFile(alias[a]) : alias' = [alias EXCEPT ![a] = o.file]
    BY <1>2 DEF DeleteAlias
  <2>2. o.file \in {alias[a], Absent}
    BY <2>1, RemoveOutcome
  <2>3. \A b \in Aliases : alias'[b] \in {alias[b], Absent}
    BY <2>1, <2>2 DEF StorageTypeOK
  <2>4. UNCHANGED <<kind, material, prev, history, rotation, tags, grants>>
    BY <1>2 DEF DeleteAlias, keyFiles
  <2> QED BY <2>3, <2>4, Constants DEF Safe, Frozen, Stable
<1> QED BY <1>1, <1>2 DEF ChangeAliases

LEMMA ChangeGrantsSafe ==
    ASSUME StorageTypeOK, ChangeGrants
    PROVE  Safe
<1>1. PICK k \in Keys, g \in Grants :
         CreateGrant(k, g) \/ RevokeGrant(k, g) \/ RetireGrantByToken(k, g)
  BY DEF ChangeGrants
<1>2. UNCHANGED <<kind, material, prev, history, rotation, tags, alias>>
  BY <1>1 DEF CreateGrant, RevokeGrant, RetireGrantByToken, WriteGrant, keyFiles
<1>3. PICK f : grants' = [grants EXCEPT ![k][g] = f]
  BY <1>1 DEF CreateGrant, RevokeGrant, RetireGrantByToken, WriteGrant
<1>4. meta[k] = "PendingDeletion" => grants[k][g] # Absent
  BY <1>1, StorageAssumption DEF CreateGrant, RevokeGrant, RetireGrantByToken
<1>5. \A j \in Keys, h \in Grants : j # k \/ h # g => grants'[j][h] = grants[j][h]
  BY <1>3 DEF StorageTypeOK
<1>6. \A j \in Keys, h \in Grants :
         meta[j] = "PendingDeletion" /\ grants'[j][h] # Absent => grants[j][h] # Absent
  BY <1>4, <1>5
<1> QED BY <1>2, <1>6 DEF Safe, Frozen, Stable

\* The clients write to the storage in three steps; none of the others matters here.
LEMMA ClientsSafe ==
    ASSUME Inv, Use \/ S3 \/ PutPolicies \/ MoveAliases \/ Restart
    PROVE  Safe
<1>0. StorageTypeOK
  BY DEF Inv, TypeOK
<1>1. CASE UNCHANGED storage
  BY <1>1, QuietSafe DEF storage
<1>2. CASE Use \/ Restart
  <2>1. UNCHANGED storage
    BY <1>2 DEF Use, Restart, BeginUse, BeginOpen, LoadToSeal, Seal, LoadToOpen, TryPrevious,
                CheckDestination
  <2> QED BY <2>1, <1>1
<1>3. ASSUME NEW c \in Clients, NEW k \in Keys, CreateManagedKey(c, k) PROVE Safe
  BY <1>0, <1>3, CreateKeySafe DEF CreateManagedKey, Kinds
<1>4. ASSUME NEW c \in Clients, NameManagedKey(c) PROVE Safe
  <2>1. req[c].key \in Keys
    BY <1>4 DEF Inv, Good, NameManagedKey, At
  <2>2. ASSUME NEW ok \in BOOLEAN, CreateAlias(AwsS3, req[c].key, ok) PROVE Safe
    BY <1>0, <2>1, <2>2, Constants, WriteAliasSafe DEF CreateAlias, Admits
  <2> QED BY <1>1, <1>4, <2>2 DEF NameManagedKey
<1>5. CASE S3
  BY <1>1, <1>3, <1>4, <1>5 DEF S3, BeginS3, Resolve
<1>6. ASSUME NEW c \in Clients, EndPutKeyPolicy(c) PROVE Safe
  BY <1>6, QuietSafe DEF EndPutKeyPolicy, PutKeyPolicy
<1>7. CASE PutPolicies
  BY <1>1, <1>6, <1>7 DEF PutPolicies, BeginPutKeyPolicy
<1>8. ASSUME NEW c \in Clients, EndUpdateAlias(c) PROVE Safe
  <2>1. req[c].key \in Keys /\ req[c].alias \in Aliases /\ req[c].alias # AwsS3
    BY <1>8 DEF Inv, Good, EndUpdateAlias, At
  <2>2. ASSUME NEW ok \in BOOLEAN, UpdateAlias(req[c].alias, req[c].key, ok) PROVE Safe
    BY <1>0, <2>1, <2>2, WriteAliasSafe DEF UpdateAlias
  <2> QED BY <1>1, <1>8, <2>2 DEF EndUpdateAlias
<1>9. CASE MoveAliases
  BY <1>1, <1>8, <1>9 DEF MoveAliases, BeginUpdateAlias
<1> QED BY <1>2, <1>5, <1>7, <1>9

LEMMA SafeNext == Inv /\ [Next]_vars => Safe
<1> SUFFICES ASSUME Inv, [Next]_vars PROVE Safe
  OBVIOUS
<1>0. StorageTypeOK
  BY DEF Inv, TypeOK
<1>1. CASE UNCHANGED vars
  BY <1>1, QuietSafe DEF vars
<1>2. CASE ChangeKeys
  BY <1>0, <1>2, CreateKeySafe, Constants DEF ChangeKeys
<1>3. CASE ChangeStates
  <2>1. PICK k \in Keys, s \in State : WriteState(k, s)
    BY <1>3 DEF ChangeStates, EnableKey, DisableKey, ScheduleKeyDeletion, CancelKeyDeletion, State
  <2> QED BY <2>1, QuietSafe DEF WriteState
<1>4. CASE Rotate
  BY <1>0, <1>4, RotateSafe DEF Rotate
<1>5. CASE Configure
  BY <1>0, <1>5, ConfigureSafe
<1>6. CASE ChangeAliases
  BY <1>0, <1>6, ChangeAliasesSafe
<1>7. CASE ChangeGrants
  BY <1>0, <1>7, ChangeGrantsSafe
<1>8. CASE Use \/ S3 \/ PutPolicies \/ MoveAliases \/ Restart
  BY <1>8, ClientsSafe
<1> QED BY <1>1, <1>2, <1>3, <1>4, <1>5, <1>6, <1>7, <1>8 DEF Next

\* A key that is pending deletion gets no new material, rotation setting, tag, alias or
\* grant, by any request of any client that saw it before ScheduleKeyDeletion.
THEOREM PendingStaysFrozen == Spec => PendingIsFrozen
<1>1. Inv /\ [Next]_vars => [\A k \in Keys : Frozen(k)]_vars
  BY SafeNext DEF Safe
<1> QED BY <1>1, AlwaysInv, PTL DEF Spec, PendingIsFrozen, Frozen

\* However many S3 requests run EnsureAwsS3Key at the same time, alias/aws/s3 is written
\* only while it names nothing.
THEOREM DefaultKeyNeverMoves == Spec => DefaultKeyStable
<1>1. Inv /\ [Next]_vars => [Stable]_vars
  BY SafeNext DEF Safe
<1> QED BY <1>1, AlwaysInv, PTL DEF Spec, DefaultKeyStable, Stable

-----------------------------------------------------------------------------
(* The kinds of steps, as far as materials, aliases and the count of the    *)
(* failures go.                                                            *)

Quiet ==
    /\ UNCHANGED <<kind, material, prev, history, nmat, alias, dropped>>
    /\ faults <= faults'
    /\ \A k \in Keys : meta[k] # Absent => meta'[k] # Absent

Creates == \E k \in Keys, kd \in Kinds : CreateKeyDone(k, kd) \/ CreateKeyFailed(k, kd)
Rotates == \E k \in Keys : RotateKeyOnDemand(k)
Names == \E a \in Aliases, k \in Keys, ok \in BOOLEAN : CreateAlias(a, k, ok)
Retargets ==
    \E c \in Clients, ok \in BOOLEAN :
        At(c, "retarget") /\ UpdateAlias(req[c].alias, req[c].key, ok)
Deletes == \E a \in Aliases : DeleteAlias(a)

LEMMA CountGrows ==
    ASSUME faults \in 0..MaxFaults, NEW ok, Count(ok)
    PROVE  faults <= faults'
BY Constants DEF Count

LEMMA UnchangedQuiet ==
    ASSUME StorageTypeOK, UNCHANGED storage
    PROVE  Quiet
BY Constants DEF storage, Quiet, StorageTypeOK

LEMMA StorageQuiet ==
    ASSUME StorageTypeOK, UNCHANGED <<meta, kind, material, prev, history, nmat, alias, dropped>>,
           NEW ok, Count(ok)
    PROVE  Quiet
<1>1. faults <= faults'
  BY CountGrows DEF StorageTypeOK
<1> QED BY <1>1 DEF Quiet

\* Every step is one of these.
LEMMA StepKind ==
    ASSUME Inv, [Next]_vars
    PROVE  Quiet \/ Creates \/ Rotates \/ Names \/ Retargets \/ Deletes
<1>0. StorageTypeOK
  BY DEF Inv, TypeOK
<1>1. CASE UNCHANGED storage
  BY <1>0, <1>1, UnchangedQuiet
<1>2. CASE ChangeKeys
  BY <1>2, Constants DEF ChangeKeys, Creates
<1>3. CASE ChangeStates
  <2>1. PICK k \in Keys, s \in State : WriteState(k, s) /\ meta[k] \in State
    BY <1>3 DEF ChangeStates, EnableKey, DisableKey, ScheduleKeyDeletion, CancelKeyDeletion, State
  <2>2. PICK o \in writeJSON(meta[k], s) : meta' = [meta EXCEPT ![k] = o.file] /\ Count(o.ok)
    BY <2>1 DEF WriteState
  <2>3. o.file # Absent
    BY <2>1, <2>2, WriteOutcome, Constants
  <2>4. \A j \in Keys : meta[j] # Absent => meta'[j] # Absent
    BY <1>0, <2>2, <2>3 DEF StorageTypeOK
  <2>5. faults <= faults'
    BY <1>0, <2>2, CountGrows DEF StorageTypeOK
  <2> QED BY <2>1, <2>4, <2>5 DEF WriteState, Quiet
<1>4. CASE Rotate
  BY <1>4 DEF Rotate, Rotates
<1>5. CASE Configure
  <2>1. CASE \E k \in Keys : \E r : WriteRotation(k, r)
    BY <1>0, <2>1, StorageQuiet DEF WriteRotation
  <2>2. CASE \E k \in Keys : \E t : WriteTags(k, t)
    BY <1>0, <2>2, StorageQuiet DEF WriteTags
  <2> QED BY <1>5, <2>1, <2>2 DEF Configure, EnableKeyRotation, DisableKeyRotation, TagResource,
                               UntagResource
<1>6. CASE ChangeAliases
  BY <1>6 DEF ChangeAliases, Names, Deletes
<1>7. CASE ChangeGrants
  <2>1. PICK k, g, O : WriteGrant(k, g, O)
    BY <1>7 DEF ChangeGrants, CreateGrant, RevokeGrant, RetireGrantByToken
  <2> QED BY <1>0, <2>1, StorageQuiet DEF WriteGrant, keyFiles
<1>8. CASE Use \/ Restart
  <2>1. UNCHANGED storage
    BY <1>8 DEF Use, Restart, BeginUse, BeginOpen, LoadToSeal, Seal, LoadToOpen, TryPrevious,
                CheckDestination
  <2> QED BY <1>1, <2>1
<1>9. CASE PutPolicies
  <2>1. ASSUME NEW k, PutKeyPolicy(k) PROVE Quiet
    BY <1>0, <2>1, StorageQuiet DEF PutKeyPolicy
  <2> QED BY <1>1, <1>9, <2>1 DEF PutPolicies, BeginPutKeyPolicy, EndPutKeyPolicy
<1>10. CASE MoveAliases
  BY <1>1, <1>10 DEF MoveAliases, BeginUpdateAlias, EndUpdateAlias, Retargets
<1>11. CASE S3
  <2>1. ASSUME NEW c \in Clients, NEW k \in Keys, CreateManagedKey(c, k) PROVE Creates
    BY <2>1 DEF CreateManagedKey, Creates, Kinds
  <2>2. ASSUME NEW c \in Clients, NameManagedKey(c), ~UNCHANGED storage PROVE Names
    <3>1. req[c].key \in Keys
      BY <2>2 DEF Inv, Good, NameManagedKey, At
    <3> QED BY <2>2, <3>1, Constants DEF NameManagedKey, Names
  <2> QED BY <1>1, <1>11, <2>1, <2>2 DEF S3, BeginS3, Resolve
<1>12. CASE UNCHANGED vars
  BY <1>1, <1>12 DEF vars, storage
<1> QED BY <1>2, <1>3, <1>4, <1>5, <1>6, <1>7, <1>8, <1>9, <1>10, <1>11, <1>12 DEF Next

\* What an operation on one alias does.
LEMMA AliasWritten ==
    ASSUME StorageTypeOK, NEW a \in Aliases, NEW k, NEW ok, WriteAlias(a, k, ok)
    PROVE  /\ alias'[a] \in {alias[a], Torn, k} /\ \A b \in Aliases \ {a} : alias'[b] = alias[b]
           /\ UNCHANGED <<meta, kind, material, prev, history, nmat, dropped>>
           /\ faults <= faults'
<1>1. PICK o \in writeJSON(alias[a], k) : alias' = [alias EXCEPT ![a] = o.file] /\ Count(ok)
  BY DEF WriteAlias
<1>2. o.file \in {alias[a], Torn, k}
  BY <1>1, WriteOutcome
<1>3. faults <= faults'
  BY <1>1, CountGrows DEF StorageTypeOK
<1> QED BY <1>1, <1>2, <1>3 DEF StorageTypeOK, WriteAlias, keyFiles

LEMMA AliasDeleted ==
    ASSUME StorageTypeOK, NEW a \in Aliases, DeleteAlias(a)
    PROVE  /\ \A b \in Aliases \ {a} : alias'[b] = alias[b]
           /\ alias'[a] \in {alias[a], Absent}
           /\ dropped' = dropped \cup {a}
           /\ UNCHANGED <<meta, kind, material, prev, history, nmat>>
           /\ faults <= faults'
<1>1. PICK o \in removeFile(alias[a]) : alias' = [alias EXCEPT ![a] = o.file] /\ Count(o.ok)
  BY DEF DeleteAlias
<1>2. o.file \in {alias[a], Absent}
  BY <1>1, RemoveOutcome
<1>3. faults <= faults'
  BY <1>1, CountGrows DEF StorageTypeOK
<1> QED BY <1>1, <1>2, <1>3 DEF StorageTypeOK, DeleteAlias, keyFiles

LEMMA StepKeeps ==
    ASSUME Inv, [Next]_vars
    PROVE  Keeps
<1>0. Numbered /\ TypeOK /\ StorageTypeOK
  BY DEF Inv, TypeOK
<1>1. CASE Quiet
  BY <1>0, <1>1, QuietKeeps DEF Quiet
<1>2. CASE Creates
  BY <1>0, <1>2, CreateKeyKeeps DEF Creates
<1>3. CASE Rotates
  BY <1>0, <1>3, RotateKeeps DEF Rotates
<1>4. CASE Names
  <2>1. PICK a \in Aliases, k \in Keys, ok \in BOOLEAN : WriteAlias(a, k, ok)
    BY <1>4 DEF Names, CreateAlias
  <2> QED BY <1>0, <2>1, AliasKeeps
<1>5. CASE Retargets
  <2>1. PICK c \in Clients, ok \in BOOLEAN : At(c, "retarget") /\ WriteAlias(req[c].alias, req[c].key, ok)
    BY <1>5 DEF Retargets, UpdateAlias
  <2>2. req[c].alias \in Aliases /\ req[c].key \in Keys
    BY <2>1 DEF Inv, Good, At
  <2> QED BY <1>0, <2>1, <2>2, AliasKeeps
<1>6. CASE Deletes
  BY <1>0, <1>6, AliasDeleted, QuietKeeps DEF Deletes
<1> QED BY <1>1, <1>2, <1>3, <1>4, <1>5, <1>6, StepKind

-----------------------------------------------------------------------------
(* The rotations that are counted. *)

\* The materials of k that are not the current one, and their number.
Retired(k) == Cardinality(prev[k] \ {material[k]})
Counted(k) == history[k] # Torn => history[k] <= Retired(k) /\ Retired(k) <= history[k] + faults

\* No file of materials/ holds a material that has not been generated yet.
Generated == \A k \in Keys : \A m \in prev[k] : m <= nmat

CountInv == Generated /\ \A k \in Keys : Counted(k)

LEMMA OneMore ==
    ASSUME NEW P \in SUBSET Material, NEW m \in Material, NEW n, n \notin P, n # m
    PROVE  /\ Cardinality(P \ {m}) \in Nat
           /\ Cardinality((P \cup {m}) \ {n}) = Cardinality(P \ {m}) + 1
<1>1. IsFiniteSet(P \ {m})
  <2>1. IsFiniteSet(Material)
    BY Constants, FS_Interval DEF Material
  <2> QED BY <2>1, FS_Subset
<1>2. (P \cup {m}) \ {n} = (P \ {m}) \cup {m}
  OBVIOUS
<1>3. m \notin P \ {m}
  OBVIOUS
<1> QED BY <1>1, <1>2, <1>3, FS_AddElement, FS_CardinalityType

LEMMA RetiredIs ==
    ASSUME StorageTypeOK, NEW k \in Keys
    PROVE  Retired(k) \in Nat
<1>1. IsFiniteSet(Material)
  BY Constants, FS_Interval DEF Material
<1>2. prev[k] \ {material[k]} \in SUBSET Material
  BY DEF StorageTypeOK
<1> QED BY <1>1, <1>2, FS_Subset, FS_CardinalityType DEF Retired

\* A key whose retired materials and history stay.
LEMMA CountedStays ==
    ASSUME StorageTypeOK, StorageTypeOK', faults <= faults', NEW k \in Keys, Counted(k),
           Retired(k)' = Retired(k), history'[k] = history[k]
    PROVE  Counted(k)'
<1>1. Retired(k) \in Nat /\ faults \in Int /\ faults' \in Int
  BY RetiredIs, Constants DEF StorageTypeOK
<1>2. CASE history[k] = Torn
  BY <1>2 DEF Counted
<1>3. CASE history[k] # Torn
  <2>1. history[k] \in Nat
    BY <1>3 DEF StorageTypeOK
  <2> QED BY <1>1, <1>3, <2>1 DEF Counted
<1> QED BY <1>2, <1>3

LEMMA RotateCounts ==
    ASSUME Inv, Inv', CountInv, NEW k \in Keys, RotateKeyOnDemand(k)
    PROVE  CountInv'
<1>0. StorageTypeOK /\ StorageTypeOK' /\ nmat \in Nat /\ faults \in Nat
  BY Constants DEF Inv, TypeOK, StorageTypeOK
<1>1. PICK p \in {prev[k], prev[k] \ {material[k]}, prev[k] \cup {material[k]}},
           m \in {material[k], Torn, nmat + 1},
           h \in {history[k], Torn, history[k] + 1} :
         /\ m # material[k] => p = prev[k] \cup {material[k]}
         /\ h # history[k] => m = nmat + 1
         /\ SetMaterials(k, p, m, h)
         /\ \/ m = nmat + 1 /\ h = history[k] + 1 /\ UNCHANGED faults
            \/ faults' = faults + 1
  BY DEF RotateKeyOnDemand, RotateDone, RotateFailed, Count
<1>2. material[k] \in Material /\ history[k] # Torn /\ history[k] \in Nat
  BY <1>0 DEF RotateKeyOnDemand, RotateDone, RotateFailed, CanRotate, StorageTypeOK
<1>3. /\ prev'[k] = p /\ material'[k] = m /\ history'[k] = h /\ nmat' = nmat + 1
      /\ \A j \in Keys \ {k} : prev'[j] = prev[j] /\ material'[j] = material[j] /\ history'[j] = history[j]
  BY <1>0, <1>1 DEF SetMaterials, StorageTypeOK
<1>4. material[k] \in Nat /\ material[k] <= nmat /\ prev[k] \in SUBSET Material
      /\ Material \subseteq Nat
  BY <1>0, <1>2 DEF Inv, Numbered, Material, StorageTypeOK
<1>5. \A x \in prev[k] \cup {material[k]} : x <= nmat
  BY <1>4 DEF CountInv, Generated
<1>6. nmat + 1 \notin prev[k] \cup {material[k]} /\ Torn \notin prev[k] \cup {material[k]}
  BY <1>0, <1>2, <1>4, <1>5, Constants
<1>7. Generated'
  <2> SUFFICES ASSUME NEW j \in Keys, NEW x \in prev'[j] PROVE x <= nmat + 1
    BY <1>3 DEF Generated
  <2>1. x \in Nat
    BY <1>0, <1>4 DEF StorageTypeOK
  <2>2. x <= nmat
    BY <1>1, <1>3, <1>5 DEF CountInv, Generated
  <2> QED BY <1>0, <2>1, <2>2
<1>8. faults <= faults'
  BY <1>0, <1>1
<1>9. ASSUME NEW j \in Keys \ {k} PROVE Counted(j)'
  <2>1. Retired(j)' = Retired(j) /\ history'[j] = history[j]
    BY <1>3 DEF Retired
  <2> QED BY <1>0, <1>8, <2>1, CountedStays DEF CountInv
<1>10. Counted(k)'
  <2>0. Retired(k) \in Nat /\ history[k] <= Retired(k) /\ Retired(k) <= history[k] + faults
    BY <1>0, <1>2, RetiredIs DEF CountInv, Counted
  <2>1. CASE m = material[k]
    <3>1. h = history[k]
      BY <1>1, <1>6, <2>1
    <3>2. p \ {m} = prev[k] \ {material[k]}
      BY <1>1, <2>1
    <3>3. Retired(k)' = Retired(k)
      BY <1>3, <3>2 DEF Retired
    <3> QED BY <1>0, <1>3, <1>8, <3>1, <3>3, CountedStays DEF CountInv
  <2>2. CASE m # material[k]
    <3>1. p = prev[k] \cup {material[k]} /\ m \in {Torn, nmat + 1}
      BY <1>1, <2>2
    <3>2. m \notin prev[k] /\ m # material[k]
      BY <1>6, <3>1
    <3>3. Retired(k)' = Retired(k) + 1
      <4>1. Cardinality((prev[k] \cup {material[k]}) \ {m}) = Cardinality(prev[k] \ {material[k]}) + 1
        BY <1>2, <1>4, <3>2, OneMore
      <4>2. Retired(k)' = Cardinality((prev[k] \cup {material[k]}) \ {m})
        BY <1>3, <3>1 DEF Retired
      <4> QED BY <4>1, <4>2 DEF Retired
    <3>4. CASE h = Torn
      BY <1>3, <3>4 DEF Counted
    <3>5. CASE h = history[k]
      <4>1. h # history[k] + 1
        BY <1>2, <3>5
      <4>2. faults' = faults + 1
        BY <1>1, <4>1
      <4> QED BY <1>0, <1>2, <1>3, <2>0, <3>3, <3>5, <4>2 DEF Counted
    <3>6. CASE h = history[k] + 1
      <4>1. faults' \in {faults, faults + 1}
        BY <1>1
      <4> QED BY <1>0, <1>2, <1>3, <2>0, <3>3, <3>6, <4>1 DEF Counted
    <3> QED BY <3>4, <3>5, <3>6
  <2> QED BY <2>1, <2>2
<1> QED BY <1>7, <1>9, <1>10 DEF CountInv

LEMMA CreateCounts ==
    ASSUME Inv, Inv', CountInv, NEW k \in Keys, NEW kd \in Kinds,
           CreateKeyDone(k, kd) \/ CreateKeyFailed(k, kd)
    PROVE  CountInv'
<1>0. StorageTypeOK /\ StorageTypeOK' /\ nmat \in Nat /\ faults \in Nat /\ faults \in 0..MaxFaults
  BY Constants DEF Inv, TypeOK, StorageTypeOK
<1>1. PICK me \in {"Enabled", Absent, Torn}, ma \in {NewMaterial(kd), Absent, Torn},
           po \in {"default", Absent, Torn} : SetKey(k, me, kd, ma, po)
  BY DEF CreateKeyDone, CreateKeyFailed
<1>2. material[k] = Absent
  BY DEF CreateKeyDone, CreateKeyFailed, Fresh
<1>3. /\ UNCHANGED <<prev, history>> /\ nmat' \in {nmat, nmat + 1} /\ material'[k] = ma
      /\ \A j \in Keys \ {k} : material'[j] = material[j]
  BY <1>0, <1>1 DEF SetKey, StorageTypeOK
<1>4. faults <= faults'
  <2>1. faults' \in {faults, faults + 1}
    BY DEF CreateKeyDone, CreateKeyFailed, Count
  <2> QED BY <1>0, <2>1
<1>5. ma \in {Absent, Torn, nmat + 1}
  BY <1>1 DEF NewMaterial
<1>6. \A j \in Keys : \A x \in prev[j] : x \in Nat /\ x <= nmat /\ x # Absent /\ x # Torn
  BY <1>0, Constants DEF CountInv, Generated, StorageTypeOK, Material
<1>7. Generated'
  BY <1>0, <1>3, <1>6 DEF Generated
<1>8. prev[k] \ {ma} = prev[k] \ {material[k]}
  <2>1. ma \notin prev[k] /\ material[k] \notin prev[k]
    BY <1>0, <1>2, <1>5, <1>6
  <2> QED BY <2>1
<1>9. ASSUME NEW j \in Keys PROVE Counted(j)'
  <2>1. Retired(j)' = Retired(j) /\ history'[j] = history[j]
    BY <1>3, <1>8 DEF Retired
  <2> QED BY <1>0, <1>4, <2>1, CountedStays DEF CountInv
<1> QED BY <1>7, <1>9 DEF CountInv

LEMMA CountStep ==
    ASSUME Inv, Inv', CountInv, [Next]_vars
    PROVE  CountInv'
<1>0. StorageTypeOK /\ StorageTypeOK'
  BY DEF Inv, TypeOK
<1>1. ASSUME UNCHANGED <<material, prev, history, nmat>>, faults <= faults'
      PROVE  CountInv'
  <2>1. Generated'
    BY <1>1 DEF CountInv, Generated
  <2>2. ASSUME NEW k \in Keys PROVE Counted(k)'
    <3>1. Retired(k)' = Retired(k) /\ history'[k] = history[k]
      BY <1>1 DEF Retired
    <3> QED BY <1>0, <1>1, <3>1, CountedStays DEF CountInv
  <2> QED BY <2>1, <2>2 DEF CountInv
<1>2. CASE Quiet
  BY <1>1, <1>2 DEF Quiet
<1>3. CASE Creates
  BY <1>3, CreateCounts DEF Creates
<1>4. CASE Rotates
  BY <1>4, RotateCounts DEF Rotates
<1>5. CASE Names
  <2>1. PICK a, k, ok : a \in Aliases /\ WriteAlias(a, k, ok)
    BY <1>5 DEF Names, CreateAlias
  <2> QED BY <1>0, <1>1, <2>1, AliasWritten
<1>6. CASE Retargets
  <2>1. PICK c, ok : /\ c \in Clients /\ At(c, "retarget")
                    /\ WriteAlias(req[c].alias, req[c].key, ok)
    BY <1>6 DEF Retargets, UpdateAlias
  <2>2. req[c].alias \in Aliases
    BY <2>1 DEF Inv, Good, At
  <2> QED BY <1>0, <1>1, <2>1, <2>2, AliasWritten
<1>7. CASE Deletes
  BY <1>0, <1>1, <1>7, AliasDeleted DEF Deletes
<1> QED BY <1>2, <1>3, <1>4, <1>5, <1>6, <1>7, StepKind

\* However many rotations fail at whatever write, rotation_history.json, which limits the
\* rotations on demand, counts no rotation that was not made, and misses at most as many as
\* operations have failed.
THEOREM HistoryCountsRotations == Spec => []RotationsAreCounted
<1>1. Init => CountInv
  <2> SUFFICES ASSUME Init, NEW k \in Keys PROVE prev[k] = {} /\ Counted(k)
    BY DEF CountInv, Generated
  <2>1. prev[k] = {} /\ history[k] = 0 /\ faults = 0
    BY DEF Init, StorageInit
  <2>2. prev[k] \ {material[k]} = {}
    BY <2>1
  <2>3. Retired(k) = 0
    BY <2>2, FS_EmptySet DEF Retired
  <2> QED BY <2>1, <2>3 DEF Counted
<1>2. Inv /\ Inv' /\ CountInv /\ [Next]_vars => CountInv'
  BY CountStep
<1>3. CountInv => RotationsAreCounted
  BY DEF CountInv, Counted, Retired, RotationsAreCounted
<1> QED BY <1>1, <1>2, <1>3, AlwaysInv, PTL DEF Spec

-----------------------------------------------------------------------------
(* UpdateAlias compares the kinds of the keys first and writes later. *)

\* What a request that is about to retarget an alias may rely on: its new target is of the
\* kind of the current one, unless the alias was deleted since.
Compared(r) ==
    r.step = "retarget" =>
        /\ meta[r.key] # Absent
        /\ r.alias \notin dropped =>
              /\ alias[r.alias] # Absent
              /\ alias[r.alias] \in Keys => kind[alias[r.alias]] = kind[r.key]

AliasInv ==
    /\ \A a \in Aliases : alias[a] \in Keys => meta[alias[a]] # Absent
    /\ \A c \in Clients : Compared(req[c])

\* What AliasKeepsKind says of a step.
OneKind ==
    \A a \in Aliases \ dropped' : alias[a] \in Keys /\ alias'[a] \in Keys =>
        kind'[alias'[a]] = kind[alias[a]]

\* A request comes to this point only by BeginUpdateAlias.
LEMMA RetargetStep ==
    ASSUME Inv, [Next]_vars, NEW c \in Clients, req'[c].step = "retarget"
    PROVE  \/ req'[c] = req[c]
           \/ /\ UNCHANGED storage
              /\ \E a \in Aliases, k \in Keys :
                    BeginUpdateAlias(c, a, k) /\ req'[c].alias = a /\ req'[c].key = k
<1>0. req \in [Clients -> Request] /\ Idle \in Request /\ Idle.step = "idle"
  BY IdleGood DEF Inv, TypeOK, Idle
<1>1. ASSUME NEW d \in Clients, NEW r, Become(d, r), r.step # "retarget"
      PROVE  req'[c] = req[c]
  BY <1>0, <1>1 DEF Become
<1>2. ASSUME NEW d \in Clients, NEW r, Become(d, r), d # c
      PROVE  req'[c] = req[c]
  BY <1>0, <1>2 DEF Become
<1>3. CASE Alone \/ UNCHANGED vars
  BY <1>3 DEF Alone, vars
<1>4. CASE Restart
  BY <1>0, <1>4 DEF Restart
<1>5. CASE Use
  <2>1. PICK d \in Clients :
        \/ \E k \in Keys : BeginUse(d, k)
        \/ \E o \in out, x \in Keys \cup {Absent} : BeginOpen(d, o, x)
        \/ LoadToSeal(d) \/ Seal(d)
        \/ LoadToOpen(d) \/ TryPrevious(d) \/ CheckDestination(d)
    BY <1>5 DEF Use
  <2>2. req[d] \in Request
    BY <1>0
  <2>3. \A k : [Idle EXCEPT !.step = "load", !.key = k].step = "load"
    BY <1>0 DEF Request
  <2>4. \A o, x : [Idle EXCEPT !.step = "open", !.key = o.key, !.out = o, !.dst = x].step = "open"
    BY <1>0 DEF Request
  <2>5. /\ \A m : [req[d] EXCEPT !.step = "seal", !.mat = m].step = "seal"
        /\ [req[d] EXCEPT !.step = "previous"].step = "previous"
        /\ [req[d] EXCEPT !.step = "destination"].step = "destination"
    BY <2>2 DEF Request
  <2>6. Opened(d).step \in {"idle", "destination"}
    BY <1>0, <2>5 DEF Opened
  <2>7. CASE \E k \in Keys : BeginUse(d, k)
    BY <1>1, <2>3, <2>7 DEF BeginUse
  <2>8. CASE \E o \in out, x \in Keys \cup {Absent} : BeginOpen(d, o, x)
    BY <1>1, <2>4, <2>8 DEF BeginOpen
  <2>9. CASE LoadToSeal(d)
    BY <1>0, <1>1, <2>5, <2>9 DEF LoadToSeal
  <2>10. CASE Seal(d)
    BY <1>0, <1>1, <2>10 DEF Seal
  <2>11. CASE LoadToOpen(d)
    BY <1>0, <1>1, <2>5, <2>6, <2>11 DEF LoadToOpen, Refuse
  <2>12. CASE TryPrevious(d)
    BY <1>0, <1>1, <2>6, <2>12 DEF TryPrevious, Refuse
  <2>13. CASE CheckDestination(d)
    BY <1>0, <1>1, <2>3, <2>13 DEF CheckDestination
  <2> QED BY <2>1, <2>7, <2>8, <2>9, <2>10, <2>11, <2>12, <2>13
<1>6. CASE S3
  <2>1. PICK d \in Clients :
        BeginS3(d) \/ Resolve(d) \/ (\E k \in Keys : CreateManagedKey(d, k)) \/ NameManagedKey(d)
    BY <1>6 DEF S3
  <2>2. req[d] \in Request
    BY <1>0
  <2>3. [Idle EXCEPT !.step = "ensure", !.round = 1].step = "ensure"
    BY <1>0 DEF Request
  <2>4. /\ [req[d] EXCEPT !.step = "create"].step = "create"
        /\ [req[d] EXCEPT !.step = "again"].step = "again"
        /\ \A k : [req[d] EXCEPT !.step = "name", !.key = k].step = "name"
    BY <2>2 DEF Request
  <2>5. Ensured(d).step \in {"idle", "ensure"}
    BY EnsuredGood
  <2>6. CASE BeginS3(d)
    BY <1>1, <2>3, <2>6 DEF BeginS3
  <2>7. CASE Resolve(d)
    BY <1>0, <1>1, <2>4, <2>5, <2>7 DEF Resolve
  <2>8. CASE \E k \in Keys : CreateManagedKey(d, k)
    BY <1>0, <1>1, <2>4, <2>8 DEF CreateManagedKey
  <2>9. CASE NameManagedKey(d)
    BY <1>0, <1>1, <2>4, <2>5, <2>9 DEF NameManagedKey
  <2> QED BY <2>1, <2>6, <2>7, <2>8, <2>9
<1>7. CASE PutPolicies
  <2>1. \A k : [Idle EXCEPT !.step = "policy", !.key = k].step = "policy"
    BY <1>0 DEF Request
  <2> QED BY <1>0, <1>1, <1>7, <2>1 DEF PutPolicies, BeginPutKeyPolicy, EndPutKeyPolicy
<1>8. CASE MoveAliases
  <2>1. ASSUME NEW d \in Clients, EndUpdateAlias(d) PROVE req'[c] = req[c]
    BY <1>0, <1>1, <2>1 DEF EndUpdateAlias
  <2>2. ASSUME NEW d \in Clients, NEW a \in Aliases, NEW k \in Keys, BeginUpdateAlias(d, a, k), d # c
        PROVE  req'[c] = req[c]
    BY <1>2, <2>2 DEF BeginUpdateAlias
  <2>3. ASSUME NEW a \in Aliases, NEW k \in Keys, BeginUpdateAlias(c, a, k)
        PROVE  UNCHANGED storage /\ req'[c].alias = a /\ req'[c].key = k
    <3> DEFINE r == [Idle EXCEPT !.step = "retarget", !.key = k, !.alias = a]
    <3>1. r.alias = a /\ r.key = k
      BY <1>0 DEF Request
    <3>2. req'[c] = r
      BY <1>0, <2>3 DEF BeginUpdateAlias, Become
    <3> QED BY <2>3, <3>1, <3>2 DEF BeginUpdateAlias
  <2> QED BY <1>8, <2>1, <2>2, <2>3 DEF MoveAliases
<1> QED BY <1>3, <1>4, <1>5, <1>6, <1>7, <1>8 DEF Next

\* How one alias may change.
LEMMA AliasStep ==
    ASSUME Inv, AliasInv, [Next]_vars, NEW a \in Aliases
    PROVE  /\ dropped \subseteq dropped'
           /\ \/ alias'[a] = alias[a]
              \/ a \in dropped' /\ alias'[a] = Absent
              \/ alias'[a] = Torn
              \/ /\ alias'[a] \in Keys /\ meta'[alias'[a]] # Absent
                 /\ \/ alias[a] = Absent
                    \/ /\ alias[a] \in Keys
                       /\ a \notin dropped => kind[alias'[a]] = kind[alias[a]]
<1>0. StorageTypeOK
  BY DEF Inv, TypeOK
<1>1. CASE Quiet
  BY <1>1 DEF Quiet
<1>2. CASE Creates
  <2>1. PICK k, me, kd, ma, po : SetKey(k, me, kd, ma, po)
    BY <1>2 DEF Creates, CreateKeyDone, CreateKeyFailed
  <2> QED BY <2>1 DEF SetKey
<1>3. CASE Rotates
  BY <1>3 DEF Rotates, RotateKeyOnDemand, RotateDone, RotateFailed, SetMaterials
<1>4. CASE Names
  <2>1. PICK b \in Aliases, k \in Keys, ok \in BOOLEAN : CreateAlias(b, k, ok)
    BY <1>4 DEF Names
  <2>2. alias[b] = Absent /\ meta[k] # Absent /\ WriteAlias(b, k, ok)
    BY <2>1, Constants DEF CreateAlias, Admits, Targetable, Readable
  <2>3. /\ alias'[b] \in {alias[b], Torn, k} /\ \A x \in Aliases \ {b} : alias'[x] = alias[x]
        /\ UNCHANGED <<meta, dropped>>
    BY <1>0, <2>2, AliasWritten
  <2> QED BY <2>2, <2>3
<1>5. CASE Retargets
  <2>1. PICK c \in Clients, ok \in BOOLEAN :
           At(c, "retarget") /\ UpdateAlias(req[c].alias, req[c].key, ok)
    BY <1>5 DEF Retargets
  <2> DEFINE b == req[c].alias
             k == req[c].key
  <2>2. b \in Aliases /\ k \in Keys
    BY <2>1 DEF Inv, Good, At
  <2>3. alias[b] \in Keys /\ meta[k] # Absent /\ WriteAlias(b, k, ok)
    BY <2>1, Constants DEF UpdateAlias, Targetable, Readable
  <2>4. b \notin dropped => kind[alias[b]] = kind[k]
    BY <2>1, <2>3 DEF AliasInv, Compared, At
  <2>5. /\ alias'[b] \in {alias[b], Torn, k} /\ \A x \in Aliases \ {b} : alias'[x] = alias[x]
        /\ UNCHANGED <<meta, dropped>>
    BY <1>0, <2>2, <2>3, AliasWritten
  <2> HIDE DEF b, k
  <2> QED BY <2>2, <2>3, <2>4, <2>5
<1>6. CASE Deletes
  <2>1. PICK b \in Aliases : DeleteAlias(b)
    BY <1>6 DEF Deletes
  <2>2. /\ \A x \in Aliases \ {b} : alias'[x] = alias[x]
        /\ alias'[b] \in {alias[b], Absent} /\ dropped' = dropped \cup {b}
    BY <1>0, <2>1, AliasDeleted
  <2> QED BY <2>2
<1> QED BY <1>1, <1>2, <1>3, <1>4, <1>5, <1>6, StepKind

\* A key that exists, and with it the kind that was compared, stays.
LEMMA AliasInvStep ==
    ASSUME Inv, AliasInv, [Next]_vars
    PROVE  AliasInv' /\ OneKind
<1>0. Keeps /\ \A k \in Keys : meta[k] # Absent => meta'[k] # Absent /\ kind'[k] = kind[k]
  BY StepKeeps DEF Keeps
<1>1. ASSUME NEW a \in Aliases, alias'[a] \in Keys PROVE meta'[alias'[a]] # Absent
  <2>1. alias'[a] # Torn /\ alias'[a] # Absent
    BY <1>1, Constants
  <2> QED BY <1>0, <1>1, <2>1, AliasStep DEF AliasInv
<1>2. OneKind
  <2> SUFFICES ASSUME NEW a \in Aliases, a \notin dropped', alias[a] \in Keys, alias'[a] \in Keys
               PROVE  kind'[alias'[a]] = kind[alias[a]]
    BY DEF OneKind
  <2>1. alias'[a] # Torn /\ alias'[a] # Absent /\ alias[a] # Absent /\ meta[alias[a]] # Absent
    BY Constants DEF AliasInv
  <2>2. CASE alias'[a] = alias[a]
    BY <1>0, <2>1, <2>2
  <2>3. CASE alias'[a] # alias[a]
    <3>1. Retargets
      <4>1. ~Quiet /\ ~Creates /\ ~Rotates
        BY <2>3 DEF Quiet, Creates, CreateKeyDone, CreateKeyFailed, SetKey, Rotates,
                    RotateKeyOnDemand, RotateDone, RotateFailed, SetMaterials
      <4>2. ~Names
        BY <2>1, <2>3, AliasWritten DEF Names, CreateAlias, Inv, TypeOK
      <4>3. ~Deletes
        BY <2>1, <2>3, AliasDeleted DEF Deletes, Inv, TypeOK
      <4> QED BY <4>1, <4>2, <4>3, StepKind
    <3>2. UNCHANGED kind
      BY <3>1 DEF Retargets, UpdateAlias, WriteAlias, keyFiles
    <3>3. a \notin dropped
      BY AliasStep
    <3>4. kind[alias'[a]] = kind[alias[a]]
      BY <2>1, <2>3, <3>3, AliasStep
    <3> QED BY <3>2, <3>4
  <2> QED BY <2>2, <2>3
<1>3. ASSUME NEW c \in Clients PROVE Compared(req[c])'
  <2> SUFFICES ASSUME req'[c].step = "retarget"
               PROVE  /\ meta'[req'[c].key] # Absent
                      /\ req'[c].alias \notin dropped' =>
                            /\ alias'[req'[c].alias] # Absent
                            /\ alias'[req'[c].alias] \in Keys =>
                                  kind'[alias'[req'[c].alias]] = kind'[req'[c].key]
    BY DEF Compared
  <2>1. CASE req'[c] = req[c]
    <3> DEFINE k == req[c].key
               a == req[c].alias
    <3>0. k \in Keys /\ a \in Aliases /\ req[c].step = "retarget"
      BY <2>1 DEF Inv, Good
    <3>1. /\ meta[k] # Absent
          /\ a \notin dropped => alias[a] # Absent /\ (alias[a] \in Keys => kind[alias[a]] = kind[k])
      BY <3>0 DEF AliasInv, Compared
    <3>2. /\ dropped \subseteq dropped'
          /\ \/ alias'[a] = alias[a]
             \/ a \in dropped' /\ alias'[a] = Absent
             \/ alias'[a] = Torn
             \/ alias'[a] \in Keys /\ (alias[a] = Absent \/ alias[a] \in Keys)
      BY <3>0, AliasStep
    <3> HIDE DEF a, k
    <3>3. meta'[k] # Absent /\ kind'[k] = kind[k]
      BY <1>0, <3>0, <3>1
    <3>4. ASSUME a \notin dropped'
          PROVE  alias'[a] # Absent /\ (alias'[a] \in Keys => kind'[alias'[a]] = kind'[k])
      <4>1. alias'[a] # Absent
        BY <3>1, <3>2, <3>4, Constants
      <4>2. ASSUME alias'[a] \in Keys PROVE kind'[alias'[a]] = kind'[k]
        <5>1. alias[a] \in Keys
          BY <3>1, <3>2, <3>4, <4>2, Constants
        <5>2. kind'[alias'[a]] = kind[alias[a]]
          BY <1>2, <3>0, <3>4, <4>2, <5>1 DEF OneKind
        <5> QED BY <3>1, <3>2, <3>3, <3>4, <5>1, <5>2
      <4> QED BY <4>1, <4>2
    <3> QED BY <2>1, <3>3, <3>4 DEF a, k
  <2>2. CASE /\ UNCHANGED storage
             /\ \E a \in Aliases, k \in Keys :
                    BeginUpdateAlias(c, a, k) /\ req'[c].alias = a /\ req'[c].key = k
    <3>1. PICK a \in Aliases, k \in Keys :
                    BeginUpdateAlias(c, a, k) /\ req'[c].alias = a /\ req'[c].key = k
      BY <2>2
    <3>2. meta[k] # Absent /\ alias[a] \in Keys /\ kind[alias[a]] = kind[k]
      BY <3>1, Constants DEF BeginUpdateAlias, Readable
    <3> QED BY <2>2, <3>1, <3>2, Constants DEF storage
  <2> QED BY <2>1, <2>2, RetargetStep
<1> QED BY <1>1, <1>2, <1>3 DEF AliasInv

\* An alias that has not been deleted names keys of one kind only, however many UpdateAlias
\* requests compare and write at the same time: whoever writes in between has compared too.
THEOREM AliasesKeepTheirKind == Spec => AliasKeepsKind
<1>1. Init => AliasInv
  BY Constants DEF Init, StorageInit, AliasInv, Compared, Idle
<1>2. Inv /\ AliasInv /\ [Next]_vars => AliasInv' /\ [OneKind]_vars
  BY AliasInvStep
<1> QED BY <1>1, <1>2, AlwaysInv, PTL DEF Spec, AliasKeepsKind, OneKind
=============================================================================
