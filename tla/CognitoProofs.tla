---------------------------- MODULE CognitoProofs ----------------------------
(***************************************************************************)
(* Proofs about CognitoRequests, for any names, groups, requests and       *)
(* workloads, any spellings that strings.ToLower identifies, and any       *)
(* bounds.                                                                 *)
(*                                                                         *)
(* Good says what a request in flight may rely on between two operations,  *)
(* and Dead that a family is refused whoever still holds something of it.  *)
(* What an operation may do (Moves, in CognitoStorageProofs) preserves     *)
(* both, so a step has only to account for the request that takes it.      *)
(***************************************************************************)
EXTENDS CognitoRequests, CognitoStorageProofs

\* The request r is about to answer, or to make ready, tokens of the family f for s.
Carries(r, f, s) == r.step \in {"keys", "answer"} /\ r.fam = f /\ r.sub = s

\* The user s has something of the family f, or is about to.
Holds(f, s) ==
    \/ \E t \in issued : t.fam = f /\ t.sub = s
    \/ refresh[f] \in RefreshToken /\ refresh[f].sub = s
    \/ \E p \in Procs : Carries(req[p], f, s)

\* The access tokens of f are refused, those to come included.
Dead(f) ==
    /\ f <= nfam
    /\ f \in revoked \/ \A s \in Subs : Holds(f, s) => users[s] = Absent

OwnedBy(f, s) == f <= nfam /\ (refresh[f] \in RefreshToken => refresh[f].sub = s)

\* A user that was made, and that is found by its name.
Real(s) == s \in Subs /\ s <= nsub /\ Named(s)

GoodToken(t) == Real(t.sub) /\ OwnedBy(t.fam, t.sub) /\ (t.key = keys \/ users[t.sub] = Absent)

\* The steps that use a name and nothing else; the steps of a sign-in that has a key; those
\* that know the user too; and those that end sessions.
Plainly == {"confirm", "confirmAuto", "adminConfirm", "adminConfirmAuto", "forgot", "changePassword",
            "sendCode", "verify", "drop", "keep", "change", "flag", "unflag", "associate", "register",
            "prefer", "release", "unprefer", "remove", "join", "leave"}
Signing == {"complete", "policy", "newPassword", "heal", "enrol"}
Knowing == {"policy", "heal", "answer"}
Ending == {"origins", "revoke", "forget", "delete"}
Naming == Plainly \cup Signing \cup {"keys", "answer"}

\* What a request relies on between its operations; w is what was true since it began.
Good(r, w) ==
    /\ r.step \in Naming => r.name \in Names
    /\ r.step = "create" => r.user \in User
    /\ r.step \in Signing =>
          /\ r.app \in Apps /\ r.app <= napp /\ r.key \in Keys /\ r.fam = Absent
          /\ r.key = keys \/ clients[r.app] = Absent
    /\ r.step = "keys" => r.app \in Apps /\ r.app <= napp
    /\ r.step \in Knowing \/ (r.step = "keys" /\ r.fam # Absent) => Real(r.sub) /\ r.sub \notin w.barred
    /\ r.step \in {"keys", "answer"} /\ r.fam # Absent => OwnedBy(r.fam, r.sub)
    /\ r.step = "answer" =>
          r.app \in Apps /\ r.key \in Keys /\ (r.key = keys \/ users[r.sub] = Absent)
    /\ r.step = "policy" => r.sub \notin w.mfa
    /\ r.step = "answer" /\ r.fam = Absent /\ ~r.proven => ~w.pool /\ r.sub \notin w.mfa
    /\ r.step \in {"heal", "enrol"} => r.proven
    /\ r.step = "enrol" => SubOf(r.name) \notin w.barred
    /\ r.step \in Ending =>
          /\ r.fam # Absent => r.fam <= nfam
          /\ \A f \in r.fams : f <= nfam
    /\ r.step \in {"revoke", "forget"} => r.fam \in Families
    /\ r.step = "forget" => r.sub = Absent
    /\ r.step \in {"origins", "delete"} => r.sub \in Subs
    /\ r.step \in Ending /\ r.sub = Absent => r.fams = {r.fam}
    /\ r.step \in Ending /\ r.sub # Absent => \A f \in r.fams : OwnedBy(f, r.sub)
    /\ r.step \in {"forget", "delete"} /\ r.fam # Absent => Dead(r.fam)

\* What was true of users is still true.
Watching(w) == (w.pool => PoolRequires) /\ w.mfa \subseteq Requiring /\ w.barred \subseteq barred

\* v is what of w was true one step later.
Fewer(v, w) == (v.pool => w.pool) /\ v.mfa \subseteq w.mfa /\ v.barred \subseteq w.barred

Inv ==
    /\ RequestsTypeOK
    /\ StorageInv
    /\ \A f \in Families : refresh[f] \in RefreshToken => Real(refresh[f].sub)
    /\ \A t \in issued : GoodToken(t)
    /\ \A f \in cut : Dead(f)
    /\ \A f \in ended : f <= nfam /\ refresh[f] = Absent
    /\ \A s \in barred : s <= nsub /\ (users[s] \in User => ~users[s].enabled)
    /\ \A p \in Procs : Watching(watch[p]) /\ Good(req[p], watch[p])

-----------------------------------------------------------------------------
(* What holds of anything is kept by every operation. *)

LEMMA Counters ==
    ASSUME StorageInv
    PROVE  nsub \in Int /\ nfam \in Int /\ napp \in Int
BY Constants DEF StorageInv, StorageTypeOK

LEMMA RealStays ==
    ASSUME StorageInv, NEW on, Sound(on), NEW s, Real(s)
    PROVE  Real(s)'
<1>1. nsub \in Int /\ nsub' \in Int /\ nsub <= nsub'
  BY Constants DEF Sound, StorageInv, StorageTypeOK, Moves, MovesUsers
<1>2. s \in Subs /\ s <= nsub /\ Named(s)'
  BY DEF Real, Sound, Moves, MovesUsers
<1> QED BY <1>1, <1>2 DEF Real, Subs

LEMMA OwnedStays ==
    ASSUME StorageInv, NEW on, Sound(on), NEW f \in Families, NEW s, OwnedBy(f, s)
    PROVE  OwnedBy(f, s)'
<1>1. nfam \in Int /\ nfam' \in Int /\ nfam <= nfam'
  BY Constants DEF Sound, StorageInv, StorageTypeOK, Moves, MovesTokens
<1>2. f <= nfam /\ refresh'[f] \in {refresh[f], Absent}
  BY DEF OwnedBy, Sound, Moves, MovesTokens
<1>3. f <= nfam'
  BY <1>1, <1>2 DEF Families
<1> QED BY <1>2, <1>3, Constants DEF OwnedBy

LEMMA HolderReal ==
    ASSUME Inv, NEW f \in Families, NEW s, Holds(f, s)
    PROVE  Real(s)
<1>1. CASE \E t \in issued : t.fam = f /\ t.sub = s
  BY <1>1 DEF Inv, GoodToken
<1>2. CASE refresh[f] \in RefreshToken /\ refresh[f].sub = s
  BY <1>2 DEF Inv
<1>3. CASE \E p \in Procs : Carries(req[p], f, s)
  <2>1. f # Absent
    BY Numbers
  <2> QED BY <1>3, <2>1 DEF Inv, Good, Carries, Knowing
<1> QED BY <1>1, <1>2, <1>3 DEF Holds

LEMMA DeadStays ==
    ASSUME Inv, NEW on, Sound(on), NEW f \in Families, Dead(f),
           \A s \in Subs : Holds(f, s)' => Holds(f, s)
    PROVE  Dead(f)'
<1>1. nfam \in Int /\ nfam' \in Int /\ nfam <= nfam'
  BY Constants DEF Inv, Sound, StorageInv, StorageTypeOK, Moves, MovesTokens
<1>2. f <= nfam'
  BY <1>1 DEF Dead, Families
<1>3. CASE \A s \in Subs : Holds(f, s) => users[s] = Absent
  <2>1. ASSUME NEW s \in Subs, Holds(f, s)' PROVE users'[s] = Absent
    <3>1. users[s] = Absent /\ s <= nsub
      BY <1>3, <2>1, HolderReal DEF Real
    <3> QED BY <3>1 DEF Sound, Moves, MovesUsers
  <2> QED BY <1>2, <2>1 DEF Dead
<1>4. CASE f \in revoked
  <2>1. CASE revoked \subseteq revoked'
    BY <1>2, <1>4, <2>1 DEF Dead
  <2>2. CASE Gone'
    BY <1>2, <2>2 DEF Dead, Gone
  <2> QED BY <2>1, <2>2 DEF Sound, Moves, MovesTokens
<1> QED BY <1>3, <1>4 DEF Dead

\* What signed a token still verifies it, or its user is gone.
LEMMA KeyStays ==
    ASSUME StorageInv, NEW on, Sound(on), NEW k \in Keys, NEW s \in Subs, s <= nsub,
           k = keys \/ users[s] = Absent
    PROVE  k = keys' \/ users'[s] = Absent
<1>1. users[s] = Absent => users'[s] = Absent
  BY DEF Sound, Moves, MovesUsers
<1>2. keys' = keys \/ keys \notin Keys \/ Gone'
  BY DEF Sound, Moves, MovesClients
<1> QED BY <1>1, <1>2 DEF Gone

LEMMA ClientKeyStays ==
    ASSUME StorageInv, NEW on, Sound(on), NEW k \in Keys, NEW a \in Apps, a <= napp,
           k = keys \/ clients[a] = Absent
    PROVE  (k = keys' \/ clients'[a] = Absent) /\ a <= napp'
<1>1. napp \in Int /\ napp' \in Int /\ napp <= napp'
  BY Constants DEF Sound, StorageInv, StorageTypeOK, Moves, MovesClients
<1>2. clients[a] = Absent => clients'[a] = Absent
  BY DEF Sound, Moves, MovesClients
<1>3. keys' = keys \/ keys \notin Keys \/ \A b \in Apps : clients'[b] = Absent
  BY DEF Sound, Moves, MovesClients
<1> QED BY <1>1, <1>2, <1>3 DEF Apps

LEMMA GoodStays ==
    ASSUME Inv, NEW on, Sound(on), NEW r \in Request, NEW w, NEW v, Good(r, w), Watching(w),
           Fewer(v, w), \A f \in Families : Dead(f) => Dead(f)'
    PROVE  Good(r, v)'
<1>0. StorageInv
  BY DEF Inv
<1>1. r.step \in Naming => r.name \in Names
  BY DEF Good
<1>2. r.step = "create" => r.user \in User
  BY DEF Good
<1>3. r.step \in Signing =>
          /\ r.app \in Apps /\ r.app <= napp' /\ r.key \in Keys /\ r.fam = Absent
          /\ r.key = keys' \/ clients'[r.app] = Absent
  BY <1>0, ClientKeyStays DEF Good
<1>4. r.step = "keys" => r.app \in Apps /\ r.app <= napp'
  <2>1. napp \in Int /\ napp' \in Int /\ napp <= napp'
    BY Constants DEF Inv, Sound, StorageInv, StorageTypeOK, Moves, MovesClients
  <2> QED BY <2>1 DEF Good, Apps
<1>5. r.step \in Knowing \/ (r.step = "keys" /\ r.fam # Absent) =>
          Real(r.sub)' /\ r.sub \notin v.barred
  BY <1>0, RealStays DEF Good, Fewer
<1>6. r.step \in {"keys", "answer"} /\ r.fam # Absent => OwnedBy(r.fam, r.sub)'
  BY <1>0, OwnedStays DEF Good, Request
<1>7. r.step = "answer" =>
          r.app \in Apps /\ r.key \in Keys /\ (r.key = keys' \/ users'[r.sub] = Absent)
  BY <1>0, KeyStays DEF Good, Knowing, Real
<1>8. r.step = "policy" => r.sub \notin v.mfa
  BY DEF Good, Fewer
<1>9. r.step = "answer" /\ r.fam = Absent /\ ~r.proven => ~v.pool /\ r.sub \notin v.mfa
  BY DEF Good, Fewer
<1>10. r.step \in {"heal", "enrol"} => r.proven
  BY DEF Good
<1>11. r.step = "enrol" => index'[Fold[r.name]] \notin v.barred
  <2> SUFFICES ASSUME r.step = "enrol" PROVE index'[Fold[r.name]] \notin v.barred
    OBVIOUS
  <2>1. Fold[r.name] \in Names
    BY Constants DEF Good, Naming, Signing
  <2>2. \A s \in v.barred : s \in Subs /\ s <= nsub /\ s \in w.barred /\ s \in Int /\ nsub \in Int
    <3>1. v.barred \subseteq w.barred /\ w.barred \subseteq barred
      BY DEF Watching, Fewer
    <3>2. \A s \in barred : s \in Subs /\ s <= nsub
      BY DEF Inv, RequestsTypeOK
    <3> QED BY <1>0, <3>1, <3>2, Counters DEF Subs
  <2>3. index[Fold[r.name]] \notin w.barred
    BY DEF Good, SubOf
  <2>4. index'[Fold[r.name]] \in Subs => \/ index'[Fold[r.name]] = index[Fold[r.name]]
                                         \/ index'[Fold[r.name]] > nsub
    BY <2>1 DEF Sound, Moves, MovesUsers
  <2> QED BY <2>2, <2>3, <2>4
<1>12. r.step \in Ending =>
          /\ r.fam # Absent => r.fam <= nfam'
          /\ \A f \in r.fams : f <= nfam'
  <2>1. nfam \in Int /\ nfam' \in Int /\ nfam <= nfam'
    BY Constants DEF Inv, Sound, StorageInv, StorageTypeOK, Moves, MovesTokens
  <2>2. \A f \in Families : f <= nfam => f <= nfam'
    BY <2>1 DEF Families
  <2> QED BY <2>2 DEF Good, Request
<1>13. r.step \in {"revoke", "forget"} => r.fam \in Families
  BY DEF Good
<1>14. r.step \in {"origins", "delete"} => r.sub \in Subs
  BY DEF Good
<1>15. r.step \in Ending /\ r.sub = Absent => r.fams = {r.fam}
  BY DEF Good
<1>16. r.step \in Ending /\ r.sub # Absent => \A f \in r.fams : OwnedBy(f, r.sub)'
  BY <1>0, OwnedStays DEF Good, Request
<1>17. r.step \in {"forget", "delete"} /\ r.fam # Absent => Dead(r.fam)'
  BY DEF Good, Request
<1>18. r.step = "forget" => r.sub = Absent
  BY DEF Good
<1> QED BY <1>1, <1>2, <1>3, <1>4, <1>5, <1>6, <1>7, <1>8, <1>9, <1>10, <1>11, <1>12, <1>13,
           <1>14, <1>15, <1>16, <1>17, <1>18 DEF Good, SubOf

-----------------------------------------------------------------------------
(* A step. *)

LEMMA IdleGood ==
    /\ Idle \in Request
    /\ \A w : Good(Idle, w) /\ Good(Idle, w)'
    /\ \A f, s : ~Carries(Idle, f, s)
<1>1. Idle \in Request
  BY DEF Idle, Request, Steps
<1>2. Idle.step = "idle"
  BY DEF Idle
<1> QED BY <1>1, <1>2 DEF Good, Carries, Naming, Plainly, Signing, Knowing, Ending

\* What Watch keeps of a request.
LEMMA WatchStep ==
    ASSUME Inv, Watch, barred' \subseteq Subs, NEW p \in Procs
    PROVE  /\ watch'[p] \in [pool : BOOLEAN, mfa : SUBSET Subs, barred : SUBSET Subs]
           /\ Watching(watch[p])'
           /\ watch'[p].pool => PoolRequires
           /\ watch'[p].mfa \subseteq Requiring
           /\ watch'[p].barred \subseteq barred
           /\ req[p] # Idle => Fewer(watch'[p], watch[p])
<1> DEFINE now == [pool |-> PoolRequires, mfa |-> Requiring, barred |-> barred]
           W == [pool : BOOLEAN, mfa : SUBSET Subs, barred : SUBSET Subs]
<1>1. PICK w \in W : /\ w = IF req[p] = Idle THEN now ELSE watch[p]
                     /\ Watching(w)
  <2>1. watch[p] \in W /\ Watching(watch[p])
    BY DEF Inv, RequestsTypeOK
  <2>2. now \in W
    BY DEF PoolRequires, Requiring, Inv, RequestsTypeOK
  <2>3. Watching(now)
    BY DEF Watching
  <2> HIDE DEF now, W
  <2> QED BY <2>1, <2>2, <2>3
<1> DEFINE still == [pool |-> w.pool /\ PoolRequires', mfa |-> w.mfa \cap Requiring',
                     barred |-> w.barred \cap barred']
<1>2. watch'[p] = IF req'[p] = Idle THEN Nothing ELSE still
  BY <1>1 DEF Watch
<1>3. PICK v \in W : /\ v = watch'[p]
                     /\ v.pool => w.pool /\ PoolRequires'
                     /\ v.mfa \subseteq w.mfa \cap Requiring'
                     /\ v.barred \subseteq w.barred \cap barred'
  <2>1. CASE req'[p] = Idle
    <3>1. Nothing \in W /\ ~Nothing.pool /\ Nothing.mfa = {} /\ Nothing.barred = {}
      BY DEF Nothing
    <3>2. watch'[p] = Nothing
      BY <1>2, <2>1
    <3> HIDE DEF W
    <3> QED BY <3>1, <3>2
  <2>2. CASE req'[p] # Idle
    <3>1. w.pool \in BOOLEAN /\ w.mfa \in SUBSET Subs /\ w.barred \in SUBSET Subs
      OBVIOUS
    <3>2. still \in W
      BY <3>1 DEF PoolRequires
    <3> QED BY <1>2, <2>2, <3>2
  <2> QED BY <2>1, <2>2
<1>4. Watching(watch[p])'
  BY <1>3 DEF Watching
<1> QED BY <1>1, <1>3, <1>4 DEF Watching, Fewer

LEMMA Step ==
    ASSUME Inv, NEW on, Sound(on), Watch, UNCHANGED work,
           req' \in [Procs -> Request], issued' \subseteq Token, sessions' \subseteq Session,
           cut' \subseteq Families, ended' \subseteq Families, barred' \subseteq Subs,
           \A s \in barred' : \/ s \in barred /\ s \notin on
                              \/ s <= nsub' /\ (users'[s] \in User => ~users'[s].enabled),
           \A t \in issued' \ issued : GoodToken(t)',
           \A f \in cut' \ cut : Dead(f),
           \A f \in ended' \ ended : f <= nfam' /\ refresh'[f] = Absent,
           \A f \in Families : ~(f <= nfam) /\ refresh'[f] \in RefreshToken => Real(refresh[f].sub)',
           \A f \in Families, s \in Subs : f <= nfam /\ Holds(f, s)' => Holds(f, s),
           \A p \in Procs : req'[p] = req[p] \/ Good(req[p], watch[p])'
    PROVE  Inv'
<1>0. StorageInv /\ StorageInv'
  BY DEF Inv, Sound
<1>1. nfam \in Int /\ nfam' \in Int /\ nfam <= nfam' /\ nsub \in Int /\ nsub' \in Int /\ nsub <= nsub'
  BY <1>0, Constants DEF Sound, StorageInv, StorageTypeOK, Moves, MovesTokens, MovesUsers
<1>2. RequestsTypeOK'
  <2>1. watch' \in [Procs -> [pool : BOOLEAN, mfa : SUBSET Subs, barred : SUBSET Subs]]
    <3>1. watch' = [p \in Procs |-> watch'[p]]
      BY DEF Watch
    <3> QED BY <3>1, WatchStep
  <2> QED BY <2>1, <1>0 DEF RequestsTypeOK, Inv, StorageInv
<1>3. \A f \in Families : refresh'[f] \in RefreshToken => Real(refresh[f].sub)'
  <2> SUFFICES ASSUME NEW f \in Families, refresh'[f] \in RefreshToken, f <= nfam
               PROVE  Real(refresh[f].sub)'
    OBVIOUS
  <2>1. refresh'[f] = refresh[f]
    BY Constants DEF Sound, Moves, MovesTokens
  <2>2. PICK s : s = refresh[f].sub /\ Real(s)
    BY <2>1 DEF Inv
  <2>3. Real(s)'
    BY <1>0, <2>2, RealStays
  <2> QED BY <2>1, <2>2, <2>3
<1>4. \A t \in issued' : GoodToken(t)'
  <2> SUFFICES ASSUME NEW t \in issued PROVE GoodToken(t)'
    OBVIOUS
  <2>1. t.fam \in Families /\ t.key \in Keys /\ t.sub \in Subs /\ GoodToken(t)
    BY DEF Inv, RequestsTypeOK, Token
  <2>2. Real(t.sub)'
    BY <1>0, <2>1, RealStays DEF GoodToken
  <2>3. OwnedBy(t.fam, t.sub)'
    BY <1>0, <2>1, OwnedStays DEF GoodToken
  <2>4. t.key = keys' \/ users'[t.sub] = Absent
    BY <1>0, <2>1, KeyStays DEF GoodToken, Real
  <2> QED BY <2>2, <2>3, <2>4 DEF GoodToken
<1>5. \A f \in Families : Dead(f) => Dead(f)'
  BY DeadStays DEF Dead
<1>6. \A f \in cut' : Dead(f)'
  BY <1>5 DEF Inv
<1>7. \A f \in ended' : f <= nfam' /\ refresh'[f] = Absent
  <2> SUFFICES ASSUME NEW f \in ended, f \in Families PROVE f <= nfam' /\ refresh'[f] = Absent
    OBVIOUS
  <2>1. f <= nfam /\ refresh[f] = Absent
    BY DEF Inv
  <2>2. refresh'[f] = Absent
    BY <2>1 DEF Sound, Moves, MovesTokens
  <2> QED BY <1>1, <2>1, <2>2 DEF Families
<1>8. \A s \in barred' : s <= nsub' /\ (users'[s] \in User => ~users'[s].enabled)
  <2> SUFFICES ASSUME NEW s \in barred', s \in Subs, s \in barred, s \notin on
               PROVE  s <= nsub' /\ (users'[s] \in User => ~users'[s].enabled)
    OBVIOUS
  <2>1. s <= nsub /\ (users[s] \in User => ~users[s].enabled)
    BY DEF Inv
  <2>2. /\ users'[s] \in User => users[s] \in User
        /\ users'[s] \in User /\ users'[s].enabled => users[s].enabled
    BY <2>1 DEF Sound, Moves, MovesUsers
  <2> QED BY <1>1, <2>1, <2>2 DEF Subs
<1>9. \A p \in Procs : Watching(watch[p])' /\ Good(req[p], watch[p])'
  <2> SUFFICES ASSUME NEW p \in Procs PROVE Watching(watch[p])' /\ Good(req[p], watch[p])'
    OBVIOUS
  <2>1. Watching(watch[p])'
    BY WatchStep
  <2>2. CASE req'[p] = req[p] /\ req[p] = Idle
    BY <2>1, <2>2, IdleGood
  <2>3. CASE req'[p] = req[p] /\ req[p] # Idle
    <3>0. PICK r \in Request : r = req[p]
      BY DEF Inv, RequestsTypeOK
    <3>1. PICK w, v : r = req[p] /\ w = watch[p] /\ v = watch'[p]
      BY <3>0
    <3>2. Good(r, w) /\ Watching(w) /\ Fewer(v, w)
      BY <2>3, <3>1, WatchStep DEF Inv
    <3>3. Good(r, v)'
      BY <1>5, <3>2, GoodStays
    <3> QED BY <2>1, <2>3, <3>1, <3>3
  <2> QED BY <2>1, <2>2, <2>3
<1> QED BY <1>0, <1>2, <1>3, <1>4, <1>6, <1>7, <1>8, <1>9 DEF Inv

\* Nothing is answered, and at most the request p moves on, to r.
LEMMA QuietStep ==
    ASSUME Inv, Sound({}), Watch, UNCHANGED <<work, issued, cut, ended, barred>>,
           sessions' \subseteq Session, NEW p \in Procs, NEW r \in Request, NEW v, v = watch'[p],
           req' = [req EXCEPT ![p] = r], Good(r, v)', UNCHANGED nfam,
           \A f \in Families, s \in Subs : Carries(r, f, s) => Holds(f, s)
    PROVE  Inv'
<1>1. /\ req' \in [Procs -> Request] /\ req'[p] = r
      /\ \A q \in Procs : q # p => req'[q] = req[q]
  BY DEF Inv, RequestsTypeOK
<1>2. \A q \in Procs : req'[q] = req[q] \/ Good(req[q], watch[q])'
  <2>1. Good(req[p], watch[p])'
    BY <1>1
  <2> QED BY <1>1, <2>1
<1>3. \A f \in Families : ~(f <= nfam) => refresh'[f] = Absent
  BY DEF Sound, StorageInv, TokensOK
<1>4. \A f \in Families, s \in Subs : f <= nfam /\ Holds(f, s)' => Holds(f, s)
  <2> SUFFICES ASSUME NEW f \in Families, NEW s \in Subs, f <= nfam, Holds(f, s)'
               PROVE  Holds(f, s)
    OBVIOUS
  <2>1. CASE \E t \in issued : t.fam = f /\ t.sub = s
    BY <2>1 DEF Holds
  <2>2. CASE refresh'[f] \in RefreshToken /\ refresh'[f].sub = s
    <3>1. refresh'[f] = refresh[f]
      BY <2>2, Constants DEF Sound, Moves, MovesTokens
    <3> QED BY <2>2, <3>1 DEF Holds
  <2>3. ASSUME NEW q \in Procs, Carries(req[q], f, s)' PROVE Holds(f, s)
    <3>1. CASE q = p
      BY <1>1, <2>3, <3>1 DEF Carries
    <3>2. CASE q # p
      BY <1>1, <2>3, <3>2 DEF Carries, Holds
    <3> QED BY <3>1, <3>2
  <2> QED BY <2>1, <2>2, <2>3 DEF Holds
<1>5. /\ issued' \subseteq Token /\ cut' \subseteq Families /\ ended' \subseteq Families
      /\ barred' \subseteq Subs
  BY DEF Inv, RequestsTypeOK
<1> QED BY <1>1, <1>2, <1>3, <1>4, <1>5, Constants, Step

\* An operation that is a whole request; it may enable the users in on.
LEMMA AloneStep ==
    ASSUME Inv, NEW on, Sound(on), Watch, UNCHANGED <<work, req, issued, cut, ended, nfam>>,
           sessions' \subseteq Session, barred' \subseteq barred \ on
    PROVE  Inv'
<1>1. req' \in [Procs -> Request]
  BY DEF Inv, RequestsTypeOK
<1>2. \A f \in Families : ~(f <= nfam) => refresh'[f] = Absent
  BY DEF Sound, StorageInv, TokensOK
<1>3. \A f \in Families, s \in Subs : f <= nfam /\ Holds(f, s)' => Holds(f, s)
  <2> SUFFICES ASSUME NEW f \in Families, NEW s \in Subs, f <= nfam, Holds(f, s)'
               PROVE  Holds(f, s)
    OBVIOUS
  <2>1. refresh'[f] \in RefreshToken => refresh'[f] = refresh[f]
    BY Constants DEF Sound, Moves, MovesTokens
  <2> QED BY <2>1 DEF Holds, Carries
<1>4. /\ issued' \subseteq Token /\ cut' \subseteq Families /\ ended' \subseteq Families
      /\ barred' \subseteq Subs
  BY DEF Inv, RequestsTypeOK
<1> QED BY <1>1, <1>2, <1>3, <1>4, Constants, Step

\* The request p ends.
LEMMA EndStep ==
    ASSUME Inv, Sound({}), Watch, UNCHANGED <<work, issued, cut, ended, barred, nfam>>,
           sessions' \subseteq Session, NEW p \in Procs, Become(p, Idle)
    PROVE  Inv'
<1>1. req' = [req EXCEPT ![p] = Idle]
  BY DEF Become
<1>2. PICK v : v = watch'[p]
  OBVIOUS
<1> QED BY <1>1, <1>2, IdleGood, QuietStep

\* A request that knows a name and nothing else.
LEMMA PlainlyGood ==
    ASSUME NEW r \in Request, r.step \in Plainly \cup {"group"}, r.step \in Plainly => r.name \in Names
    PROVE  (\A v : Good(r, v)') /\ \A f, s : ~Carries(r, f, s)
BY DEF Good, Carries, Naming, Plainly, Signing, Knowing, Ending

LEMMA ReadSound ==
    ASSUME Inv, UNCHANGED storage
    PROVE  Sound({}) /\ UNCHANGED nfam
BY NothingMoves DEF Inv, storage, numbers

\* The request p only reads, and moves on to such a request.
LEMMA PlainlyStep ==
    ASSUME Inv, Watch, UNCHANGED work, NEW p \in Procs, NEW r \in Request,
           r.step \in Plainly \cup {"group"}, r.step \in Plainly => r.name \in Names,
           Become(p, r), Reads
    PROVE  Inv'
<1>1. Sound({}) /\ UNCHANGED <<nfam, history>>
  BY ReadSound DEF Reads
<1>2. req' = [req EXCEPT ![p] = r]
  BY DEF Become
<1>3. PICK v : v = watch'[p]
  OBVIOUS
<1>4. Good(r, v)' /\ \A f, s : ~Carries(r, f, s)
  BY PlainlyGood
<1>5. sessions' \subseteq Session /\ UNCHANGED <<issued, cut, ended, barred>>
  BY <1>1 DEF Inv, RequestsTypeOK, history
<1> QED BY <1>1, <1>2, <1>3, <1>4, <1>5, QuietStep

-----------------------------------------------------------------------------
(* Changes to one user. *)

\* v is u with another field; its name and whether it is enabled are the same.
Edit(u, v) == v \in User /\ v.name = u.name /\ v.enabled = u.enabled

LEMMA EditSound ==
    ASSUME Inv, NEW n \in Names, NEW u, NEW ok, UpdateUser(n, u, ok), Edit(UserOf(n), u)
    PROVE  Sound({}) /\ UNCHANGED nfam
<1>1. u \in User /\ u.name = UserOf(n).name /\ (u.enabled => UserOf(n).enabled)
  BY DEF Edit
<1> QED BY <1>1, UpdateUserSound DEF Inv, UpdateUser, numbers

LEMMA Edits ==
    ASSUME Inv, NEW u \in User, NEW n \in Names, NEW e \in Emails \cup {Absent}, NEW b \in BOOLEAN
    PROVE  /\ Edit(u, [u EXCEPT !.code = b])
           /\ Edit(u, [u EXCEPT !.reset = b])
           /\ Edit(u, [u EXCEPT !.password = n, !.reset = FALSE])
           /\ Edit(u, [u EXCEPT !.password = n, !.status = "CONFIRMED"])
           /\ Edit(u, [u EXCEPT !.password = n, !.status = "FORCE"])
           /\ Edit(u, [u EXCEPT !.password = n])
           /\ Edit(u, [u EXCEPT !.vcode = b])
           /\ Edit(u, [u EXCEPT !.verified = TRUE, !.vcode = FALSE])
           /\ Edit(u, Dropped(u)) /\ Edit(u, Kept(u, e)) /\ Edit(u, Changed(u, e))
           /\ Edit(u, Flagged(u, b))
           /\ Edit(u, [Flagged(u, TRUE) EXCEPT !.vcode = FALSE])
           /\ Edit(u, [u EXCEPT !.email = e, !.verified = TRUE, !.vcode = FALSE])
           /\ Edit(u, [u EXCEPT !.pending = b])
           /\ Edit(u, [u EXCEPT !.totp = TRUE, !.pending = FALSE])
           /\ Edit(u, [u EXCEPT !.mfa = b])
           /\ Edit(u, [u EXCEPT !.mfa = TRUE, !.totp = b])
<1>1. Edit(u, [u EXCEPT !.code = b])
  BY DEF Edit, User
<1>2. Edit(u, [u EXCEPT !.reset = b])
  BY DEF Edit, User
<1>3. Edit(u, [u EXCEPT !.password = n, !.reset = FALSE])
  BY DEF Edit, User
<1>4. Edit(u, [u EXCEPT !.password = n, !.status = "CONFIRMED"])
  BY DEF Edit, User
<1>5. Edit(u, [u EXCEPT !.password = n, !.status = "FORCE"])
  BY DEF Edit, User
<1>6. Edit(u, [u EXCEPT !.password = n])
  BY DEF Edit, User
<1>7. Edit(u, [u EXCEPT !.vcode = b])
  BY DEF Edit, User
<1>8. Edit(u, [u EXCEPT !.verified = TRUE, !.vcode = FALSE])
  BY DEF Edit, User
<1>9. Edit(u, Dropped(u))
  BY DEF Edit, User, Dropped
<1>10. Edit(u, Kept(u, e))
  BY DEF Edit, User, Kept
<1>11. Edit(u, Changed(u, e))
  BY DEF Edit, User, Changed
<1>12. Edit(u, Flagged(u, b))
  BY DEF Edit, User, Flagged
<1>13. Edit(u, [Flagged(u, TRUE) EXCEPT !.vcode = FALSE])
  BY DEF Edit, User, Flagged
<1>14. Edit(u, [u EXCEPT !.email = e, !.verified = TRUE, !.vcode = FALSE])
  BY DEF Edit, User
<1>15. Edit(u, [u EXCEPT !.pending = b])
  BY DEF Edit, User
<1>16. Edit(u, [u EXCEPT !.totp = TRUE, !.pending = FALSE])
  BY DEF Edit, User
<1>17. Edit(u, [u EXCEPT !.mfa = b])
  BY DEF Edit, User
<1>18. Edit(u, [u EXCEPT !.mfa = TRUE, !.totp = b])
  BY DEF Edit, User
<1> QED BY <1>1, <1>2, <1>3, <1>4, <1>5, <1>6, <1>7, <1>8, <1>9, <1>10, <1>11, <1>12, <1>13, <1>14, <1>15, <1>16, <1>17, <1>18

LEMMA ConfirmedEdit ==
    ASSUME NEW u \in User, NEW step, NEW auto
    PROVE  /\ Edit(u, Confirmed(u, step = auto))
           /\ Edit(u, [Confirmed(u, step = auto) EXCEPT !.code = FALSE])
<1>1. u.verified \in BOOLEAN
  BY DEF User
<1>2. PICK b \in BOOLEAN :
          Confirmed(u, step = auto) = [u EXCEPT !.status = "CONFIRMED", !.verified = b]
  <2>1. (u.verified \/ (step = auto /\ u.email # Absent)) \in BOOLEAN
    BY <1>1
  <2> QED BY <2>1 DEF Confirmed
<1> QED BY <1>2 DEF Edit, User

LEMMA ApplyStep ==
    ASSUME Inv, Watch, UNCHANGED work, NEW p \in Procs, NEW step \in Plainly, NEW may, NEW u,
           Apply(p, step, may, u), Its(p) \in User => Edit(Its(p), u)
    PROVE  Inv'
<1>1. req[p].name \in Names
  <2>1. Good(req[p], watch[p]) /\ req[p].step = step
    BY DEF Inv, Apply, At
  <2> QED BY <2>1 DEF Good, Naming
<1>2. Sound({}) /\ UNCHANGED nfam
  <2>1. CASE UNCHANGED storage
    BY <2>1, ReadSound
  <2>2. ASSUME NEW ok \in BOOLEAN, UpdateUser(req[p].name, u, ok) PROVE Sound({}) /\ UNCHANGED nfam
    <3>1. UserOf(req[p].name) \in User
      BY <2>2 DEF UpdateUser, Known, UserOf
    <3>2. Edit(UserOf(req[p].name), u)
      BY <3>1 DEF Its
    <3> QED BY <1>1, <2>2, <3>2, EditSound
  <2> QED BY <2>1, <2>2 DEF Apply
<1>3. Become(p, Idle) /\ sessions' \subseteq Session /\ UNCHANGED <<issued, cut, ended, barred>>
  BY DEF Apply, Silent, history, Inv, RequestsTypeOK
<1> QED BY <1>2, <1>3, EndStep

\* A user gives an access token, and one of these steps follows.
LEMMA BeginAsStep ==
    ASSUME Inv, Watch, UNCHANGED work, NEW p \in Procs, NEW t \in issued, NEW step \in Plainly,
           BeginAs(p, t, step)
    PROVE  Inv'
<1>1. users[t.sub] \in User
  BY DEF BeginAs, Authorised
<1>2. PICK n \in Names : n = users[t.sub].name
  BY <1>1 DEF User
<1> DEFINE r == [Idle EXCEPT !.step = step, !.name = n]
<1>3. r \in Request /\ r.step = step /\ r.name = n
  <2>1. step \in Steps
    BY DEF Steps, Plainly
  <2> QED BY <2>1, IdleGood DEF Request
<1> HIDE DEF r
<1>4. Become(p, r) /\ Reads
  BY <1>2 DEF BeginAs, Begin, r
<1> QED BY <1>3, <1>4, PlainlyStep

LEMMA AloneEdit ==
    ASSUME Inv, Watch, UNCHANGED work, Alone, NEW n \in Names, NEW u, NEW ok, UpdateUser(n, u, ok),
           UserOf(n) \in User => Edit(UserOf(n), u)
    PROVE  Inv'
<1>1. UserOf(n) \in User
  BY DEF UpdateUser, Known, UserOf
<1>2. Sound({}) /\ UNCHANGED nfam
  BY <1>1, EditSound
<1>3. UNCHANGED <<req, issued, cut, ended, barred>> /\ sessions' \subseteq Session
  BY DEF Alone, history, Inv, RequestsTypeOK
<1> QED BY <1>2, <1>3, AloneStep

\* A request with the name n begins at one of these steps.
LEMMA BeginPlainly ==
    ASSUME Inv, Watch, UNCHANGED work, NEW p \in Procs, NEW n \in Names, NEW step \in Plainly,
           Begin(p, [Idle EXCEPT !.step = step, !.name = n]), Reads
    PROVE  Inv'
<1> DEFINE r == [Idle EXCEPT !.step = step, !.name = n]
<1>1. r \in Request /\ r.step = step /\ r.name = n
  <2>1. step \in Steps
    BY DEF Steps, Plainly
  <2> QED BY <2>1, IdleGood DEF Request
<1>2. Become(p, r) /\ Reads
  BY DEF Begin
<1> HIDE DEF r
<1> QED BY <1>1, <1>2, PlainlyStep

LEMMA ConfirmStep ==
    ASSUME Inv, Watch, UNCHANGED work, Confirm
    PROVE  Inv'
<1>1. PICK p \in Procs, n \in Names : handleConfirmSignUp(p, n) \/ handleAdminConfirmSignUp(p, n)
  BY DEF Confirm
<1>2. CASE /\ \E step \in Plainly : Begin(p, [Idle EXCEPT !.step = step, !.name = n])
           /\ Reads
  BY <1>2, BeginPlainly
<1>3. ASSUME NEW step \in {"confirm", "confirmAuto"},
             Apply(p, step, Its(p).status = "UNCONFIRMED",
                   [Confirmed(Its(p), step = "confirmAuto") EXCEPT !.code = FALSE])
      PROVE  Inv'
  <2>1. Its(p) \in User => Edit(Its(p), [Confirmed(Its(p), step = "confirmAuto") EXCEPT !.code = FALSE])
    BY ConfirmedEdit
  <2>2. step \in Plainly
    BY DEF Plainly
  <2> QED BY <1>3, <2>1, <2>2, ApplyStep
<1>4. ASSUME NEW step \in {"adminConfirm", "adminConfirmAuto"},
             Apply(p, step, Its(p).status = "UNCONFIRMED",
                   Confirmed(Its(p), step = "adminConfirmAuto"))
      PROVE  Inv'
  <2>1. Its(p) \in User => Edit(Its(p), Confirmed(Its(p), step = "adminConfirmAuto"))
    BY ConfirmedEdit
  <2>2. step \in Plainly
    BY DEF Plainly
  <2> QED BY <1>4, <2>1, <2>2, ApplyStep
<1>5. CASE handleConfirmSignUp(p, n)
  BY <1>2, <1>3, <1>5 DEF handleConfirmSignUp, Plainly
<1>6. CASE handleAdminConfirmSignUp(p, n)
  BY <1>2, <1>4, <1>6 DEF handleAdminConfirmSignUp, Plainly
<1> QED BY <1>1, <1>5, <1>6

LEMMA ResendStep ==
    ASSUME Inv, Watch, UNCHANGED work, Alone, Resend
    PROVE  Inv'
<1>1. PICK n \in Names : handleResendConfirmationCode(n)
  BY DEF Resend
<1>2. \A x \in User : Edit(x, [x EXCEPT !.code = TRUE])
  BY <1>1, Edits
<1> QED BY <1>1, <1>2, AloneEdit DEF handleResendConfirmationCode

LEMMA SetPasswordsStep ==
    ASSUME Inv, Watch, UNCHANGED work, Alone, SetPasswords
    PROVE  Inv'
<1>1. PICK n \in Names : handleConfirmForgotPassword(n) \/ handleAdminSetUserPassword(n)
  BY DEF SetPasswords
<1>2. \A x \in User : /\ Edit(x, [x EXCEPT !.password = n, !.reset = FALSE])
                      /\ Edit(x, [x EXCEPT !.password = n, !.status = "CONFIRMED"])
                      /\ Edit(x, [x EXCEPT !.password = n, !.status = "FORCE"])
  BY Edits
<1>3. CASE handleConfirmForgotPassword(n)
  BY <1>2, <1>3, AloneEdit DEF handleConfirmForgotPassword
<1>4. CASE handleAdminSetUserPassword(n)
  <2>1. PICK ok \in BOOLEAN, status \in {"CONFIRMED", "FORCE"} :
            UpdateUser(n, [UserOf(n) EXCEPT !.password = n, !.status = status], ok)
    BY <1>4 DEF handleAdminSetUserPassword
  <2>2. \A x \in User : Edit(x, [x EXCEPT !.password = n, !.status = status])
    BY <1>2
  <2> QED BY <2>1, <2>2, AloneEdit
<1> QED BY <1>1, <1>3, <1>4

LEMMA SetAttributesStep ==
    ASSUME Inv, Watch, UNCHANGED work, Alone, SetAttributes
    PROVE  Inv'
<1>1. PICK n \in Names : handleAdminUpdateUserAttributes(n)
  BY DEF SetAttributes
<1>2. PICK u, ok : UpdateUser(n, u, ok) /\ u \in AdminChanges(UserOf(n)) /\ Known(n)
  BY <1>1 DEF handleAdminUpdateUserAttributes
<1>3. \A x \in User : \A y \in AdminChanges(x) : Edit(x, y)
  <2> SUFFICES ASSUME NEW x \in User, NEW y \in AdminChanges(x) PROVE Edit(x, y)
    OBVIOUS
  <2>1. CASE y \in {Dropped(x), Flagged(x, FALSE), [Flagged(x, TRUE) EXCEPT !.vcode = FALSE]}
    BY <1>1, <2>1, Edits
  <2>2. CASE y \in {IF x.email = e THEN Kept(x, e) ELSE Changed(x, e) : e \in Emails}
    BY <1>1, <2>2, Edits
  <2>3. CASE y \in {[x EXCEPT !.email = e, !.verified = TRUE, !.vcode = FALSE] : e \in Emails}
    BY <1>1, <2>3, Edits
  <2> QED BY <2>1, <2>2, <2>3 DEF AdminChanges
<1> QED BY <1>2, <1>3, AloneEdit

LEMMA ChangePasswordsStep ==
    ASSUME Inv, Watch, UNCHANGED work, ChangePasswords
    PROVE  Inv'
<1>1. PICK p \in Procs : handleChangePassword(p) \/ \E n \in Names : handleForgotPassword(p, n)
  BY DEF ChangePasswords
<1>2. CASE handleChangePassword(p)
  <2>1. CASE \E t \in issued : BeginAs(p, t, "changePassword")
    BY <2>1, BeginAsStep DEF Plainly
  <2>2. CASE Apply(p, "changePassword", TRUE, [Its(p) EXCEPT !.password = Its(p).name])
    <3>1. \A x \in User : Edit(x, [x EXCEPT !.password = x.name])
      BY DEF Edit, User
    <3>2. Its(p) \in User => Edit(Its(p), [Its(p) EXCEPT !.password = Its(p).name])
      BY <3>1
    <3> QED BY <2>2, <3>2, ApplyStep DEF Plainly
  <2> QED BY <1>2, <2>1, <2>2 DEF handleChangePassword
<1>3. ASSUME NEW n \in Names, handleForgotPassword(p, n) PROVE Inv'
  <2>1. CASE /\ Known(n)
             /\ Begin(p, [Idle EXCEPT !.step = "forgot", !.name = UserOf(n).name])
             /\ Reads
    <3>1. PICK m \in Names : m = UserOf(n).name
      BY <2>1 DEF Known, UserOf, User
    <3> DEFINE r == [Idle EXCEPT !.step = "forgot", !.name = m]
    <3>2. r \in Request /\ r.step = "forgot" /\ r.name = m
      <4>1. Idle \in Request /\ "forgot" \in Steps
        BY IdleGood DEF Steps
      <4> QED BY <4>1 DEF Request
    <3> HIDE DEF r
    <3>3. Become(p, r)
      BY <2>1, <3>1 DEF Begin, r
    <3>4. r.step \in Plainly
      BY <3>2 DEF Plainly
    <3> QED BY <2>1, <3>2, <3>3, <3>4, PlainlyStep
  <2>2. CASE Apply(p, "forgot", TRUE, [Its(p) EXCEPT !.reset = TRUE])
    <3>1. \A x \in User : Edit(x, [x EXCEPT !.reset = TRUE])
      BY <1>3, Edits
    <3> QED BY <2>2, <3>1, ApplyStep DEF Plainly
  <2> QED BY <1>3, <2>1, <2>2 DEF handleForgotPassword
<1> QED BY <1>1, <1>2, <1>3

LEMMA ChangeAttributesStep ==
    ASSUME Inv, Watch, UNCHANGED work, ChangeAttributes
    PROVE  Inv'
<1>1. PICK p \in Procs : \/ handleUpdateUserAttributes(p) \/ handleVerifyUserAttribute(p)
                         \/ handleGetUserAttributeVerificationCode(p)
  BY DEF ChangeAttributes
<1>0. req[p].email \in Emails \cup {Absent}
  BY DEF Inv, RequestsTypeOK, Request
<1> DEFINE e == req[p].email
<1>3. Its(p) \in User =>
        /\ Edit(Its(p), [Its(p) EXCEPT !.vcode = TRUE])
        /\ Edit(Its(p), [Its(p) EXCEPT !.verified = TRUE, !.vcode = FALSE])
        /\ Edit(Its(p), Dropped(Its(p)))
        /\ Edit(Its(p), Kept(Its(p), e)) /\ Edit(Its(p), Changed(Its(p), e))
        /\ Edit(Its(p), Flagged(Its(p), TRUE)) /\ Edit(Its(p), Flagged(Its(p), FALSE))
  <2>1. \A x \in User : x.name \in Names
    BY DEF User
  <2> QED BY <1>0, <2>1, Edits
<1>4. CASE handleGetUserAttributeVerificationCode(p)
  <2>1. CASE \E t \in issued : BeginAs(p, t, "sendCode")
    BY <2>1, BeginAsStep DEF Plainly
  <2>2. CASE Apply(p, "sendCode", TRUE, [Its(p) EXCEPT !.vcode = TRUE])
    BY <2>2, <1>3, ApplyStep DEF Plainly
  <2> QED BY <1>4, <2>1, <2>2 DEF handleGetUserAttributeVerificationCode
<1>5. CASE handleVerifyUserAttribute(p)
  <2>1. CASE \E t \in issued : BeginAs(p, t, "verify")
    BY <2>1, BeginAsStep DEF Plainly
  <2>2. CASE Apply(p, "verify", TRUE, [Its(p) EXCEPT !.verified = TRUE, !.vcode = FALSE])
    BY <2>2, <1>3, ApplyStep DEF Plainly
  <2> QED BY <1>5, <2>1, <2>2 DEF handleVerifyUserAttribute
<1>6. CASE handleUpdateUserAttributes(p)
  <2>1. CASE \E t \in issued : \E step \in {"drop", "flag", "unflag"} : BeginAs(p, t, step)
    BY <2>1, BeginAsStep DEF Plainly
  <2>2. ASSUME NEW t \in issued, NEW a \in Emails, Authorised(t), Reads,
               Begin(p, [Idle EXCEPT !.step = IF users[t.sub].email = a THEN "keep" ELSE "change",
                                     !.name = users[t.sub].name, !.email = a])
        PROVE  Inv'
    <3>1. PICK m \in Names : m = users[t.sub].name
      BY <2>2 DEF Authorised, User
    <3>2. PICK step \in {"keep", "change"} : step = IF users[t.sub].email = a THEN "keep" ELSE "change"
      OBVIOUS
    <3> DEFINE r == [Idle EXCEPT !.step = step, !.name = m, !.email = a]
    <3>3. r \in Request /\ r.step = step /\ r.name = m
      <4>1. step \in Steps
        BY DEF Steps
      <4> QED BY <4>1, IdleGood DEF Request
    <3> HIDE DEF r
    <3>4. Become(p, r) /\ r.step \in Plainly
      BY <2>2, <3>1, <3>2, <3>3 DEF Begin, r, Plainly
    <3> QED BY <2>2, <3>3, <3>4, PlainlyStep
  <2>3. CASE Apply(p, "drop", TRUE, Dropped(Its(p)))
    BY <2>3, <1>3, ApplyStep DEF Plainly
  <2>4. CASE Apply(p, "keep", TRUE, Kept(Its(p), e))
    BY <2>4, <1>3, ApplyStep DEF Plainly
  <2>5. CASE Apply(p, "change", TRUE, Changed(Its(p), e))
    BY <2>5, <1>3, ApplyStep DEF Plainly
  <2>6. CASE Apply(p, "flag", TRUE, Flagged(Its(p), TRUE))
    BY <2>6, <1>3, ApplyStep DEF Plainly
  <2>7. CASE Apply(p, "unflag", TRUE, Flagged(Its(p), FALSE))
    BY <2>7, <1>3, ApplyStep DEF Plainly
  <2> QED BY <1>6, <2>1, <2>2, <2>3, <2>4, <2>5, <2>6, <2>7 DEF handleUpdateUserAttributes
<1> QED BY <1>1, <1>4, <1>5, <1>6

LEMMA SetUpMFAStep ==
    ASSUME Inv, Watch, UNCHANGED work, SetUpMFA
    PROVE  Inv'
<1>1. PICK p \in Procs : \/ handleAssociateSoftwareToken(p) \/ handleVerifySoftwareToken(p)
                         \/ handleSetUserMFAPreference(p)
  BY DEF SetUpMFA
<1>2. Its(p) \in User =>
        /\ Edit(Its(p), [Its(p) EXCEPT !.pending = TRUE])
        /\ Edit(Its(p), [Its(p) EXCEPT !.totp = TRUE, !.pending = FALSE])
        /\ Edit(Its(p), [Its(p) EXCEPT !.mfa = TRUE])
        /\ Edit(Its(p), [Its(p) EXCEPT !.mfa = FALSE])
  <2>1. \A x \in User : x.name \in Names
    BY DEF User
  <2> QED BY <2>1, Edits
<1>3. CASE handleAssociateSoftwareToken(p)
  <2>1. CASE \E t \in issued : BeginAs(p, t, "associate")
    BY <2>1, BeginAsStep DEF Plainly
  <2>2. CASE Apply(p, "associate", TRUE, [Its(p) EXCEPT !.pending = TRUE])
    BY <2>2, <1>2, ApplyStep DEF Plainly
  <2> QED BY <1>3, <2>1, <2>2 DEF handleAssociateSoftwareToken
<1>4. CASE handleVerifySoftwareToken(p)
  <2>1. CASE \E t \in issued : BeginAs(p, t, "register")
    BY <2>1, BeginAsStep DEF Plainly
  <2>2. CASE Apply(p, "register", Its(p).pending, [Its(p) EXCEPT !.totp = TRUE, !.pending = FALSE])
    BY <2>2, <1>2, ApplyStep DEF Plainly
  <2> QED BY <1>4, <2>1, <2>2 DEF handleVerifySoftwareToken
<1>5. CASE handleSetUserMFAPreference(p)
  <2>1. CASE \E t \in issued : \E step \in {"prefer", "unprefer", "release"} : BeginAs(p, t, step)
    BY <2>1, BeginAsStep DEF Plainly
  <2>2. CASE Apply(p, "prefer", Its(p).totp, [Its(p) EXCEPT !.mfa = TRUE])
    BY <2>2, <1>2, ApplyStep DEF Plainly
  <2>3. CASE Apply(p, "release", TRUE, [Its(p) EXCEPT !.mfa = FALSE])
    BY <2>3, <1>2, ApplyStep DEF Plainly
  <2>4. CASE Apply(p, "unprefer", ~Its(p).mfa, [Its(p) EXCEPT !.mfa = FALSE])
    BY <2>4, <1>2, ApplyStep DEF Plainly
  <2> QED BY <1>5, <2>1, <2>2, <2>3, <2>4 DEF handleSetUserMFAPreference
<1> QED BY <1>1, <1>3, <1>4, <1>5

-----------------------------------------------------------------------------
(* Users that come and go. *)

LEMMA CreateUserStep ==
    ASSUME Inv, Watch, UNCHANGED work, NEW p \in Procs, CreateUser(p)
    PROVE  Inv'
<1>1. PICK u \in User : u = req[p].user
  <2>1. Good(req[p], watch[p]) /\ req[p].step = "create"
    BY DEF Inv, CreateUser, At
  <2> QED BY <2>1 DEF Good
<1>2. Sound({}) /\ UNCHANGED nfam
  <2>1. CASE CreateUserDone(u) \/ CreateUserFailed(u)
    BY <2>1, CreateUserSound DEF Inv, CreateUserDone, CreateUserFailed, SetUserFiles
  <2>2. CASE UNCHANGED storage
    BY <2>2, ReadSound
  <2> QED BY <1>1, <2>1, <2>2 DEF CreateUser
<1>3. Become(p, Idle) /\ sessions' \subseteq Session /\ UNCHANGED <<issued, cut, ended, barred>>
  BY DEF CreateUser, Silent, history, Inv, RequestsTypeOK
<1> QED BY <1>2, <1>3, EndStep

LEMMA NewUserType ==
    ASSUME NEW n \in Names, NEW status \in {"UNCONFIRMED", "CONFIRMED", "FORCE"},
           NEW pw \in Names \cup {Absent}, NEW e \in Emails \cup {Absent}, NEW v \in BOOLEAN,
           NEW code \in BOOLEAN
    PROVE  NewUser(n, status, pw, e, v, code) \in User
BY DEF NewUser, User

\* A request that is about to create the user u.
LEMMA BeginCreateStep ==
    ASSUME Inv, Watch, UNCHANGED work, NEW p \in Procs, NEW u \in User, Reads,
           Begin(p, [Idle EXCEPT !.step = "create", !.user = u])
    PROVE  Inv'
<1> DEFINE r == [Idle EXCEPT !.step = "create", !.user = u]
<1>1. r \in Request /\ r.step = "create" /\ r.user = u
  <2>1. Idle \in Request /\ "create" \in Steps /\ u \in User \cup {Absent}
    BY IdleGood DEF Steps
  <2> QED BY <2>1 DEF Request
<1> HIDE DEF r
<1>2. req' = [req EXCEPT ![p] = r]
  BY DEF Begin, Become, r
<1>3. PICK v : v = watch'[p]
  OBVIOUS
<1>4. Good(r, v)' /\ \A f, s : ~Carries(r, f, s)
  BY <1>1 DEF Good, Carries, Naming, Plainly, Signing, Knowing, Ending
<1>5. Sound({}) /\ UNCHANGED <<nfam, issued, cut, ended, barred>> /\ sessions' \subseteq Session
  BY ReadSound DEF Reads, Inv, RequestsTypeOK, history
<1> QED BY <1>1, <1>2, <1>3, <1>4, <1>5, QuietStep

LEMMA NewUsersStep ==
    ASSUME Inv, Watch, UNCHANGED work, SignUp \/ AdminCreate
    PROVE  Inv'
<1>1. CASE SignUp
  <2>1. PICK p \in Procs, n \in Names, e \in Emails \cup {Absent} :
            \E a \in Apps : handleSignUp(p, a, n, e)
    BY <1>1 DEF SignUp
  <2>2. NewUser(n, "UNCONFIRMED", n, e, FALSE, TRUE) \in User
    BY NewUserType
  <2> QED BY <2>1, <2>2, BeginCreateStep DEF handleSignUp
<1>2. CASE AdminCreate
  <2>1. PICK p \in Procs, n \in Names, e \in Emails \cup {Absent} : handleAdminCreateUser(p, n, e)
    BY <1>2 DEF AdminCreate
  <2>2. PICK v \in BOOLEAN : \E u \in {NewUser(n, "FORCE", n, e, v, FALSE),
                                       NewUser(n, "CONFIRMED", Absent, e, v, FALSE)} :
            Begin(p, [Idle EXCEPT !.step = "create", !.user = u])
    BY <2>1 DEF handleAdminCreateUser
  <2>3. /\ NewUser(n, "FORCE", n, e, v, FALSE) \in User
        /\ NewUser(n, "CONFIRMED", Absent, e, v, FALSE) \in User
    BY NewUserType
  <2> QED BY <2>1, <2>2, <2>3, BeginCreateStep DEF handleAdminCreateUser
<1> QED BY <1>1, <1>2

LEMMA DeleteSound ==
    ASSUME Inv, NEW n \in Names, NEW ok \in BOOLEAN, DeleteUser(n, ok)
    PROVE  Sound({}) /\ UNCHANGED nfam
BY DeleteUserSound DEF Inv, DeleteUser, SetUserFiles

LEMMA ChangeUsersStep ==
    ASSUME Inv, Watch, UNCHANGED work, Alone, ChangeUsers
    PROVE  Inv'
<1>1. PICK n \in Names, ok \in BOOLEAN : DeleteUser(n, ok)
  BY DEF ChangeUsers, handleAdminDeleteUser
<1>2. UNCHANGED <<req, issued, cut, ended, barred>> /\ sessions' \subseteq Session
  BY DEF Alone, history, Inv, RequestsTypeOK
<1> QED BY <1>1, <1>2, DeleteSound, AloneStep

LEMMA DeleteOwnStep ==
    ASSUME Inv, Watch, UNCHANGED work, DeleteOwn
    PROVE  Inv'
<1>1. PICK p \in Procs : handleDeleteUser(p)
  BY DEF DeleteOwn
<1>2. CASE \E t \in issued : BeginAs(p, t, "remove")
  BY <1>2, BeginAsStep DEF Plainly
<1>3. CASE /\ At(p, "remove")
           /\ \/ \E ok \in BOOLEAN : DeleteUser(req[p].name, ok)
              \/ UNCHANGED storage
           /\ Become(p, Idle)
           /\ Silent
  <2>1. req[p].name \in Names
    <3>1. Good(req[p], watch[p]) /\ req[p].step \in Plainly
      BY <1>3 DEF Inv, At, Plainly
    <3> QED BY <3>1 DEF Good, Naming
  <2>2. Sound({}) /\ UNCHANGED nfam
    BY <1>3, <2>1, DeleteSound, ReadSound
  <2>3. sessions' \subseteq Session /\ UNCHANGED <<issued, cut, ended, barred>>
    BY <1>3 DEF Silent, history, Inv, RequestsTypeOK
  <2> QED BY <1>3, <2>2, <2>3, EndStep
<1> QED BY <1>1, <1>2, <1>3 DEF handleDeleteUser

-----------------------------------------------------------------------------
(* Groups, clients and the pool. *)

LEMMA AloneSound ==
    ASSUME Inv, Watch, UNCHANGED work, Alone, Sound({}), UNCHANGED nfam
    PROVE  Inv'
<1>1. UNCHANGED <<req, issued, cut, ended, barred>> /\ sessions' \subseteq Session
  BY DEF Alone, history, Inv, RequestsTypeOK
<1> QED BY <1>1, AloneStep

LEMMA SilentEnd ==
    ASSUME Inv, Watch, UNCHANGED work, NEW p \in Procs, Become(p, Idle), Silent, Sound({}),
           UNCHANGED nfam
    PROVE  Inv'
<1>1. UNCHANGED <<issued, cut, ended, barred>> /\ sessions' \subseteq Session
  BY DEF Silent, history, Inv, RequestsTypeOK
<1> QED BY <1>1, EndStep

LEMMA ChangeGroupsStep ==
    ASSUME Inv, Watch, UNCHANGED work, ChangeGroups
    PROVE  Inv'
<1>1. PICK p \in Procs, g \in Groups :
          \/ handleCreateGroup(p, g)
          \/ \E n \in Names : handleAdminAddUserToGroup(p, g, n) \/ handleAdminRemoveUserFromGroup(p, g, n)
  BY DEF ChangeGroups
<1>2. CASE handleCreateGroup(p, g)
  <2>1. CASE Begin(p, [Idle EXCEPT !.step = "group", !.group = g]) /\ Reads
    <3> DEFINE r == [Idle EXCEPT !.step = "group", !.group = g]
    <3>1. r \in Request /\ r.step = "group"
      <4>1. Idle \in Request /\ "group" \in Steps /\ g \in Groups \cup {Absent}
        BY IdleGood DEF Steps
      <4> QED BY <4>1 DEF Request
    <3> HIDE DEF r
    <3>2. Become(p, r)
      BY <2>1 DEF Begin, r
    <3> QED BY <2>1, <3>1, <3>2, PlainlyStep DEF Plainly
  <2>2. CASE /\ CreateGroup(g) \/ UNCHANGED storage
             /\ Become(p, Idle)
             /\ Silent
    <3>1. Sound({}) /\ UNCHANGED nfam
      <4>1. CASE CreateGroup(g)
        BY <4>1, WriteGroupSound DEF Inv, CreateGroup, WriteGroup, numbers
      <4> QED BY <2>2, <4>1, ReadSound
    <3> QED BY <2>2, <3>1, SilentEnd
  <2> QED BY <1>2, <2>1, <2>2 DEF handleCreateGroup
<1>3. ASSUME NEW n \in Names, NEW step \in {"join", "leave"}, BeginMove(p, step, g, n)
      PROVE  Inv'
  <2> DEFINE r == [Idle EXCEPT !.step = step, !.group = g, !.name = n]
  <2>1. r \in Request /\ r.step = step /\ r.name = n
    <3>1. step \in Steps
      BY DEF Steps
    <3> QED BY <3>1, IdleGood DEF Request
  <2> HIDE DEF r
  <2>2. Become(p, r) /\ Reads /\ r.step \in Plainly
    BY <1>3, <2>1 DEF BeginMove, Begin, r, Plainly
  <2> QED BY <2>1, <2>2, PlainlyStep
<1>4. ASSUME NEW n \in Names,
             AddUserToGroup(g, n) \/ RemoveUserFromGroup(g, n) \/ UNCHANGED storage,
             Become(p, Idle), Silent
      PROVE  Inv'
  <2>1. Sound({}) /\ UNCHANGED nfam
    <3>1. CASE AddUserToGroup(g, n) \/ RemoveUserFromGroup(g, n)
      BY <3>1, MembershipSound DEF Inv, AddUserToGroup, RemoveUserFromGroup, SetMembers, numbers
    <3> QED BY <1>4, <3>1, ReadSound
  <2> QED BY <1>4, <2>1, SilentEnd
<1>5. ASSUME NEW n \in Names, handleAdminAddUserToGroup(p, g, n) PROVE Inv'
  BY <1>3, <1>4, <1>5 DEF handleAdminAddUserToGroup
<1>6. ASSUME NEW n \in Names, handleAdminRemoveUserFromGroup(p, g, n) PROVE Inv'
  BY <1>3, <1>4, <1>6 DEF handleAdminRemoveUserFromGroup
<1> QED BY <1>1, <1>2, <1>5, <1>6

LEMMA SetGroupsStep ==
    ASSUME Inv, Watch, UNCHANGED work, Alone, SetGroups
    PROVE  Inv'
<1>1. PICK g \in Groups : UpdateGroup(g) \/ DeleteGroup(g)
  BY DEF SetGroups, handleUpdateGroup, handleDeleteGroup
<1>2. CASE UpdateGroup(g)
  <2>1. Sound({}) /\ UNCHANGED nfam
    BY <1>2, WriteGroupSound DEF Inv, UpdateGroup, WriteGroup, numbers
  <2> QED BY <2>1, AloneSound
<1>3. CASE DeleteGroup(g)
  <2>1. Sound({}) /\ UNCHANGED nfam
    BY <1>3, DeleteGroupSound DEF Inv, DeleteGroup, SetMembers, numbers
  <2> QED BY <2>1, AloneSound
<1> QED BY <1>1, <1>2, <1>3

LEMMA ChangeClientsStep ==
    ASSUME Inv, Watch, UNCHANGED work, Alone, ChangeClients
    PROVE  Inv'
<1>1. CASE CreateUserPoolClient
  <2>1. Sound({}) /\ UNCHANGED nfam
    BY <1>1, CreateUserPoolClientSound DEF Inv, CreateUserPoolClient, SetClientFiles
  <2> QED BY <2>1, AloneSound
<1>2. ASSUME NEW a \in Apps, UpdateUserPoolClient(a) \/ DeleteUserPoolClient(a) PROVE Inv'
  <2>1. Sound({}) /\ UNCHANGED nfam
    BY <1>2, ChangeClientSound DEF Inv, UpdateUserPoolClient, DeleteUserPoolClient, SetClientFiles
  <2> QED BY <2>1, AloneSound
<1> QED BY <1>1, <1>2 DEF ChangeClients, handleCreateUserPoolClient, handleUpdateUserPoolClient,
                          handleDeleteUserPoolClient

LEMMA ChangePoolStep ==
    ASSUME Inv, Watch, UNCHANGED work, Alone, ChangePool
    PROVE  Inv'
<1>1. CASE DeleteUserPool
  <2>1. UNCHANGED nfam
    BY <1>1 DEF DeleteUserPool, DeleteUserPoolUntil, numbers
  <2> QED BY <1>1, <2>1, DeleteUserPoolSound, AloneSound DEF Inv
<1>2. ASSUME NEW p \in Pool, CreateUserPool(p) PROVE Inv'
  <2>1. Sound({}) /\ UNCHANGED nfam
    BY <1>2, WritePoolSound DEF Inv, CreateUserPool, numbers
  <2> QED BY <2>1, AloneSound
<1> QED BY <1>1, <1>2 DEF ChangePool, handleDeleteUserPool, handleCreateUserPool

LEMMA ChangeSettingsStep ==
    ASSUME Inv, Watch, UNCHANGED work, Alone, ChangeSettings \/ handleSetUserPoolMfaConfig
    PROVE  Inv'
<1>1. ASSUME NEW p \in Pool, UpdateUserPool(p) PROVE Inv'
  <2>1. Sound({}) /\ UNCHANGED nfam
    BY <1>1, WritePoolSound DEF Inv, UpdateUserPool, numbers
  <2> QED BY <2>1, AloneSound
<1>2. CASE handleUpdateUserPool
  <2>1. \A m, d, a \in BOOLEAN, t \in SUBSET TagKeys :
            [mfaOn |-> m, protected |-> d, auto |-> a, tags |-> t] \in Pool
    BY DEF Pool
  <2> QED BY <1>1, <1>2, <2>1 DEF handleUpdateUserPool
<1>3. ASSUME NEW t \in SUBSET TagKeys, handleTagResource(t) \/ handleUntagResource(t) PROVE Inv'
  <2>1. pool \in Pool => /\ [pool EXCEPT !.tags = @ \cup t] \in Pool
                         /\ [pool EXCEPT !.tags = @ \ t] \in Pool
    BY DEF Pool
  <2> QED BY <1>1, <1>3, <2>1 DEF handleTagResource, handleUntagResource
<1>4. CASE handleSetUserPoolMfaConfig
  <2>1. pool \in Pool => \A m \in BOOLEAN : [pool EXCEPT !.mfaOn = m] \in Pool
    BY DEF Pool
  <2> QED BY <1>1, <1>4, <2>1 DEF handleSetUserPoolMfaConfig
<1> QED BY <1>2, <1>3, <1>4 DEF ChangeSettings

LEMMA MakeKeysStep ==
    ASSUME Inv, Watch, UNCHANGED work, Alone, MakeKeys
    PROVE  Inv'
<1>1. PICK k \in Keys, ok \in BOOLEAN : GetOrCreatePoolKeys(k, ok)
  BY DEF MakeKeys
<1> QED BY <1>1, GetOrCreatePoolKeysSound, AloneSound DEF Inv

LEMMA ExchangeStep ==
    ASSUME Inv, Watch, UNCHANGED work, NEW s \in sessions, ExchangeSession(s)
    PROVE  Inv'
<1>1. s \in Session
  BY DEF Inv, RequestsTypeOK
<1>2. [s EXCEPT !.chal = "pending"] \in Session /\ [s EXCEPT !.chal = "verified"] \in Session
  BY <1>1 DEF Session, Challenges
<1>3. sessions' \subseteq Session
  BY <1>2 DEF ExchangeSession, Inv, RequestsTypeOK
<1>4. Sound({}) /\ UNCHANGED nfam
  BY ReadSound DEF ExchangeSession
<1> QED BY <1>3, <1>4, AloneStep DEF ExchangeSession

LEMMA RevokeUnknownStep ==
    ASSUME Inv, Watch, UNCHANGED work, NEW f, handleRevokeTokenUnknown(f)
    PROVE  Inv'
<1>1. UNCHANGED <<req, issued, sessions, cut, ended, barred>>
  BY DEF handleRevokeTokenUnknown, history
<1>2. Sound({}) /\ UNCHANGED nfam
  BY ReadSound DEF handleRevokeTokenUnknown
<1>3. sessions' \subseteq Session
  BY <1>1 DEF Inv, RequestsTypeOK
<1> QED BY <1>1, <1>2, <1>3, AloneStep

LEMMA RestartStep ==
    ASSUME Inv, Watch, UNCHANGED work, Restart
    PROVE  Inv'
<1>1. /\ req' \in [Procs -> Request]
      /\ \A p \in Procs : req'[p] = Idle
  BY IdleGood DEF Restart
<1>2. Sound({}) /\ UNCHANGED storage /\ UNCHANGED history
  BY ReadSound DEF Restart, Reads
<1>3. \A p \in Procs : Good(req[p], watch[p])'
  BY <1>1, IdleGood
<1>4. UNCHANGED <<refresh, nfam, issued, cut, ended, barred, sessions>>
  BY <1>2 DEF storage, history, tokenFiles, numbers
<1>5. \A f \in Families, s \in Subs : f <= nfam /\ Holds(f, s)' => Holds(f, s)
  <2>1. \A p \in Procs, f \in Families, s \in Subs : ~Carries(req[p], f, s)'
    BY <1>1, IdleGood DEF Carries
  <2> QED BY <1>4, <2>1 DEF Holds
<1>6. \A f \in Families : ~(f <= nfam) => refresh'[f] = Absent
  BY <1>2, <1>4 DEF Sound, StorageInv, TokensOK
<1>7. /\ issued' \subseteq Token /\ cut' \subseteq Families /\ ended' \subseteq Families
      /\ barred' \subseteq Subs /\ sessions' \subseteq Session
  BY <1>4 DEF Inv, RequestsTypeOK
<1> QED BY <1>1, <1>2, <1>3, <1>4, <1>5, <1>6, <1>7, Constants, Step

-----------------------------------------------------------------------------
(* Signing in. *)

LEMMA SilentStep ==
    ASSUME Inv, Sound({}), UNCHANGED nfam, Watch, UNCHANGED work, Silent, NEW p \in Procs,
           NEW r \in Request, Become(p, r), NEW v, v = watch'[p], Good(r, v)',
           \A f \in Families, s \in Subs : Carries(r, f, s) => Holds(f, s)
    PROVE  Inv'
<1>1. req' = [req EXCEPT ![p] = r]
  BY DEF Become
<1>2. sessions' \subseteq Session /\ UNCHANGED <<issued, cut, ended, barred>>
  BY DEF Silent, history, Inv, RequestsTypeOK
<1> QED BY <1>1, <1>2, QuietStep

LEMMA ChallengeStep ==
    ASSUME Inv, Sound({}), UNCHANGED nfam, Watch, UNCHANGED work, NEW p \in Procs,
           NEW chal \in Challenges, NEW n \in Names, NEW a \in Apps, NEW k \in Keys,
           Challenge(p, chal, n, a, k)
    PROVE  Inv'
<1>1. [chal |-> chal, name |-> n, app |-> a, key |-> k] \in Session
  BY DEF Session
<1>2. sessions' \subseteq Session /\ UNCHANGED <<issued, cut, ended, barred>> /\ Become(p, Idle)
  BY <1>1 DEF Challenge, Inv, RequestsTypeOK
<1> QED BY <1>2, EndStep

\* The client of a request that begins.
LEMMA Resolved ==
    ASSUME Inv, NEW a \in Apps, Resolves(a)
    PROVE  a <= napp
<1>1. clientIndex[a] # Absent
  BY Constants DEF Resolves
<1> QED BY <1>1 DEF Inv, StorageInv, ClientsOK

\* Whom a request finds enabled was not barred when it began.
LEMMA NotBarred ==
    ASSUME Inv, Watch, barred' \subseteq Subs, NEW p \in Procs, NEW v, v = watch'[p], NEW s \in Subs,
           users[s] \in User
    PROVE  /\ users[s].enabled => s \notin v.barred
           /\ ~users[s].mfa => s \notin v.mfa
           /\ ~PoolRequires => ~v.pool
<1>1. v.barred \subseteq barred /\ v.mfa \subseteq Requiring /\ (v.pool => PoolRequires)
  BY WatchStep
<1> QED BY <1>1 DEF Inv, Requiring

\* A request that is about to read its user.
LEMMA CompleteStep ==
    ASSUME Inv, Sound({}), UNCHANGED nfam, Watch, UNCHANGED work, Silent, NEW p \in Procs,
           NEW r \in Request, Become(p, r), r.step \in {"complete", "newPassword"},
           r.name \in Names, r.app \in Apps, r.app <= napp', r.key \in Keys, r.fam = Absent,
           r.key = keys' \/ clients'[r.app] = Absent
    PROVE  Inv'
<1>1. PICK v : v = watch'[p]
  OBVIOUS
<1>2. Good(r, v)' /\ \A f, s : ~Carries(r, f, s)
  BY DEF Good, Carries, Naming, Plainly, Signing, Knowing, Ending
<1> QED BY <1>1, <1>2, SilentStep

LEMMA PreparedType ==
    ASSUME NEW r \in Request
    PROVE  [r EXCEPT !.step = "answer"] \in Request
<1>1. "answer" \in Steps
  BY DEF Steps
<1> QED BY <1>1 DEF Request

\* A request that is about to answer, unless its client or a group cannot be read.
LEMMA PreparedStep ==
    ASSUME Inv, Sound({}), UNCHANGED nfam, Watch, UNCHANGED work, Silent, NEW p \in Procs,
           NEW r \in Request, Become(p, Prepared(r)), NEW v, v = watch'[p],
           r.name \in Names, r.app \in Apps, r.key \in Keys,
           clients[r.app] = "stored" => r.key = keys',
           Real(r.sub)', r.sub \notin v.barred,
           r.fam # Absent => OwnedBy(r.fam, r.sub)' /\ Holds(r.fam, r.sub),
           r.fam = Absent /\ ~r.proven => ~v.pool /\ r.sub \notin v.mfa
    PROVE  Inv'
<1>1. CASE clients[r.app] = "stored" /\ Prepared(r) = [r EXCEPT !.step = "answer"]
  <2> DEFINE a == [r EXCEPT !.step = "answer"]
  <2>1. a \in Request /\ a.step = "answer"
    BY PreparedType DEF Request
  <2>2. /\ a.name = r.name /\ a.app = r.app /\ a.key = r.key /\ a.sub = r.sub /\ a.fam = r.fam
        /\ a.proven = r.proven
    BY DEF Request
  <2> HIDE DEF a
  <2>3. Good(a, v)'
    BY <1>1, <2>1, <2>2 DEF Good, Naming, Plainly, Signing, Knowing, Ending
  <2>4. \A f \in Families, s \in Subs : Carries(a, f, s) => Holds(f, s)
    BY <2>1, <2>2, Numbers DEF Carries
  <2>5. Become(p, a)
    BY <1>1 DEF a
  <2> QED BY <2>1, <2>3, <2>4, <2>5, SilentStep
<1>2. CASE Prepared(r) = Idle
  BY <1>2, SilentEnd
<1> QED BY <1>1, <1>2 DEF Prepared

LEMMA Unchanged ==
    ASSUME UNCHANGED storage
    PROVE  UNCHANGED <<keys, clients, clientIndex, users, index, refresh, revoked, napp, nsub, nfam>>
BY DEF storage, poolFiles, clientFiles, userFiles, tokenFiles, numbers

\* A sign-in that has found its user, and only then asks for the keys.
LEMMA BeginKeysStep ==
    ASSUME Inv, Watch, UNCHANGED work, Reads, NEW p \in Procs, NEW a \in Apps, Resolves(a),
           NEW n \in Names, NEW chal \in {"newpw", "srp", Absent},
           Begin(p, [Idle EXCEPT !.step = "keys", !.app = a, !.chal = chal, !.name = n])
    PROVE  Inv'
<1> DEFINE r == [Idle EXCEPT !.step = "keys", !.app = a, !.chal = chal, !.name = n]
<1>1. r \in Request
  <2>1. Idle \in Request /\ "keys" \in Steps
    BY IdleGood DEF Steps
  <2> QED BY <2>1 DEF Request
<1>2. r.step = "keys" /\ r.app = a /\ r.name = n /\ r.fam = Absent
  BY DEF Idle
<1>3. Become(p, r)
  BY DEF Begin
<1> HIDE DEF r
<1>4. Sound({}) /\ UNCHANGED nfam /\ UNCHANGED napp /\ Silent
  BY ReadSound, Unchanged DEF Reads, Silent
<1>5. a <= napp'
  BY <1>4, Resolved
<1>6. PICK v : v = watch'[p]
  OBVIOUS
<1>7. Good(r, v)'
  BY <1>2, <1>5 DEF Good, Naming, Plainly, Signing, Knowing, Ending
<1>8. \A f \in Families, s \in Subs : ~Carries(r, f, s)
  BY <1>2, Numbers DEF Carries
<1> QED BY <1>1, <1>3, <1>4, <1>6, <1>7, <1>8, SilentStep

LEMMA TakeKeysStep ==
    ASSUME Inv, Watch, UNCHANGED work, NEW p \in Procs, TakeKeys(p)
    PROVE  Inv'
<1>1. PICK k \in Keys, ok \in BOOLEAN :
          /\ GetOrCreatePoolKeys(k, ok)
          /\ \/ ~ok /\ Become(p, Idle) /\ Silent
             \/ ok /\ req[p].chal # Absent /\ Challenge(p, req[p].chal, req[p].name, req[p].app, k)
             \/ ok /\ req[p].fam # Absent /\ Become(p, Prepared([req[p] EXCEPT !.key = k])) /\ Silent
             \/ /\ ok /\ req[p].chal = Absent /\ req[p].fam = Absent
                /\ Become(p, [req[p] EXCEPT !.key = k, !.step = "complete"])
                /\ Silent
  <2>1. req[p] \in Request
    BY DEF Inv, RequestsTypeOK
  <2>2. PICK k \in Keys, ok \in BOOLEAN :
          LET r == [req[p] EXCEPT !.key = k] IN
          /\ GetOrCreatePoolKeys(k, ok)
          /\ \/ ~ok /\ Become(p, Idle) /\ Silent
             \/ ok /\ r.chal # Absent /\ Challenge(p, r.chal, r.name, r.app, k)
             \/ ok /\ r.fam # Absent /\ Become(p, Prepared(r)) /\ Silent
             \/ /\ ok /\ r.chal = Absent /\ r.fam = Absent
                /\ Become(p, [r EXCEPT !.step = "complete"])
                /\ Silent
    BY DEF TakeKeys
  <2> DEFINE r == [req[p] EXCEPT !.key = k]
  <2>3. r.chal = req[p].chal /\ r.name = req[p].name /\ r.app = req[p].app /\ r.fam = req[p].fam
    BY <2>1 DEF Request
  <2>4. [r EXCEPT !.step = "complete"] = [req[p] EXCEPT !.key = k, !.step = "complete"]
    BY <2>1 DEF Request
  <2> QED BY <2>2, <2>3, <2>4
<1>2. /\ Sound({}) /\ UNCHANGED <<clients, nfam>>
      /\ ok => keys' = k
  BY <1>1, GetOrCreatePoolKeysSound DEF Inv
<1>3. PICK q \in Request : q = req[p]
  BY DEF Inv, RequestsTypeOK
<1>4. Good(q, watch[p]) /\ q.step = "keys"
  BY <1>3 DEF Inv, TakeKeys, At
<1>5. q.name \in Names /\ q.app \in Apps /\ q.app <= napp
  BY <1>4 DEF Good, Naming
<1>6. q.app <= napp'
  <2>1. napp \in Int /\ napp' \in Int /\ napp <= napp'
    BY <1>2, Constants DEF Inv, Sound, StorageInv, StorageTypeOK, Moves, MovesClients
  <2> QED BY <1>5, <2>1 DEF Apps
<1>7. CASE ~ok /\ Become(p, Idle) /\ Silent
  BY <1>2, <1>7, SilentEnd
<1>8. CASE ok /\ q.chal # Absent /\ Challenge(p, q.chal, q.name, q.app, k)
  <2>1. q.chal \in Challenges
    BY <1>8 DEF Request, Challenges
  <2> QED BY <1>2, <1>5, <1>8, <2>1, ChallengeStep
<1>9. CASE ok /\ q.fam # Absent /\ Become(p, Prepared([q EXCEPT !.key = k])) /\ Silent
  <2> DEFINE r == [q EXCEPT !.key = k]
  <2>1. r \in Request /\ r.key = k
    BY DEF Request
  <2>2. r.name = q.name /\ r.app = q.app /\ r.sub = q.sub /\ r.fam = q.fam
    BY DEF Request
  <2> HIDE DEF r
  <2>3. PICK v : v = watch'[p]
    OBVIOUS
  <2>4. Real(q.sub) /\ q.sub \notin watch[p].barred /\ OwnedBy(q.fam, q.sub)
    BY <1>4, <1>9 DEF Good
  <2>5. q.sub \notin v.barred
    <3>1. req[p] # Idle
      BY <1>3, <1>4 DEF Idle
    <3>2. barred' \subseteq Subs
      BY <1>9 DEF Silent, history, Inv, RequestsTypeOK
    <3>3. Fewer(v, watch[p])
      BY <2>3, <3>1, <3>2, WatchStep
    <3> QED BY <2>4, <3>3 DEF Fewer
  <2>6. q.fam \in Families /\ StorageInv
    BY <1>9 DEF Request, Inv
  <2>7. Real(q.sub)' /\ OwnedBy(q.fam, q.sub)'
    BY <1>2, <2>4, <2>6, RealStays, OwnedStays
  <2>8. Holds(q.fam, q.sub)
    BY <1>3, <1>4 DEF Holds, Carries
  <2>9. Real(r.sub)' /\ (r.fam # Absent => OwnedBy(r.fam, r.sub)' /\ Holds(r.fam, r.sub))
    BY <2>2, <2>7, <2>8
  <2>10. Become(p, Prepared(r)) /\ Silent
    BY <1>9 DEF r
  <2> QED BY <1>2, <1>5, <1>9, <2>1, <2>2, <2>3, <2>5, <2>9, <2>10, PreparedStep
<1>10. CASE /\ ok /\ q.chal = Absent /\ q.fam = Absent
            /\ Become(p, [q EXCEPT !.key = k, !.step = "complete"])
            /\ Silent
  <2> DEFINE r == [q EXCEPT !.key = k, !.step = "complete"]
  <2>1. r \in Request
    <3>1. "complete" \in Steps
      BY DEF Steps
    <3> QED BY <3>1 DEF Request
  <2>2. r.step = "complete" /\ r.key = k /\ r.name = q.name /\ r.app = q.app /\ r.fam = q.fam
    BY DEF Request
  <2>3. Become(p, r) /\ Silent
    BY <1>10
  <2> HIDE DEF r
  <2> QED BY <1>2, <1>5, <1>6, <1>10, <2>1, <2>2, <2>3, CompleteStep
<1> QED BY <1>1, <1>3, <1>7, <1>8, <1>9, <1>10

\* What a request of a sign-in has, and what it finds when it reads its user.
LEMMA SigningHas ==
    ASSUME Inv, NEW p \in Procs, req[p].step \in Signing
    PROVE  /\ req[p] \in Request /\ req[p] # Idle
           /\ req[p].name \in Names /\ req[p].app \in Apps /\ req[p].app <= napp
           /\ req[p].key \in Keys /\ req[p].fam = Absent
           /\ req[p].key = keys \/ clients[req[p].app] = Absent
<1>1. Good(req[p], watch[p]) /\ req[p] \in Request
  BY DEF Inv, RequestsTypeOK
<1>2. req[p] # Idle
  BY DEF Signing, Idle
<1> QED BY <1>1, <1>2 DEF Good, Naming

LEMMA FoundReal ==
    ASSUME Inv, NEW n \in Names, Known(n)
    PROVE  /\ SubOf(n) \in Subs /\ Real(SubOf(n)) /\ UserOf(n) \in User
           /\ UserOf(n) = users[SubOf(n)] /\ UserOf(n).name \in Names
<1>1. UserOf(n) \in User => UserOf(n).name \in Names
  BY DEF User
<1> QED BY <1>1, FoundUser DEF Inv, Real

LEMMA completeAuthStep ==
    ASSUME Inv, Watch, UNCHANGED work, NEW p \in Procs, completeAuth(p)
    PROVE  Inv'
<1>1. PICK q \in Request : q = req[p]
  BY DEF Inv, RequestsTypeOK
<1>2. q.step = "complete"
  BY <1>1 DEF completeAuth, At
<1>3. /\ q.name \in Names /\ q.app \in Apps /\ q.app <= napp /\ q.key \in Keys /\ q.fam = Absent
      /\ q.key = keys \/ clients[q.app] = Absent
  BY <1>1, <1>2, SigningHas DEF Signing
<1>4. Sound({}) /\ UNCHANGED <<keys, clients, users, index, napp, nsub, nfam>>
  BY ReadSound, Unchanged DEF completeAuth
<1>5. CASE Become(p, Idle) /\ Silent
  BY <1>4, <1>5, SilentEnd
<1>6. CASE Known(q.name) /\ Challenge(p, "totp", UserOf(q.name).name, q.app, q.key)
  <2>1. UserOf(q.name).name \in Names
    BY <1>3, <1>6, FoundReal
  <2> QED BY <1>3, <1>4, <1>6, <2>1, ChallengeStep DEF Challenges
<1>7. CASE /\ Known(q.name) /\ UserOf(q.name).enabled /\ ~UserOf(q.name).mfa
           /\ Become(p, [q EXCEPT !.step = "policy", !.name = UserOf(q.name).name,
                                  !.sub = SubOf(q.name), !.totp = UserOf(q.name).totp])
           /\ Silent
  <2>1. PICK s \in Subs, u \in User, m \in Names :
            /\ s = SubOf(q.name) /\ u = UserOf(q.name) /\ m = UserOf(q.name).name
            /\ Real(s) /\ users[s] = u
    BY <1>3, <1>7, FoundReal
  <2>2. u.totp \in BOOLEAN
    BY DEF User
  <2> DEFINE r == [q EXCEPT !.step = "policy", !.name = m, !.sub = s, !.totp = u.totp]
  <2>3. r \in Request
    <3>1. "policy" \in Steps /\ m \in Names \cup {Absent} /\ s \in Subs \cup {Absent}
      BY DEF Steps
    <3> QED BY <2>2, <3>1 DEF Request
  <2>4. r.step = "policy" /\ r.name = m /\ r.sub = s /\ r.app = q.app /\ r.key = q.key /\ r.fam = q.fam
    BY DEF Request
  <2>5. Become(p, r)
    BY <1>7, <2>1
  <2> HIDE DEF r
  <2>6. PICK v : v = watch'[p]
    OBVIOUS
  <2>7. barred' \subseteq Subs
    BY <1>7 DEF Silent, history, Inv, RequestsTypeOK
  <2>8. s \notin v.barred /\ s \notin v.mfa
    BY <1>7, <2>1, <2>6, <2>7, NotBarred
  <2>9. Real(s)'
    BY <1>4, <2>1 DEF Real, Named
  <2>10. Good(r, v)'
    BY <1>3, <1>4, <2>4, <2>8, <2>9 DEF Good, Naming, Plainly, Signing, Knowing, Ending
  <2>11. \A f, z : ~Carries(r, f, z)
    BY <2>4 DEF Carries
  <2> QED BY <1>4, <1>7, <2>3, <2>5, <2>6, <2>10, <2>11, SilentStep
<1> QED BY <1>1, <1>5, <1>6, <1>7 DEF completeAuth, Its

LEMMA checkPolicyStep ==
    ASSUME Inv, Watch, UNCHANGED work, NEW p \in Procs, checkPolicy(p)
    PROVE  Inv'
<1>1. PICK q \in Request : q = req[p]
  BY DEF Inv, RequestsTypeOK
<1>2. q.step = "policy" /\ Good(q, watch[p])
  BY <1>1 DEF checkPolicy, At, Inv
<1>3. /\ q.name \in Names /\ q.app \in Apps /\ q.key \in Keys /\ q.fam = Absent /\ q # Idle
      /\ q.key = keys \/ clients[q.app] = Absent
  BY <1>1, <1>2, SigningHas DEF Signing
<1>4. Sound({}) /\ UNCHANGED <<keys, clients, users, index, napp, nsub, nfam>>
  BY ReadSound, Unchanged DEF checkPolicy
<1>5. CASE Become(p, Idle) /\ Silent
  BY <1>4, <1>5, SilentEnd
<1>6. CASE Challenge(p, IF q.totp THEN "totp" ELSE "setup", q.name, q.app, q.key)
  <2>1. (IF q.totp THEN "totp" ELSE "setup") \in Challenges
    BY DEF Challenges
  <2> QED BY <1>3, <1>4, <1>6, <2>1, ChallengeStep
<1>7. CASE pool \in Pool /\ ~pool.mfaOn /\ Become(p, Prepared(q)) /\ Silent
  <2>1. PICK v : v = watch'[p]
    OBVIOUS
  <2>2. Real(q.sub) /\ q.sub \notin watch[p].barred /\ q.sub \notin watch[p].mfa
    BY <1>2 DEF Good, Knowing
  <2>3. Fewer(v, watch[p]) /\ (v.pool => PoolRequires)
    <3>1. barred' \subseteq Subs
      BY <1>7 DEF Silent, history, Inv, RequestsTypeOK
    <3> QED BY <1>1, <1>3, <2>1, <3>1, WatchStep
  <2>4. ~v.pool /\ q.sub \notin v.mfa /\ q.sub \notin v.barred
    BY <1>7, <2>2, <2>3 DEF PoolRequires, Fewer
  <2>5. Real(q.sub)'
    BY <1>4, <2>2 DEF Real, Named
  <2>6. clients[q.app] = "stored" => q.key = keys'
    BY <1>3, <1>4, Constants
  <2> QED BY <1>3, <1>4, <1>7, <2>1, <2>4, <2>5, <2>6, PreparedStep
<1> QED BY <1>1, <1>5, <1>6, <1>7 DEF checkPolicy

\* The request p ends, and answers the tokens in new.
LEMMA AnswerStep ==
    ASSUME Inv, Sound({}), Watch, UNCHANGED <<work, sessions, cut, ended, barred>>,
           NEW p \in Procs, Become(p, Idle), NEW new \in SUBSET Token, issued' = issued \cup new,
           \A t \in new : GoodToken(t)' /\ (t.fam <= nfam => Holds(t.fam, t.sub)),
           \A f \in Families : ~(f <= nfam) /\ refresh'[f] \in RefreshToken => Real(refresh[f].sub)'
    PROVE  Inv'
<1>1. /\ req' \in [Procs -> Request] /\ req'[p] = Idle
      /\ \A q \in Procs : q # p => req'[q] = req[q]
  BY IdleGood DEF Become, Inv, RequestsTypeOK
<1>2. \A q \in Procs : req'[q] = req[q] \/ Good(req[q], watch[q])'
  <2>1. Good(req[p], watch[p])'
    BY <1>1, IdleGood
  <2> QED BY <1>1, <2>1
<1>3. \A f \in Families, s \in Subs : f <= nfam /\ Holds(f, s)' => Holds(f, s)
  <2> SUFFICES ASSUME NEW f \in Families, NEW s \in Subs, f <= nfam, Holds(f, s)'
               PROVE  Holds(f, s)
    OBVIOUS
  <2>1. ASSUME NEW t \in issued', t.fam = f, t.sub = s PROVE Holds(f, s)
    BY <2>1 DEF Holds
  <2>2. CASE refresh'[f] \in RefreshToken /\ refresh'[f].sub = s
    <3>1. refresh'[f] = refresh[f]
      BY <2>2, Constants DEF Sound, Moves, MovesTokens
    <3> QED BY <2>2, <3>1 DEF Holds
  <2>3. ASSUME NEW q \in Procs, Carries(req[q], f, s)' PROVE Holds(f, s)
    <3>1. q # p
      BY <1>1, <2>3, IdleGood DEF Carries
    <3> QED BY <1>1, <2>3, <3>1 DEF Carries, Holds
  <2> QED BY <2>1, <2>2, <2>3 DEF Holds
<1>4. /\ issued' \subseteq Token /\ cut' \subseteq Families /\ ended' \subseteq Families
      /\ barred' \subseteq Subs /\ sessions' \subseteq Session
  BY DEF Inv, RequestsTypeOK
<1> QED BY <1>1, <1>2, <1>3, <1>4, Constants, Step

LEMMA writeAuthResultStep ==
    ASSUME Inv, Watch, UNCHANGED work, NEW p \in Procs, writeAuthResult(p)
    PROVE  Inv'
<1>1. PICK r \in Request : r = req[p]
  BY DEF Inv, RequestsTypeOK
<1>2. r.step = "answer" /\ Good(r, watch[p])
  BY <1>1 DEF writeAuthResult, At, Inv
<1>3. /\ Real(r.sub) /\ r.sub \in Subs /\ r.app \in Apps /\ r.key \in Keys
      /\ r.key = keys \/ users[r.sub] = Absent
      /\ r.fam # Absent => OwnedBy(r.fam, r.sub)
  BY <1>2 DEF Good, Knowing, Real
<1>4. UNCHANGED <<sessions, cut, ended, barred>> /\ Become(p, Idle)
  BY DEF writeAuthResult
<1>5. StorageInv /\ nfam \in Int
  BY Counters DEF Inv
<1>6. CASE r.fam # Absent /\ Issue(r.fam, r) /\ UNCHANGED storage
  <2> DEFINE t == [fam |-> r.fam, sub |-> r.sub, key |-> r.key]
  <2>1. t \in Token
    BY <1>3, <1>6 DEF Token, Request
  <2>2. issued' = issued \cup {t} /\ t.fam = r.fam /\ t.sub = r.sub /\ t.key = r.key
    BY <1>6 DEF Issue
  <2> HIDE DEF t
  <2>3. Sound({}) /\ UNCHANGED <<keys, users, index, refresh, nsub, nfam>>
    BY <1>6, ReadSound, Unchanged
  <2>4. Holds(t.fam, t.sub)
    BY <1>1, <1>2, <2>2 DEF Holds, Carries
  <2>5. GoodToken(t)'
    BY <1>3, <1>6, <2>2, <2>3 DEF GoodToken, Real, Named, OwnedBy
  <2>6. \A f \in Families : ~(f <= nfam) => refresh'[f] = Absent
    BY <2>3 DEF Sound, StorageInv, TokensOK
  <2>7. {t} \in SUBSET Token /\ \A x \in {t} : GoodToken(x)' /\ Holds(x.fam, x.sub)
    BY <2>1, <2>4, <2>5
  <2> QED BY <1>4, <2>2, <2>3, <2>6, <2>7, Constants, AnswerStep
<1>7. ASSUME NEW ok \in BOOLEAN, CreateRefreshToken(r.sub, r.app, ok),
             IF ok THEN Issue(nfam + 1, r) ELSE UNCHANGED issued
      PROVE  Inv'
  <2>1. /\ Sound({}) /\ nfam' = nfam + 1 /\ nfam + 1 \in Families
        /\ refresh'[nfam + 1] \in RefreshToken => refresh'[nfam + 1].sub = r.sub
        /\ UNCHANGED <<poolFiles, clientFiles, userFiles, nsub>>
    BY <1>3, <1>5, <1>7, CreateRefreshTokenSound
  <2>2. Real(r.sub)'
    BY <1>3, <1>5, <2>1, RealStays
  <2>3. \A f \in Families : ~(f <= nfam) /\ refresh'[f] \in RefreshToken => Real(refresh[f].sub)'
    <3> SUFFICES ASSUME NEW f \in Families, ~(f <= nfam), refresh'[f] \in RefreshToken
                 PROVE  Real(refresh[f].sub)'
      OBVIOUS
    <3>1. f <= nfam'
      BY <2>1, Constants DEF Sound, StorageInv, TokensOK
    <3>2. f = nfam + 1
      BY <1>5, <2>1, <3>1 DEF Families
    <3> QED BY <2>1, <2>2, <3>2
  <2>4. CASE ok
    <3>0. PICK new \in Families : new = nfam + 1
      BY <2>1
    <3> DEFINE t == [fam |-> new, sub |-> r.sub, key |-> r.key]
    <3>1. t \in Token
      BY <1>3 DEF Token
    <3>2. issued' = issued \cup {t} /\ t.fam = nfam + 1 /\ t.sub = r.sub /\ t.key = r.key
      BY <1>7, <2>4, <3>0 DEF Issue
    <3> HIDE DEF t
    <3>3. UNCHANGED <<keys, users>> /\ t.fam <= nfam' /\ ~(t.fam <= nfam)
      BY <1>5, <2>1, <3>2 DEF poolFiles, userFiles
    <3>4. OwnedBy(t.fam, t.sub)'
      BY <2>1, <3>2, <3>3 DEF OwnedBy
    <3>5. GoodToken(t)'
      BY <1>3, <2>2, <3>2, <3>3, <3>4 DEF GoodToken
    <3>6. {t} \in SUBSET Token /\ \A x \in {t} : GoodToken(x)' /\ ~(x.fam <= nfam)
      BY <3>1, <3>3, <3>5
    <3> QED BY <1>4, <2>1, <2>3, <3>2, <3>6, AnswerStep
  <2>5. CASE ~ok
    <3>1. issued' = issued \cup {}
      BY <1>7, <2>5
    <3> QED BY <1>4, <2>1, <2>3, <3>1, AnswerStep
  <2> QED BY <2>4, <2>5
<1>8. CASE UNCHANGED <<storage, issued>>
  <2>1. sessions' \subseteq Session
    BY <1>4 DEF Inv, RequestsTypeOK
  <2> QED BY <1>4, <1>8, <2>1, ReadSound, EndStep
<1> QED BY <1>1, <1>6, <1>7, <1>8 DEF writeAuthResult

LEMMA SignInStep ==
    ASSUME Inv, Watch, UNCHANGED work, SignIn
    PROVE  Inv'
<1>1. ASSUME NEW p \in Procs, NEW a \in Apps, NEW n \in Names, handleUserPasswordAuth(p, a, n)
      PROVE  Inv'
  <2>1. PICK chal \in {"newpw", "srp", Absent}, m \in Names :
            /\ chal = IF UserOf(n).status = "FORCE" THEN "newpw" ELSE Absent
            /\ m = IF UserOf(n).status = "FORCE" THEN n ELSE UserOf(n).name
    <3>1. UserOf(n).name \in Names
      BY <1>1, FoundReal DEF handleUserPasswordAuth
    <3> QED BY <3>1
  <2>2. Begin(p, [Idle EXCEPT !.step = "keys", !.app = a, !.chal = chal, !.name = m])
    BY <1>1, <2>1 DEF handleUserPasswordAuth
  <2> QED BY <1>1, <2>1, <2>2, BeginKeysStep DEF handleUserPasswordAuth
<1> QED BY <1>1, TakeKeysStep, completeAuthStep, checkPolicyStep, writeAuthResultStep DEF SignIn

LEMMA SRPStep ==
    ASSUME Inv, Watch, UNCHANGED work, SRP
    PROVE  Inv'
<1>1. ASSUME NEW p \in Procs, NEW a \in Apps, NEW n \in Names, handleUserSRPAuth(p, a, n)
      PROVE  Inv'
  BY <1>1, BeginKeysStep DEF handleUserSRPAuth
<1>2. ASSUME NEW p \in Procs, NEW s \in sessions, handlePasswordVerifierChallenge(p, s)
      PROVE  Inv'
  <2>1. s.name \in Names /\ s.app \in Apps /\ s.key \in Keys
    BY DEF Inv, RequestsTypeOK, Session
  <2>2. Sound({}) /\ UNCHANGED <<keys, clients, napp, nfam>>
    BY <1>2, ReadSound, Unchanged DEF handlePasswordVerifierChallenge
  <2>3. s.app <= napp /\ keys = s.key
    BY <1>2, <2>1, Resolved DEF handlePasswordVerifierChallenge, Genuine
  <2>4. CASE Challenge(p, "newpw", s.name, s.app, s.key)
    BY <2>1, <2>2, <2>4, ChallengeStep DEF Challenges
  <2>5. CASE /\ Become(p, [Idle EXCEPT !.step = "complete", !.app = s.app, !.key = s.key,
                                       !.name = UserOf(s.name).name])
             /\ Silent
    <3>1. PICK m \in Names : m = UserOf(s.name).name
      BY <1>2, <2>1, FoundReal DEF handlePasswordVerifierChallenge
    <3> DEFINE r == [Idle EXCEPT !.step = "complete", !.app = s.app, !.key = s.key, !.name = m]
    <3>2. r \in Request
      <4>1. Idle \in Request /\ "complete" \in Steps
        BY IdleGood DEF Steps
      <4> QED BY <2>1, <4>1 DEF Request
    <3>3. r.step = "complete" /\ r.name = m /\ r.app = s.app /\ r.key = s.key /\ r.fam = Absent
      BY DEF Idle
    <3>4. Become(p, r)
      BY <2>5, <3>1
    <3> HIDE DEF r
    <3> QED BY <2>1, <2>2, <2>3, <2>5, <3>2, <3>3, <3>4, CompleteStep
  <2>6. Challenge(p, "newpw", s.name, s.app, s.key) \/
        /\ Become(p, [Idle EXCEPT !.step = "complete", !.app = s.app, !.key = s.key,
                                  !.name = UserOf(s.name).name])
        /\ Silent
    <3>1. \A m : [[Idle EXCEPT !.step = "complete", !.app = s.app, !.key = s.key] EXCEPT !.name = m]
                  = [Idle EXCEPT !.step = "complete", !.app = s.app, !.key = s.key, !.name = m]
      BY DEF Idle
    <3> QED BY <1>2, <3>1 DEF handlePasswordVerifierChallenge
  <2> QED BY <2>4, <2>5, <2>6
<1> QED BY <1>1, <1>2 DEF SRP

-----------------------------------------------------------------------------
(* Answers to challenges, and refresh tokens. *)

LEMMA SessionHas ==
    ASSUME Inv, NEW s \in sessions, Genuine(s)
    PROVE  /\ s.name \in Names /\ s.app \in Apps /\ s.key \in Keys
           /\ s.app <= napp /\ keys = s.key
<1>1. s.name \in Names /\ s.app \in Apps /\ s.key \in Keys
  BY DEF Inv, RequestsTypeOK, Session
<1> QED BY <1>1, Resolved DEF Genuine

LEMMA handleNewPasswordRequiredStep ==
    ASSUME Inv, Watch, UNCHANGED work, NEW p \in Procs, NEW s \in sessions,
           handleNewPasswordRequired(p, s)
    PROVE  Inv'
<1>1. s.name \in Names /\ s.app \in Apps /\ s.key \in Keys /\ s.app <= napp /\ keys = s.key
  BY SessionHas DEF handleNewPasswordRequired
<1>2. Sound({}) /\ UNCHANGED <<keys, clients, napp, nfam>> /\ Silent
  BY ReadSound, Unchanged DEF handleNewPasswordRequired, Reads, Silent
<1> DEFINE r == [Idle EXCEPT !.step = "newPassword", !.name = s.name, !.app = s.app, !.key = s.key]
<1>3. r \in Request
  <2>1. Idle \in Request /\ "newPassword" \in Steps
    BY IdleGood DEF Steps
  <2> QED BY <1>1, <2>1 DEF Request
<1>4. r.step = "newPassword" /\ r.name = s.name /\ r.app = s.app /\ r.key = s.key /\ r.fam = Absent
  BY DEF Idle
<1>5. Become(p, r)
  BY DEF handleNewPasswordRequired, Begin
<1> HIDE DEF r
<1> QED BY <1>1, <1>2, <1>3, <1>4, <1>5, CompleteStep

LEMMA SetNewPasswordStep ==
    ASSUME Inv, Watch, UNCHANGED work, NEW p \in Procs, SetNewPassword(p)
    PROVE  Inv'
<1>1. PICK q \in Request : q = req[p]
  BY DEF Inv, RequestsTypeOK
<1>2. q.step = "newPassword"
  BY <1>1 DEF SetNewPassword, At
<1>3. /\ q.name \in Names /\ q.app \in Apps /\ q.app <= napp /\ q.key \in Keys /\ q.fam = Absent
      /\ q.key = keys \/ clients[q.app] = Absent
  BY <1>1, <1>2, SigningHas DEF Signing
<1>4. Silent
  BY DEF SetNewPassword
<1>5. CASE Become(p, Idle) /\ UNCHANGED storage
  BY <1>4, <1>5, ReadSound, SilentEnd
<1>6. ASSUME NEW ok \in BOOLEAN, Known(q.name),
             UpdateUser(q.name, [UserOf(q.name) EXCEPT !.password = q.name, !.status = "CONFIRMED"], ok),
             Become(p, IF ok THEN [q EXCEPT !.step = "complete", !.name = UserOf(q.name).name] ELSE Idle)
      PROVE  Inv'
  <2>1. PICK m \in Names : m = UserOf(q.name).name
    BY <1>3, <1>6, FoundReal
  <2>2. Sound({}) /\ UNCHANGED nfam
    <3>1. UserOf(q.name) \in User
      BY <1>3, <1>6, FoundReal
    <3>2. Edit(UserOf(q.name), [UserOf(q.name) EXCEPT !.password = q.name, !.status = "CONFIRMED"])
      BY <1>3, <3>1 DEF Edit, User
    <3> QED BY <1>3, <1>6, <3>2, EditSound
  <2>3. UNCHANGED <<keys, clients, napp>>
    BY <1>6 DEF UpdateUser, poolFiles, clientFiles, numbers
  <2>4. CASE ok
    <3> DEFINE r == [q EXCEPT !.step = "complete", !.name = m]
    <3>1. r \in Request
      <4>1. "complete" \in Steps
        BY DEF Steps
      <4> QED BY <4>1 DEF Request
    <3>2. r.step = "complete" /\ r.name = m /\ r.app = q.app /\ r.key = q.key /\ r.fam = q.fam
      BY DEF Request
    <3>3. Become(p, r)
      BY <1>6, <2>1, <2>4
    <3> HIDE DEF r
    <3> QED BY <1>3, <1>4, <2>2, <2>3, <3>1, <3>2, <3>3, CompleteStep
  <2>5. CASE ~ok
    BY <1>4, <1>6, <2>2, <2>5, SilentEnd
  <2> QED BY <2>4, <2>5
<1> QED BY <1>1, <1>5, <1>6 DEF SetNewPassword, Its

LEMMA handleSoftwareTokenMFAChallengeStep ==
    ASSUME Inv, Watch, UNCHANGED work, NEW p \in Procs, NEW c \in sessions,
           handleSoftwareTokenMFAChallenge(p, c)
    PROVE  Inv'
<1>1. c.name \in Names /\ c.app \in Apps /\ c.key \in Keys /\ c.app <= napp /\ keys = c.key
  BY SessionHas DEF handleSoftwareTokenMFAChallenge
<1>2. Sound({}) /\ UNCHANGED <<keys, clients, users, index, napp, nsub, nfam>> /\ Silent
  BY ReadSound, Unchanged DEF handleSoftwareTokenMFAChallenge, Reads, Silent
<1>3. PICK s \in Subs, m \in Names :
          /\ s = SubOf(c.name) /\ m = UserOf(c.name).name
          /\ Real(s) /\ users[s] \in User /\ users[s].enabled
  BY <1>1, FoundReal DEF handleSoftwareTokenMFAChallenge
<1> DEFINE r == [Idle EXCEPT !.step = "heal", !.name = m, !.app = c.app, !.key = c.key, !.sub = s,
                             !.proven = TRUE]
<1>4. r \in Request
  <2>1. Idle \in Request /\ "heal" \in Steps
    BY IdleGood DEF Steps
  <2> QED BY <1>1, <2>1 DEF Request
<1>5. /\ r.step = "heal" /\ r.name = m /\ r.app = c.app /\ r.key = c.key /\ r.sub = s
      /\ r.fam = Absent /\ r.proven
  BY DEF Idle
<1>6. Become(p, Prepared(r)) \/ Become(p, r)
  BY <1>3 DEF handleSoftwareTokenMFAChallenge, Begin
<1> HIDE DEF r
<1>7. PICK v : v = watch'[p]
  OBVIOUS
<1>8. s \notin v.barred
  <2>1. barred' \subseteq Subs
    BY <1>2 DEF Silent, history, Inv, RequestsTypeOK
  <2> QED BY <1>3, <1>7, <2>1, NotBarred
<1>9. Real(s)'
  BY <1>2, <1>3 DEF Real, Named
<1>10. CASE Become(p, Prepared(r))
  BY <1>1, <1>2, <1>3, <1>4, <1>5, <1>7, <1>8, <1>9, <1>10, PreparedStep
<1>11. CASE Become(p, r)
  <2>1. Good(r, v)'
    BY <1>1, <1>2, <1>3, <1>5, <1>8, <1>9 DEF Good, Naming, Plainly, Signing, Knowing, Ending
  <2>2. \A f, z : ~Carries(r, f, z)
    BY <1>5 DEF Carries
  <2> QED BY <1>2, <1>4, <1>7, <1>11, <2>1, <2>2, SilentStep
<1> QED BY <1>6, <1>10, <1>11

LEMMA handleMFASetupChallengeStep ==
    ASSUME Inv, Watch, UNCHANGED work, NEW p \in Procs, NEW c \in sessions,
           handleMFASetupChallenge(p, c)
    PROVE  Inv'
<1>1. c.name \in Names /\ c.app \in Apps /\ c.key \in Keys /\ c.app <= napp /\ keys = c.key
  BY SessionHas DEF handleMFASetupChallenge
<1>2. Sound({}) /\ UNCHANGED <<keys, clients, users, index, napp, nsub, nfam>> /\ Silent
  BY ReadSound, Unchanged DEF handleMFASetupChallenge, Reads, Silent
<1>3. SubOf(c.name) \in Subs /\ users[SubOf(c.name)] \in User /\ users[SubOf(c.name)].enabled
  BY <1>1, FoundReal DEF handleMFASetupChallenge
<1> DEFINE r == [Idle EXCEPT !.step = "enrol", !.name = c.name, !.app = c.app, !.key = c.key,
                             !.proven = TRUE]
<1>4. r \in Request
  <2>1. Idle \in Request /\ "enrol" \in Steps
    BY IdleGood DEF Steps
  <2> QED BY <1>1, <2>1 DEF Request
<1>5. /\ r.step = "enrol" /\ r.name = c.name /\ r.app = c.app /\ r.key = c.key
      /\ r.fam = Absent /\ r.proven
  BY DEF Idle
<1>6. Become(p, r)
  BY DEF handleMFASetupChallenge, Begin
<1> HIDE DEF r
<1>7. PICK v : v = watch'[p]
  OBVIOUS
<1>8. SubOf(c.name) \notin v.barred
  <2>1. barred' \subseteq Subs
    BY <1>2 DEF Silent, history, Inv, RequestsTypeOK
  <2> QED BY <1>3, <1>7, <2>1, NotBarred
<1>9. index'[Fold[r.name]] \notin v.barred
  BY <1>2, <1>5, <1>8 DEF SubOf
<1>10. Good(r, v)'
  BY <1>1, <1>2, <1>5, <1>9 DEF Good, SubOf, Naming, Plainly, Signing, Knowing, Ending
<1>11. \A f, z : ~Carries(r, f, z)
  BY <1>5 DEF Carries
<1> QED BY <1>2, <1>4, <1>6, <1>7, <1>10, <1>11, SilentStep

LEMMA ActivateMFAStep ==
    ASSUME Inv, Watch, UNCHANGED work, NEW p \in Procs, ActivateMFA(p)
    PROVE  Inv'
<1>1. PICK q \in Request : q = req[p]
  BY DEF Inv, RequestsTypeOK
<1>2. q.step \in {"heal", "enrol"} /\ Good(q, watch[p])
  BY <1>1 DEF ActivateMFA, Inv
<1>3. /\ q.name \in Names /\ q.app \in Apps /\ q.app <= napp /\ q.key \in Keys /\ q.fam = Absent
      /\ q.key = keys \/ clients[q.app] = Absent
      /\ q # Idle
  BY <1>1, <1>2, SigningHas DEF Signing
<1>4. Silent
  BY DEF ActivateMFA
<1>5. CASE Become(p, Idle) /\ UNCHANGED storage
  BY <1>4, <1>5, ReadSound, SilentEnd
<1> DEFINE enrols == q.step = "enrol"
           u == [UserOf(q.name) EXCEPT !.mfa = TRUE, !.totp = @ \/ enrols]
           next == IF enrols THEN [q EXCEPT !.sub = SubOf(q.name), !.name = u.name] ELSE q
<1>6. ASSUME NEW ok \in BOOLEAN, UpdateUser(q.name, u, ok), Become(p, IF ok THEN Prepared(next) ELSE Idle)
      PROVE  Inv'
  <2>1. Known(q.name)
    BY <1>6 DEF UpdateUser
  <2>2. PICK s \in Subs, x \in User :
            s = SubOf(q.name) /\ x = UserOf(q.name) /\ x.name \in Names /\ Real(s)
    BY <1>3, <2>1, FoundReal
  <2>3. Edit(x, [x EXCEPT !.mfa = TRUE, !.totp = @ \/ enrols])
    <3>1. PICK b \in BOOLEAN : b = (x.totp \/ enrols)
      OBVIOUS
    <3>2. [x EXCEPT !.mfa = TRUE, !.totp = @ \/ enrols] = [x EXCEPT !.mfa = TRUE, !.totp = b]
      BY <3>1 DEF User
    <3>3. Edit(x, [x EXCEPT !.mfa = TRUE, !.totp = b])
      BY DEF Edit, User
    <3> QED BY <3>2, <3>3
  <2>4. Sound({}) /\ UNCHANGED nfam
    BY <1>3, <1>6, <2>2, <2>3, EditSound
  <2>5. UNCHANGED <<keys, clients, napp>>
    BY <1>6 DEF UpdateUser, poolFiles, clientFiles, numbers
  <2>6. PICK v : v = watch'[p]
    OBVIOUS
  <2>7. Fewer(v, watch[p])
    <3>1. barred' \subseteq Subs
      BY <1>4 DEF Silent, history, Inv, RequestsTypeOK
    <3> QED BY <1>1, <1>3, <2>6, <3>1, WatchStep
  <2>8. PICK r \in Request :
            /\ r = next /\ r.name \in Names /\ r.app = q.app /\ r.key = q.key /\ r.fam = q.fam
            /\ r.proven = q.proven /\ Real(r.sub) /\ r.sub \notin watch[p].barred
    <3>1. CASE enrols
      <4>1. next = [q EXCEPT !.sub = s, !.name = x.name]
        <5>1. u.name = x.name
          BY <2>2, <2>3 DEF User
        <5> QED BY <2>2, <3>1, <5>1
      <4> DEFINE r == [q EXCEPT !.sub = s, !.name = x.name]
      <4>2. r \in Request
        BY <2>2 DEF Request
      <4>3. /\ r.name = x.name /\ r.app = q.app /\ r.key = q.key /\ r.fam = q.fam
            /\ r.proven = q.proven /\ r.sub = s
        BY DEF Request
      <4>4. s \notin watch[p].barred
        BY <1>2, <2>2, <3>1 DEF Good
      <4> QED BY <2>2, <4>1, <4>2, <4>3, <4>4
    <3>2. CASE ~enrols
      <4>1. Real(q.sub) /\ q.sub \notin watch[p].barred
        BY <1>2, <3>2 DEF Good, Knowing
      <4> QED BY <1>3, <3>2, <4>1
    <3> QED BY <3>1, <3>2
  <2>9. q.proven
    BY <1>2 DEF Good
  <2>10. Real(r.sub)'
    BY <2>4, <2>8, RealStays DEF Inv
  <2>11. clients[r.app] = "stored" => r.key = keys'
    BY <1>3, <2>5, <2>8, Constants
  <2>12. r.sub \notin v.barred
    BY <2>7, <2>8 DEF Fewer
  <2>13. CASE ok
    BY <1>3, <1>4, <1>6, <2>4, <2>6, <2>8, <2>9, <2>10, <2>11, <2>12, <2>13, PreparedStep
  <2>14. CASE ~ok
    BY <1>4, <1>6, <2>4, <2>14, SilentEnd
  <2> QED BY <2>13, <2>14
<1> QED BY <1>1, <1>5, <1>6 DEF ActivateMFA, Its

LEMMA RespondStep ==
    ASSUME Inv, Watch, UNCHANGED work, Respond
    PROVE  Inv'
BY handleNewPasswordRequiredStep, handleSoftwareTokenMFAChallengeStep, handleMFASetupChallengeStep,
   SetNewPasswordStep, ActivateMFAStep DEF Respond

LEMMA RefreshStep ==
    ASSUME Inv, Watch, UNCHANGED work, Refresh
    PROVE  Inv'
<1>1. PICK p \in Procs, f \in Families : handleRefreshTokenAuth(p, f)
  BY DEF Refresh
<1>2. PICK s \in Subs, a \in Apps, m \in Names :
          /\ s = refresh[f].sub /\ a = refresh[f].app /\ m = users[s].name
          /\ refresh[f] \in RefreshToken /\ Resolves(a) /\ users[s] \in User /\ users[s].enabled
  BY <1>1 DEF handleRefreshTokenAuth, RefreshToken, User
<1>3. /\ Sound({}) /\ UNCHANGED <<keys, clients, users, index, refresh, napp, nsub, nfam>>
      /\ Silent
  BY <1>1, ReadSound, Unchanged DEF handleRefreshTokenAuth, Reads, Silent
<1> DEFINE r == [Idle EXCEPT !.step = "keys", !.name = m, !.app = a, !.sub = s, !.fam = f]
<1>4. r \in Request
  <2>1. Idle \in Request /\ "keys" \in Steps
    BY IdleGood DEF Steps
  <2> QED BY <2>1 DEF Request
<1>5. r.step = "keys" /\ r.name = m /\ r.app = a /\ r.sub = s /\ r.fam = f
  BY DEF Idle
<1>6. Become(p, r)
  BY <1>1, <1>2 DEF handleRefreshTokenAuth, Begin
<1> HIDE DEF r
<1>7. PICK v : v = watch'[p]
  OBVIOUS
<1>8. s \notin v.barred
  <2>1. barred' \subseteq Subs
    BY <1>3 DEF Silent, history, Inv, RequestsTypeOK
  <2> QED BY <1>2, <1>7, <2>1, NotBarred
<1>9. Real(s)'
  <2>1. Real(s)
    BY <1>2 DEF Inv
  <2> QED BY <1>3, <2>1 DEF Real, Named
<1>10. OwnedBy(f, s)'
  <2>1. f <= nfam
    BY <1>2, Constants DEF Inv, StorageInv, TokensOK
  <2> QED BY <1>2, <1>3, <2>1 DEF OwnedBy
<1>11. a <= napp'
  BY <1>2, <1>3, Resolved
<1>12. Good(r, v)'
  BY <1>5, <1>8, <1>9, <1>10, <1>11 DEF Good, Naming, Plainly, Signing, Knowing, Ending
<1>13. \A g \in Families, z \in Subs : Carries(r, g, z) => Holds(g, z)
  BY <1>2, <1>5 DEF Carries, Holds
<1> QED BY <1>3, <1>4, <1>6, <1>7, <1>12, <1>13, SilentStep

-----------------------------------------------------------------------------
(* Ending sessions. *)

\* A request that ends sessions, when it begins.
LEMMA BeginEndingGood ==
    ASSUME NEW r \in Request, r.step \in {"origins", "revoke"}, NEW v,
           r.fam # Absent => r.fam <= nfam', \A f \in r.fams : f <= nfam',
           r.step = "revoke" => r.fam \in Families, r.step = "origins" => r.sub \in Subs,
           r.sub = Absent => r.fams = {r.fam},
           r.sub # Absent => \A f \in r.fams : OwnedBy(f, r.sub)'
    PROVE  Good(r, v)' /\ \A f, s : ~Carries(r, f, s)
BY DEF Good, Carries, Naming, Plainly, Signing, Knowing, Ending

\* Such a request moves on to its next step.
LEMMA EndingStep ==
    ASSUME Inv, Sound({}), UNCHANGED nfam, Watch, UNCHANGED work, Silent, NEW p \in Procs,
           NEW q \in Request, q = req[p], q.step \in {"origins", "revoke"},
           NEW step \in {"revoke", "forget", "delete"}, Become(p, [q EXCEPT !.step = step]),
           step \in {"revoke", "forget"} => q.fam \in Families,
           step = "delete" => q.sub \in Subs,
           step = "forget" => q.sub = Absent,
           step \in {"forget", "delete"} /\ q.fam # Absent => q.fam \in revoked'
    PROVE  Inv'
<1> DEFINE r == [q EXCEPT !.step = step]
<1>1. r \in Request
  <2>1. step \in Steps
    BY DEF Steps
  <2> QED BY <2>1 DEF Request
<1>2. r.step = step /\ r.fam = q.fam /\ r.sub = q.sub /\ r.fams = q.fams
  BY DEF Request
<1> HIDE DEF r
<1>3. PICK v : v = watch'[p]
  OBVIOUS
<1>4. Good(q, watch[p]) /\ q.step \in Ending /\ StorageInv
  BY DEF Inv, Ending
<1>5. /\ q.fam # Absent => q.fam <= nfam'
      /\ \A f \in q.fams : f <= nfam'
      /\ q.sub = Absent => q.fams = {q.fam}
      /\ q.sub # Absent => \A f \in q.fams : OwnedBy(f, q.sub)
  BY <1>4 DEF Good
<1>6. q.sub # Absent => \A f \in q.fams : OwnedBy(f, q.sub)'
  BY <1>4, <1>5, OwnedStays DEF Request
<1>7. step \in {"forget", "delete"} /\ q.fam # Absent => Dead(q.fam)'
  BY <1>5 DEF Dead
<1>8. Good(r, v)'
  BY <1>2, <1>5, <1>6, <1>7 DEF Good, Naming, Plainly, Signing, Knowing, Ending
<1>9. \A f, s : ~Carries(r, f, s)
  BY <1>2 DEF Carries
<1>10. Become(p, r)
  BY DEF r
<1> QED BY <1>1, <1>3, <1>8, <1>9, <1>10, SilentStep

LEMMA RevokeOriginsStep ==
    ASSUME Inv, Watch, UNCHANGED work, NEW p \in Procs, RevokeOrigins(p)
    PROVE  Inv'
<1>1. PICK q \in Request : q = req[p]
  BY DEF Inv, RequestsTypeOK
<1>2. q.step = "origins" /\ Good(q, watch[p])
  BY <1>1 DEF RevokeOrigins, At, Inv
<1>3. PICK ok \in BOOLEAN :
          /\ RevokeOriginJTIsForSub(q.sub, ok)
          /\ Become(p, IF ok THEN [q EXCEPT !.step = IF q.fam = Absent THEN "delete" ELSE "revoke"]
                       ELSE Idle)
  BY <1>1 DEF RevokeOrigins
<1>4. Sound({}) /\ UNCHANGED nfam /\ Silent
  BY <1>3, RevokeOriginJTIsForSubSound DEF RevokeOrigins, RevokeOriginJTIsForSub, Inv
<1>5. CASE ok
  <2>1. PICK step \in {"revoke", "delete"} : step = IF q.fam = Absent THEN "delete" ELSE "revoke"
    OBVIOUS
  <2>2. q.sub \in Subs
    BY <1>2 DEF Good
  <2>3. q.fam # Absent => q.fam \in Families
    BY DEF Request
  <2>4. Become(p, [q EXCEPT !.step = step])
    BY <1>3, <1>5, <2>1
  <2> QED BY <1>1, <1>2, <1>4, <2>1, <2>2, <2>3, <2>4, EndingStep
<1>6. CASE ~ok
  BY <1>3, <1>4, <1>6, SilentEnd
<1> QED BY <1>5, <1>6

LEMMA RevokeOriginStep ==
    ASSUME Inv, Watch, UNCHANGED work, NEW p \in Procs, RevokeOrigin(p)
    PROVE  Inv'
<1>1. PICK q \in Request : q = req[p]
  BY DEF Inv, RequestsTypeOK
<1>2. q.step = "revoke" /\ Good(q, watch[p]) /\ Silent
  BY <1>1 DEF RevokeOrigin, At, Inv
<1>3. q.fam \in Families
  BY <1>2 DEF Good
<1>4. ASSUME NEW ok \in BOOLEAN, RevokeAccessToken(q.fam, ok),
             Become(p, IF ok THEN [q EXCEPT !.step = IF q.sub = Absent THEN "forget" ELSE "delete"]
                       ELSE Idle)
      PROVE  Inv'
  <2>1. Sound({}) /\ UNCHANGED nfam /\ (ok => q.fam \in revoked')
    BY <1>3, <1>4, RevokeAccessTokenSound DEF RevokeAccessToken, Inv
  <2>2. CASE ok
    <3>1. PICK step \in {"forget", "delete"} : step = IF q.sub = Absent THEN "forget" ELSE "delete"
      OBVIOUS
    <3>2. q.sub # Absent => q.sub \in Subs
      BY DEF Request
    <3>3. Become(p, [q EXCEPT !.step = step])
      BY <1>4, <2>2, <3>1
    <3> QED BY <1>1, <1>2, <1>3, <2>1, <2>2, <3>1, <3>2, <3>3, EndingStep
  <2>3. CASE ~ok
    BY <1>2, <1>4, <2>1, <2>3, SilentEnd
  <2> QED BY <2>2, <2>3
<1>5. CASE Become(p, Idle) /\ UNCHANGED storage
  BY <1>2, <1>5, ReadSound, SilentEnd
<1> QED BY <1>1, <1>4, <1>5 DEF RevokeOrigin

\* The request that has ended sessions answers.
LEMMA EndedStep ==
    ASSUME Inv, Sound({}), UNCHANGED nfam, Watch, UNCHANGED work, NEW p \in Procs,
           NEW ok \in BOOLEAN, Ended(p, ok),
           req[p].step \in {"forget", "delete"},
           ok => \A f \in req[p].fams : refresh'[f] = Absent
    PROVE  Inv'
<1>1. PICK q \in Request : q = req[p]
  BY DEF Inv, RequestsTypeOK
<1>2. Good(q, watch[p]) /\ q.step \in Ending /\ q.step \in {"forget", "delete"}
  BY <1>1 DEF Inv, Ending
<1>3. (\A f \in q.fams : f <= nfam) /\ (q.fam # Absent => Dead(q.fam))
  BY <1>2 DEF Good
<1>4. q.fams \subseteq Families /\ (q.fam # Absent => q.fam \in Families)
  BY DEF Request
<1>5. /\ cut' \subseteq Families /\ ended' \subseteq Families
      /\ \A f \in cut' \ cut : Dead(f)
      /\ \A f \in ended' \ ended : f <= nfam' /\ refresh'[f] = Absent
  BY <1>1, <1>3, <1>4 DEF Ended, Inv, RequestsTypeOK
<1>6. UNCHANGED <<issued, sessions, barred>> /\ Become(p, Idle)
  BY DEF Ended
<1>7. /\ req' \in [Procs -> Request] /\ req'[p] = Idle
      /\ \A r \in Procs : r # p => req'[r] = req[r]
  BY <1>6, IdleGood DEF Become, Inv, RequestsTypeOK
<1>8. \A r \in Procs : req'[r] = req[r] \/ Good(req[r], watch[r])'
  <2>1. Good(req[p], watch[p])'
    BY <1>7, IdleGood
  <2> QED BY <1>7, <2>1
<1>9. \A f \in Families : ~(f <= nfam) => refresh'[f] = Absent
  BY DEF Sound, StorageInv, TokensOK
<1>10. \A f \in Families, s \in Subs : f <= nfam /\ Holds(f, s)' => Holds(f, s)
  <2> SUFFICES ASSUME NEW f \in Families, NEW s \in Subs, f <= nfam, Holds(f, s)'
               PROVE  Holds(f, s)
    OBVIOUS
  <2>1. CASE \E t \in issued : t.fam = f /\ t.sub = s
    BY <2>1 DEF Holds
  <2>2. CASE refresh'[f] \in RefreshToken /\ refresh'[f].sub = s
    <3>1. refresh'[f] = refresh[f]
      BY <2>2, Constants DEF Sound, Moves, MovesTokens
    <3> QED BY <2>2, <3>1 DEF Holds
  <2>3. ASSUME NEW r \in Procs, Carries(req[r], f, s)' PROVE Holds(f, s)
    <3>1. r # p
      BY <1>7, <2>3, IdleGood DEF Carries
    <3> QED BY <1>7, <2>3, <3>1 DEF Carries, Holds
  <2> QED BY <1>6, <2>1, <2>2, <2>3 DEF Holds
<1>11. issued' \subseteq Token /\ barred' \subseteq Subs /\ sessions' \subseteq Session
  BY <1>6 DEF Inv, RequestsTypeOK
<1> QED BY <1>5, <1>6, <1>7, <1>8, <1>9, <1>10, <1>11, Constants, Step

LEMMA ForgetStep ==
    ASSUME Inv, Watch, UNCHANGED work, NEW p \in Procs, Forget(p)
    PROVE  Inv'
<1>1. Good(req[p], watch[p]) /\ req[p].step = "forget"
  BY DEF Forget, At, Inv
<1>2. req[p].fam \in Families /\ req[p].fams = {req[p].fam}
  BY <1>1 DEF Good, Ending
<1>3. PICK ok \in BOOLEAN : DeleteRefreshToken(req[p].fam, ok) /\ Ended(p, ok)
  BY DEF Forget
<1>4. Sound({}) /\ UNCHANGED nfam /\ (ok => refresh'[req[p].fam] = Absent)
  BY <1>2, <1>3, DeleteRefreshTokenSound DEF DeleteRefreshToken, Inv
<1> QED BY <1>1, <1>2, <1>3, <1>4, EndedStep

LEMMA DeleteTokensStep ==
    ASSUME Inv, Watch, UNCHANGED work, NEW p \in Procs, DeleteTokens(p)
    PROVE  Inv'
<1>1. Good(req[p], watch[p]) /\ req[p].step = "delete" /\ req[p] \in Request
  BY DEF DeleteTokens, At, Inv, RequestsTypeOK
<1>2. \A f \in req[p].fams : OwnedBy(f, req[p].sub) /\ f \in Families
  BY <1>1, Numbers DEF Good, Ending, Request
<1>3. PICK ok \in BOOLEAN : DeleteRefreshTokensBySub(req[p].sub, ok) /\ Ended(p, ok)
  BY DEF DeleteTokens
<1>4. /\ Sound({}) /\ UNCHANGED nfam
      /\ ok => \A f \in Families :
                  (refresh[f] \in RefreshToken => refresh[f].sub = req[p].sub) => refresh'[f] = Absent
  BY <1>3, DeleteRefreshTokensBySubSound DEF DeleteRefreshTokensBySub, Inv
<1>5. ok => \A f \in req[p].fams : refresh'[f] = Absent
  BY <1>2, <1>4 DEF OwnedBy
<1> QED BY <1>1, <1>3, <1>4, <1>5, EndedStep

LEMMA EndSessionsStep ==
    ASSUME Inv, Watch, UNCHANGED work, EndSessions
    PROVE  Inv'
BY RevokeOriginsStep, RevokeOriginStep, DeleteTokensStep DEF EndSessions

LEMMA RevokeStep ==
    ASSUME Inv, Watch, UNCHANGED work, Revoke
    PROVE  Inv'
<1>1. ASSUME NEW p \in Procs, NEW f \in Families, handleRevokeToken(p, f) PROVE Inv'
  <2> DEFINE r == [Idle EXCEPT !.step = "revoke", !.fam = f, !.fams = {f}]
  <2>1. r \in Request
    <3>1. Idle \in Request /\ "revoke" \in Steps
      BY IdleGood DEF Steps
    <3> QED BY <3>1 DEF Request
  <2>2. r.step = "revoke" /\ r.fam = f /\ r.fams = {f} /\ r.sub = Absent
    BY DEF Idle
  <2>3. Become(p, r)
    BY <1>1 DEF handleRevokeToken, Begin
  <2> HIDE DEF r
  <2>4. Sound({}) /\ UNCHANGED nfam /\ Silent
    BY <1>1, ReadSound DEF handleRevokeToken, Reads, Silent
  <2>5. f <= nfam'
    BY <1>1, <2>4, Constants DEF handleRevokeToken, Inv, StorageInv, TokensOK
  <2>6. PICK v : v = watch'[p]
    OBVIOUS
  <2>7. Good(r, v)' /\ \A g, s : ~Carries(r, g, s)
    BY <2>1, <2>2, <2>5, BeginEndingGood
  <2> QED BY <2>1, <2>3, <2>4, <2>6, <2>7, SilentStep
<1> QED BY <1>1, ForgetStep DEF Revoke

\* The families of a user's access tokens are its own.
LEMMA IssuedOwned ==
    ASSUME Inv, NEW s
    PROVE  /\ IssuedTo(s) \subseteq Families
           /\ \A f \in IssuedTo(s) : OwnedBy(f, s)
BY DEF IssuedTo, Inv, RequestsTypeOK, Token, GoodToken

LEMMA SignOutStep ==
    ASSUME Inv, Watch, UNCHANGED work, SignOut
    PROVE  Inv'
<1>1. PICK p \in Procs, t \in issued : handleGlobalSignOut(p, t)
  BY DEF SignOut
<1>2. t.fam \in Families /\ t.sub \in Subs /\ OwnedBy(t.fam, t.sub)
  BY DEF Inv, RequestsTypeOK, Token, GoodToken
<1>3. PICK fs \in SUBSET Families : fs = IssuedTo(t.sub) /\ \A f \in fs : OwnedBy(f, t.sub)
  BY IssuedOwned
<1> DEFINE r == [Idle EXCEPT !.step = "origins", !.sub = t.sub, !.fam = t.fam, !.fams = fs]
<1>4. r \in Request
  <2>1. Idle \in Request /\ "origins" \in Steps
    BY IdleGood DEF Steps
  <2> QED BY <1>2, <2>1 DEF Request
<1>5. r.step = "origins" /\ r.fam = t.fam /\ r.fams = fs /\ r.sub = t.sub
  BY DEF Idle
<1>6. Become(p, r)
  BY <1>1, <1>3 DEF handleGlobalSignOut, Begin
<1> HIDE DEF r
<1>7. Sound({}) /\ UNCHANGED <<refresh, nfam>> /\ Silent
  BY <1>1, ReadSound, Unchanged DEF handleGlobalSignOut, Reads, Silent
<1>8. t.fam <= nfam' /\ \A f \in fs : f <= nfam' /\ OwnedBy(f, t.sub)'
  BY <1>2, <1>3, <1>7 DEF OwnedBy
<1>9. PICK v : v = watch'[p]
  OBVIOUS
<1>10. Good(r, v)' /\ \A g, s : ~Carries(r, g, s)
  BY <1>2, <1>4, <1>5, <1>8, Numbers, BeginEndingGood
<1> QED BY <1>4, <1>6, <1>7, <1>9, <1>10, SilentStep

LEMMA EnableStep ==
    ASSUME Inv, Watch, UNCHANGED work, Enable
    PROVE  Inv'
<1>1. PICK n \in Names : handleAdminEnableUser(n)
  BY DEF Enable
<1>2. PICK s : s = SubOf(n)
  OBVIOUS
<1>3. PICK ok \in BOOLEAN : UpdateUser(n, [UserOf(n) EXCEPT !.enabled = TRUE], ok)
  BY <1>1 DEF handleAdminEnableUser
<1>4. UserOf(n) \in User
  BY <1>1, FoundReal DEF handleAdminEnableUser
<1>5. PICK u \in User : u = [UserOf(n) EXCEPT !.enabled = TRUE] /\ u.name = UserOf(n).name
  <2>1. \A x \in User : [x EXCEPT !.enabled = TRUE] \in User /\ [x EXCEPT !.enabled = TRUE].name = x.name
    BY DEF User
  <2> QED BY <1>4, <2>1
<1>6. SubOf(n) \in {s}
  BY <1>2
<1>7. Sound({s})
  BY <1>3, <1>5, <1>6, UpdateUserSound DEF Inv
<1>8. UNCHANGED nfam
  BY <1>3 DEF UpdateUser, numbers
<1>9. UNCHANGED <<req, issued, cut, ended>> /\ sessions' \subseteq Session /\ barred' \subseteq barred \ {s}
  BY <1>1, <1>2 DEF handleAdminEnableUser, Inv, RequestsTypeOK
<1> QED BY <1>7, <1>8, <1>9, AloneStep

LEMMA DisableStep ==
    ASSUME Inv, Watch, UNCHANGED work, Disable
    PROVE  Inv'
<1>1. PICK p \in Procs, n \in Names : handleAdminDisableUser(p, n)
  BY DEF Disable
<1>2. PICK s \in Subs : s = SubOf(n) /\ Real(s) /\ UserOf(n) \in User /\ UserOf(n) = users[s]
  BY <1>1, FoundReal DEF handleAdminDisableUser
<1>3. PICK u \in User :
          u = [UserOf(n) EXCEPT !.enabled = FALSE] /\ u.name = UserOf(n).name /\ ~u.enabled
  <2>1. \A x \in User : /\ [x EXCEPT !.enabled = FALSE] \in User
                        /\ [x EXCEPT !.enabled = FALSE].name = x.name
                        /\ ~[x EXCEPT !.enabled = FALSE].enabled
    BY DEF User
  <2> QED BY <1>2, <2>1
<1>4. PICK ok \in BOOLEAN :
          /\ UpdateUser(n, u, ok)
          /\ Begin(p, IF ok THEN [Idle EXCEPT !.step = "origins", !.sub = s, !.fams = IssuedTo(s)]
                      ELSE Idle)
          /\ barred' = IF ok THEN barred \cup {s} ELSE barred
  BY <1>1, <1>2, <1>3 DEF handleAdminDisableUser
<1>5. UNCHANGED <<issued, sessions, cut, ended>>
  BY <1>1 DEF handleAdminDisableUser
<1>6. Sound({}) /\ UNCHANGED <<refresh, nfam, nsub>>
  <2>1. Sound({})
    BY <1>3, <1>4, UpdateUserSound DEF Inv
  <2> QED BY <1>4, <2>1 DEF UpdateUser, tokenFiles, numbers
<1>7. CASE ~ok
  <2>1. Become(p, Idle) /\ UNCHANGED barred /\ sessions' \subseteq Session
    BY <1>4, <1>5, <1>7 DEF Begin, Inv, RequestsTypeOK
  <2> QED BY <1>5, <1>6, <2>1, EndStep
<1>8. CASE ok
  <2>1. users'[s] \in User => ~users'[s].enabled
    <3>1. PICK w \in writeJSON(UserOf(n), u) : users' = [users EXCEPT ![s] = w.file] /\ w.ok
      BY <1>2, <1>4, <1>8 DEF UpdateUser
    <3>2. w.file = u
      BY <3>1, WriteOutcome
    <3>3. users'[s] = u
      BY <3>1, <3>2 DEF Inv, RequestsTypeOK, StorageTypeOK
    <3> QED BY <1>3, <3>3
  <2>2. barred' = barred \cup {s} /\ barred' \subseteq Subs
    BY <1>4, <1>8 DEF Inv, RequestsTypeOK
  <2>3. s <= nsub'
    BY <1>2, <1>6 DEF Real
  <2>4. PICK fs \in SUBSET Families : fs = IssuedTo(s) /\ \A f \in fs : OwnedBy(f, s)
    BY IssuedOwned
  <2> DEFINE r == [Idle EXCEPT !.step = "origins", !.sub = s, !.fams = fs]
  <2>5. r \in Request
    <3>1. Idle \in Request /\ "origins" \in Steps
      BY IdleGood DEF Steps
    <3> QED BY <3>1 DEF Request
  <2>6. r.step = "origins" /\ r.fam = Absent /\ r.fams = fs /\ r.sub = s
    BY DEF Idle
  <2>7. Become(p, r)
    BY <1>4, <1>8, <2>4 DEF Begin
  <2> HIDE DEF r
  <2>8. \A f \in fs : f <= nfam' /\ OwnedBy(f, s)'
    BY <1>6, <2>4 DEF OwnedBy
  <2>9. PICK v : v = watch'[p]
    OBVIOUS
  <2>10. Good(r, v)' /\ \A f, z : ~Carries(r, f, z)
    BY <2>5, <2>6, <2>8, Numbers, BeginEndingGood
  <2>11. /\ req' \in [Procs -> Request] /\ req'[p] = r
         /\ \A q \in Procs : q # p => req'[q] = req[q]
    BY <2>5, <2>7 DEF Become, Inv, RequestsTypeOK
  <2>12. \A q \in Procs : req'[q] = req[q] \/ Good(req[q], watch[q])'
    <3>1. Good(req[p], watch[p])'
      BY <2>9, <2>10, <2>11
    <3> QED BY <2>11, <3>1
  <2>13. \A f \in Families : ~(f <= nfam) => refresh'[f] = Absent
    BY <1>6 DEF Sound, StorageInv, TokensOK
  <2>14. \A f \in Families, z \in Subs : f <= nfam /\ Holds(f, z)' => Holds(f, z)
    <3> SUFFICES ASSUME NEW f \in Families, NEW z \in Subs, Holds(f, z)' PROVE Holds(f, z)
      OBVIOUS
    <3>1. CASE (\E t \in issued : t.fam = f /\ t.sub = z) \/ (refresh[f] \in RefreshToken /\ refresh[f].sub = z)
      BY <3>1 DEF Holds
    <3>2. ASSUME NEW q \in Procs, Carries(req[q], f, z)' PROVE Holds(f, z)
      <4>1. q # p
        BY <2>10, <2>11, <3>2 DEF Carries
      <4> QED BY <2>11, <3>2, <4>1 DEF Carries, Holds
    <3> QED BY <1>5, <1>6, <3>1, <3>2 DEF Holds
  <2>15. /\ issued' \subseteq Token /\ cut' \subseteq Families /\ ended' \subseteq Families
         /\ sessions' \subseteq Session
    BY <1>5 DEF Inv, RequestsTypeOK
  <2> QED BY <1>5, <1>6, <2>1, <2>2, <2>3, <2>11, <2>12, <2>13, <2>14, <2>15, Constants, Step
<1> QED BY <1>7, <1>8

-----------------------------------------------------------------------------
(* The invariant. *)

LEMMA InitInv == Init => Inv
<1> SUFFICES ASSUME Init PROVE Inv
  OBVIOUS
<1>1. PICK s \in Starts : StorageInit(s.pool, s.user) /\ work = s.does
  BY DEF Init
<1>2. s.pool \in Pool \cup {Absent} /\ s.user \in User \cup {Absent} /\ s.does \subseteq Work
  BY RequestsAssumption
<1>3. StorageInv
  BY <1>1, <1>2, StorageInitInv
<1>4. refresh = [f \in Families |-> Absent]
  BY <1>1 DEF StorageInit
<1>5. req = [p \in Procs |-> Idle] /\ watch = [p \in Procs |-> Nothing]
  BY DEF Init
<1>6. issued = {} /\ sessions = {} /\ cut = {} /\ ended = {} /\ barred = {}
  BY DEF Init
<1>7. Nothing \in [pool : BOOLEAN, mfa : SUBSET Subs, barred : SUBSET Subs] /\ Watching(Nothing)
  BY DEF Nothing, Watching
<1>8. RequestsTypeOK
  BY <1>1, <1>2, <1>3, <1>5, <1>6, <1>7, IdleGood DEF RequestsTypeOK, StorageInv
<1>9. \A p \in Procs : Watching(watch[p]) /\ Good(req[p], watch[p])
  BY <1>5, <1>7, IdleGood
<1> QED BY <1>3, <1>4, <1>6, <1>8, <1>9, Constants DEF Inv

LEMMA StutterInv == Inv /\ UNCHANGED vars => Inv'
<1> SUFFICES ASSUME Inv, UNCHANGED vars PROVE Inv'
  OBVIOUS
<1>1. UNCHANGED <<storage, req, issued, sessions, cut, ended, barred, watch, work>>
  BY DEF vars, history
<1>2. UNCHANGED <<dir, pool, keys, clients, clientIndex, users, index, refresh, revoked, groups,
                  members, userGroups, napp, nsub, nfam, nkey, faults>>
  BY <1>1 DEF storage, poolFiles, clientFiles, userFiles, tokenFiles, groupFiles, numbers
<1>3. StorageInv'
  BY <1>1, NothingMoves DEF Inv, Sound
<1>4. RequestsTypeOK'
  BY <1>1, <1>3 DEF Inv, RequestsTypeOK, StorageInv
<1>5. \A s : Real(s)' <=> Real(s)
  BY <1>2 DEF Real, Named
<1>6. \A f, s : OwnedBy(f, s)' <=> OwnedBy(f, s)
  BY <1>2 DEF OwnedBy
<1>7. \A f : Dead(f)' <=> Dead(f)
  <2>1. \A f, s : Holds(f, s)' <=> Holds(f, s)
    BY <1>1, <1>2 DEF Holds, Carries
  <2> QED BY <1>2, <2>1 DEF Dead
<1>8. \A t : GoodToken(t)' <=> GoodToken(t)
  BY <1>2, <1>5, <1>6 DEF GoodToken
<1>9. \A w : Watching(w)' <=> Watching(w)
  BY <1>1, <1>2 DEF Watching, PoolRequires, Requiring
<1>10. \A r, w : Good(r, w)' <=> Good(r, w)
  BY <1>2, <1>5, <1>6, <1>7 DEF Good, SubOf
<1>11. \A p \in Procs : Watching(watch[p])' /\ Good(req[p], watch[p])'
  BY <1>1, <1>9, <1>10 DEF Inv
<1>12. \A f \in Families : refresh'[f] \in RefreshToken => Real(refresh[f].sub)'
  BY <1>2, <1>5 DEF Inv
<1>13. (\A t \in issued' : GoodToken(t)') /\ (\A f \in cut' : Dead(f)')
  BY <1>1, <1>7, <1>8 DEF Inv
<1>14. /\ \A f \in ended' : f <= nfam' /\ refresh'[f] = Absent
       /\ \A s \in barred' : s <= nsub' /\ (users'[s] \in User => ~users'[s].enabled)
  BY <1>1, <1>2 DEF Inv
<1> QED BY <1>3, <1>4, <1>11, <1>12, <1>13, <1>14 DEF Inv

LEMMA NextInv == Inv /\ Next => Inv'
<1> SUFFICES ASSUME Inv, Next PROVE Inv'
  OBVIOUS
<1>1. Watch /\ UNCHANGED work
  BY DEF Next
<1>2. CASE Handle
  BY <1>1, <1>2, NewUsersStep, CreateUserStep, ConfirmStep, ResendStep, ChangeUsersStep, DeleteOwnStep,
     SetPasswordsStep, ChangePasswordsStep, SetAttributesStep, ChangeAttributesStep,
     SignInStep, SRPStep, RespondStep, ExchangeStep, SetUpMFAStep, RefreshStep, RevokeStep,
     SignOutStep, DisableStep, EnableStep, EndSessionsStep, ChangeGroupsStep, SetGroupsStep,
     ChangeClientsStep, MakeKeysStep, ChangePoolStep, ChangeSettingsStep, RestartStep
     DEF Handle
<1>3. CASE \E f \in Families : handleRevokeTokenUnknown(f)
  BY <1>1, <1>3, RevokeUnknownStep
<1> QED BY <1>2, <1>3 DEF Next

LEMMA AlwaysInv == Spec => []Inv
<1>1. Inv /\ [Next]_vars => Inv'
  BY StutterInv, NextInv
<1> QED BY <1>1, InitInv, PTL DEF Spec

-----------------------------------------------------------------------------
(* Theorems. *)

\* The files of the pool, the requests in flight and the tokens answered keep their types
\* through every operation of storage*.go, also when a write of it fails half way.
THEOREM TypeCorrect == Spec => []TypeOK
<1>1. Inv => RequestsTypeOK
  BY DEF Inv
<1>2. Init => told \subseteq Families
  BY DEF Init
<1>3. told \subseteq Families /\ [Next]_vars => (told \subseteq Families)'
  BY DEF Next, handleRevokeTokenUnknown, vars
<1>4. Spec => [](told \subseteq Families)
  BY <1>2, <1>3, PTL DEF Spec
<1>5. RequestsTypeOK /\ told \subseteq Families => TypeOK
  BY DEF TypeOK
<1> QED BY <1>1, <1>4, <1>5, AlwaysInv, PTL

\* No access token of a family that GlobalSignOut was given, or RevokeToken whose refresh
\* token it found, passes checkTokenNotRevoked and lookupUser once it has answered, a token
\* that a concurrent refresh answers later included.  Of a RevokeToken that does not find the
\* refresh token this is not true, and the theorem does not speak of it.
THEOREM RevokedFamiliesStayDead == Spec => []CutFamiliesAreDead
<1>1. Inv => CutFamiliesAreDead
  <2> SUFFICES ASSUME Inv, NEW t \in issued, t.fam \in cut
               PROVE  t.fam \in revoked \/ users[t.sub] = Absent
    BY DEF CutFamiliesAreDead, Rejected
  <2>1. t.sub \in Subs /\ Dead(t.fam)
    BY DEF Inv, RequestsTypeOK, Token
  <2>2. Holds(t.fam, t.sub)
    BY DEF Holds
  <2> QED BY <2>1, <2>2 DEF Dead
<1> QED BY <1>1, AlwaysInv, PTL

\* A refresh token that RevokeToken, GlobalSignOut or AdminDisableUser has answered for is
\* never there again, whatever signs in, fails or restarts.
THEOREM EndedSessionsStayEnded == Spec => []EndedCannotRefresh
<1>1. Inv => EndedCannotRefresh
  BY DEF Inv, EndedCannotRefresh
<1> QED BY <1>1, AlwaysInv, PTL

\* What lookupUser finds by the sub of an access token, UpdateUser and DeleteUser find by its
\* name, after any failures of theirs.
THEOREM SubAndNameAgree == Spec => []TokensNameTheirUser
<1>1. Inv => TokensNameTheirUser
  BY DEF Inv, TokensNameTheirUser, GoodToken, Real, Named, SubOf
<1> QED BY <1>1, AlwaysInv, PTL

\* The access tokens of a user that exists verify with the key that GetOrCreatePoolKeys has
\* stored, whoever raced to make it.
THEOREM IssuedTokensVerify == Spec => []EveryTokenVerifies
<1>1. Inv => EveryTokenVerifies
  BY DEF Inv, EveryTokenVerifies, GoodToken
<1> QED BY <1>1, AlwaysInv, PTL

\* The two directories of memberships that AddUserToGroup, RemoveUserFromGroup, DeleteGroup
\* and DeleteUserPool write say the same while no operation has failed half way.
THEOREM MembershipsAgree == Spec => []GroupsAgree
<1>1. Inv => GroupsAgree
  BY DEF Inv, GroupsAgree, StorageInv, Tidy
<1> QED BY <1>1, AlwaysInv, PTL

\* After DeleteUserPool, no request that was under way leaves a file of the pool behind.
THEOREM PoolLeavesNothing == Spec => []NothingOutlivesPool
<1>1. Inv => NothingOutlivesPool
  BY DEF Inv, NothingOutlivesPool, StorageInv, Tidy, Empty, Stored
<1> QED BY <1>1, AlwaysInv, PTL

\* writeAuthResult answers nothing for a user that AdminDisableUser had disabled when the
\* request began and that was not enabled since.
THEOREM DisabledStayOut == Spec => DisabledGetNoTokens
<1>1. Inv => \A p \in Procs : Answers(p) => req[p].sub \notin watch[p].barred
  <2> SUFFICES ASSUME Inv, NEW p \in Procs, Answers(p) PROVE req[p].sub \notin watch[p].barred
    OBVIOUS
  <2>1. Good(req[p], watch[p]) /\ req[p].step = "answer"
    BY DEF Inv, Answers, At
  <2> QED BY <2>1 DEF Good, Knowing
<1> QED BY <1>1, AlwaysInv, PTL DEF DisabledGetNoTokens

\* writeAuthResult answers a sign-in without a code only when neither the pool nor the user
\* has required MFA from its beginning on.
THEOREM MfaIsRequired == Spec => MfaNeverSkipped
<1>1. Inv => \A p \in Procs : Answers(p) /\ req[p].fam = Absent /\ ~req[p].proven =>
                 ~watch[p].pool /\ req[p].sub \notin watch[p].mfa
  <2> SUFFICES ASSUME Inv, NEW p \in Procs, Answers(p), req[p].fam = Absent, ~req[p].proven
               PROVE  ~watch[p].pool /\ req[p].sub \notin watch[p].mfa
    OBVIOUS
  <2>1. Good(req[p], watch[p]) /\ req[p].step = "answer"
    BY DEF Inv, Answers, At
  <2> QED BY <2>1 DEF Good
<1> QED BY <1>1, AlwaysInv, PTL DEF MfaNeverSkipped

=============================================================================
