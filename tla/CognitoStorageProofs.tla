------------------------ MODULE CognitoStorageProofs -------------------------
(***************************************************************************)
(* What every operation of CognitoStorage does, for any names, groups and  *)
(* bounds: it keeps StorageInv, and it changes what was there only as      *)
(* Moves says.                                                             *)
(***************************************************************************)
EXTENDS CognitoStorage, TLAPS

\* The user s is found by its name, if it is there.
Named(s) == users[s] \in User => index[Fold[users[s].name]] = s

\* Users, refresh tokens and clients are numbered in the order they are made, and an entry of
\* the index leads to a user of that name.
UsersOK ==
    /\ \A s \in Subs : users[s] # Absent => s <= nsub
    /\ \A n \in Names : index[n] \in Subs => index[n] <= nsub
    /\ \A n \in Names :
          index[n] \in Subs /\ users[index[n]] \in User => Fold[users[index[n]].name] = n

TokensOK == \A f \in Families : refresh[f] # Absent => f <= nfam

ClientsOK == \A a \in Apps : clients[a] # Absent \/ clientIndex[a] # Absent => a <= napp

Empty(f) == \A x \in DOMAIN f : f[x] = Absent

\* What holds as long as no operation has failed half way.
Tidy ==
    faults = 0 =>
        /\ \A gn \in Groups \X Names : members[gn] = userGroups[gn]
        /\ \A a \in Apps : clientIndex[a] # Absent => clients[a] # Absent
        /\ dir = "gone" =>
              /\ pool = Absent /\ keys = Absent /\ revoked = {}
              /\ Empty(clients) /\ Empty(clientIndex) /\ Empty(users) /\ Empty(index)
              /\ Empty(refresh) /\ Empty(groups) /\ Empty(members) /\ Empty(userGroups)

StorageInv == StorageTypeOK /\ UsersOK /\ TokensOK /\ ClientsOK /\ Tidy

\* All users are gone.
Gone == \A s \in Subs : users[s] = Absent

\* What an operation may do to what was there: nothing that is gone comes back, a user keeps
\* its name and stays found by it, and only the users in on are enabled.
MovesUsers(on) ==
    /\ nsub <= nsub'
    /\ \A s \in Subs : s <= nsub =>
          /\ users[s] = Absent => users'[s] = Absent
          /\ users'[s] \in User => users[s] \in User /\ users'[s].name = users[s].name
          /\ users'[s] \in User /\ users'[s].enabled => users[s].enabled \/ s \in on
          /\ Named(s) => Named(s)'
    /\ \A n \in Names : index'[n] \in Subs => index'[n] = index[n] \/ index'[n] > nsub

\* A refresh token does not change, and an origin stays revoked until all users are gone.
MovesTokens ==
    /\ nfam <= nfam'
    /\ \A f \in Families : f <= nfam => refresh'[f] \in {refresh[f], Absent}
    /\ revoked \subseteq revoked' \/ Gone'

\* The keys stay the same until the users and the clients are gone.
MovesClients ==
    /\ napp <= napp'
    /\ \/ keys' = keys
       \/ keys \notin Keys
       \/ Gone' /\ \A a \in Apps : clients'[a] = Absent
    /\ \A a \in Apps : a <= napp /\ clients[a] = Absent => clients'[a] = Absent

Moves(on) == MovesUsers(on) /\ MovesTokens /\ MovesClients

\* An operation is sound.
Sound(on) == StorageInv' /\ Moves(on)

-----------------------------------------------------------------------------

LEMMA Constants ==
    /\ Absent # Torn
    /\ Absent \notin Int /\ Torn \notin Int
    /\ Absent # "stored" /\ Torn # "stored"
    /\ Absent \notin Pool /\ Torn \notin Pool
    /\ Absent \notin User /\ Torn \notin User
    /\ Absent \notin RefreshToken /\ Torn \notin RefreshToken
    /\ Absent \notin Emails
    /\ Fold \in [Names -> Names]
    /\ MaxApps \in Nat /\ MaxUsers \in Nat /\ MaxFamilies \in Nat /\ MaxKeys \in Nat
    /\ MaxFaults \in Nat
    /\ 1 \in Apps /\ 1 \in Subs
BY StorageAssumption DEF Apps, Subs

\* No number is a marker.
LEMMA Numbers ==
    /\ Absent \notin Apps /\ Torn \notin Apps
    /\ Absent \notin Subs /\ Torn \notin Subs
    /\ Absent \notin Families /\ Torn \notin Families
    /\ Absent \notin Keys /\ Torn \notin Keys
BY Constants DEF Apps, Subs, Families, Keys

LEMMA WriteOutcome ==
    ASSUME NEW old, NEW new, NEW w \in writeJSON(old, new)
    PROVE  /\ w.file \in {old, Torn, new}
           /\ w.ok \in BOOLEAN
           /\ w.ok => w.file = new
<1>1. CASE w = [file |-> new, ok |-> TRUE]
  BY <1>1
<1>2. CASE w \in [file : {old, Torn, new}, ok : {FALSE}]
  BY <1>2
<1> QED BY <1>1, <1>2 DEF writeJSON

LEMMA CountType ==
    ASSUME faults \in 0..MaxFaults, NEW ok, Count(ok)
    PROVE  faults' \in 0..MaxFaults /\ (faults' = 0 => faults = 0 /\ ok)
BY Constants DEF Count

\* What is left alone is as it was.
LEMMA SameUsers ==
    ASSUME UsersOK, StorageTypeOK, UNCHANGED <<users, index, nsub>>, NEW on
    PROVE  UsersOK' /\ MovesUsers(on)
BY DEF UsersOK, MovesUsers, StorageTypeOK, Named

LEMMA SameTokens ==
    ASSUME TokensOK, StorageTypeOK, UNCHANGED <<refresh, revoked, nfam>>
    PROVE  TokensOK' /\ MovesTokens
BY DEF TokensOK, MovesTokens, StorageTypeOK

LEMMA SameClients ==
    ASSUME ClientsOK, StorageTypeOK, UNCHANGED <<keys, clients, clientIndex, napp>>
    PROVE  ClientsOK' /\ MovesClients
BY DEF ClientsOK, MovesClients, StorageTypeOK

LEMMA NothingMoves ==
    ASSUME StorageInv, UNCHANGED storage, NEW on
    PROVE  Sound(on)
<1> USE DEF storage, poolFiles, clientFiles, userFiles, tokenFiles, groupFiles, numbers
<1>1. StorageTypeOK'
  BY DEF StorageInv, StorageTypeOK
<1>2. Tidy'
  BY DEF StorageInv, Tidy, Empty
<1> QED BY <1>1, <1>2, SameUsers, SameTokens, SameClients DEF StorageInv, Sound, Moves

-----------------------------------------------------------------------------
(* Users. *)

LEMMA FoundUser ==
    ASSUME StorageInv, NEW n \in Names, Known(n)
    PROVE  /\ SubOf(n) \in Subs /\ SubOf(n) <= nsub
           /\ UserOf(n) \in User /\ UserOf(n) = users[SubOf(n)]
           /\ Fold[UserOf(n).name] = Fold[n] /\ Named(SubOf(n))
<1>1. Fold[n] \in Names
  BY Constants
<1> QED BY <1>1 DEF StorageInv, UsersOK, Known, SubOf, UserOf, Named

LEMMA CreateUserSound ==
    ASSUME StorageInv, NEW u \in User, CreateUserDone(u) \/ CreateUserFailed(u)
    PROVE  Sound({})
<1>1. PICK s \in Subs : s = nsub + 1 /\ s > nsub
  <2>1. nsub < MaxUsers
    BY DEF CreateUserDone, CreateUserFailed, MayCreateUser
  <2>2. nsub \in 0..MaxUsers
    BY DEF StorageInv, StorageTypeOK
  <2> QED BY <2>1, <2>2, Constants DEF Subs
<1>2. PICK n \in Names : n = Fold[u.name] /\ index[n] = Absent
  BY Constants DEF CreateUserDone, CreateUserFailed, MayCreateUser, User
<1> DEFINE Wrote(f, i) == /\ users' = [users EXCEPT ![s] = f] /\ index' = [index EXCEPT ![n] = i]
                          /\ f = Torn => i = Absent
<1>3. PICK f \in {Absent, Torn, u}, i \in {Absent, Torn, s} : Wrote(f, i)
  <2>1. u # Torn /\ Absent # Torn
    BY Constants
  <2>2. CASE CreateUserDone(u)
    <3>1. Wrote(u, s)
      BY <2>1, <2>2, <1>1, <1>2 DEF CreateUserDone, SetUserFiles
    <3> QED BY <3>1
  <2>3. ASSUME NEW f \in {Absent, Torn, u}, SetUserFiles(nsub + 1, f, u.name, Absent)
        PROVE  Wrote(f, Absent)
    BY <2>3, <1>1, <1>2 DEF SetUserFiles
  <2>4. ASSUME NEW f \in {Absent, u}, NEW i \in {Absent, Torn, s},
               SetUserFiles(nsub + 1, f, u.name, i)
        PROVE  Wrote(f, i)
    BY <2>1, <2>4, <1>1, <1>2 DEF SetUserFiles
  <2> HIDE DEF Wrote
  <2>5. CASE CreateUserFailed(u)
    BY <2>3, <2>4, <2>5, <1>1 DEF CreateUserFailed
  <2> QED BY <2>2, <2>5
<1>4. /\ UNCHANGED <<poolFiles, clientFiles, tokenFiles, groupFiles, napp, nfam, nkey>>
      /\ nsub' = s /\ dir = "here"
  BY <1>1 DEF CreateUserDone, CreateUserFailed, SetUserFiles, MayCreateUser
<1>5. nsub \in Int /\ nsub' \in 0..MaxUsers
  BY <1>1, <1>4, Constants DEF StorageInv, StorageTypeOK, Subs
<1>6. faults' \in 0..MaxFaults /\ (faults' = 0 => faults = 0)
  BY CountType DEF CreateUserDone, CreateUserFailed, StorageInv, StorageTypeOK
<1> USE DEF poolFiles, clientFiles, tokenFiles, groupFiles
<1>7. StorageTypeOK'
  BY <1>1, <1>2, <1>3, <1>4, <1>5, <1>6 DEF StorageInv, StorageTypeOK
<1>8. UsersOK'
  <2>1. \A m \in Names : index[m] # s
    BY <1>1, <1>5, Constants DEF StorageInv, UsersOK, StorageTypeOK, Subs
  <2>2. \A m \in Names : m # n => index'[m] = index[m]
    BY <1>3 DEF StorageInv, StorageTypeOK
  <2>3. \A r \in Subs : r # s => users'[r] = users[r]
    BY <1>3 DEF StorageInv, StorageTypeOK
  <2>4. index'[n] = i /\ users'[s] = f
    BY <1>3 DEF StorageInv, StorageTypeOK
  <2>5. \A r \in Subs : users'[r] # Absent => r <= nsub'
    BY <2>3, <1>1, <1>4, <1>5 DEF StorageInv, UsersOK, Subs
  <2>6. \A m \in Names : index'[m] \in Subs => index'[m] <= nsub'
    BY <2>2, <2>4, <1>1, <1>3, <1>4, <1>5, Numbers DEF StorageInv, UsersOK, Subs
  <2>7. \A m \in Names :
          index'[m] \in Subs /\ users'[index'[m]] \in User => Fold[users'[index'[m]].name] = m
    <3> SUFFICES ASSUME NEW m \in Names, index'[m] \in Subs, users'[index'[m]] \in User
                 PROVE  Fold[users'[index'[m]].name] = m
      OBVIOUS
    <3>1. CASE m = n
      BY <3>1, <2>4, <1>2, <1>3, Numbers, Constants
    <3>2. CASE m # n
      <4>1. index'[m] = index[m] /\ users'[index[m]] = users[index[m]]
        BY <3>2, <2>1, <2>2, <2>3
      <4> QED BY <4>1 DEF StorageInv, UsersOK
    <3> QED BY <3>1, <3>2
  <2> QED BY <2>5, <2>6, <2>7 DEF UsersOK
<1>9. MovesUsers({})
  <2>1. \A r \in Subs : r <= nsub => users'[r] = users[r]
    BY <1>1, <1>3, <1>5 DEF StorageInv, StorageTypeOK, Subs
  <2>2. \A m \in Names : index'[m] = index[m] \/ m = n
    BY <1>3 DEF StorageInv, StorageTypeOK
  <2>3. \A r \in Subs : r <= nsub /\ Named(r) => Named(r)'
    <3> SUFFICES ASSUME NEW r \in Subs, r <= nsub, Named(r), users'[r] \in User
                 PROVE  index'[Fold[users'[r].name]] = r
      BY DEF Named
    <3>1. users'[r] = users[r] /\ index[Fold[users[r].name]] = r /\ Fold[users[r].name] \in Names
      BY <2>1, Constants DEF Named, User
    <3>2. Fold[users[r].name] # n
      BY <3>1, <1>2, Numbers
    <3> QED BY <3>1, <3>2, <2>2
  <2>4. \A m \in Names : index'[m] \in Subs => index'[m] = index[m] \/ index'[m] > nsub
    BY <2>2, <1>1, <1>3, Numbers DEF StorageInv, StorageTypeOK
  <2> QED BY <2>1, <2>3, <2>4, <1>1, <1>4, <1>5 DEF MovesUsers
<1>10. Tidy'
  BY <1>4, <1>6 DEF Tidy, Empty, StorageInv
<1> QED BY <1>4, <1>7, <1>8, <1>9, <1>10, SameTokens, SameClients DEF StorageInv, Sound, Moves

LEMMA UpdateUserSound ==
    ASSUME StorageInv, NEW n \in Names, NEW u \in User, NEW ok, UpdateUser(n, u, ok),
           u.name = UserOf(n).name, NEW on, u.enabled => UserOf(n).enabled \/ SubOf(n) \in on
    PROVE  Sound(on)
<1>1. PICK s \in Subs : /\ s = SubOf(n) /\ s <= nsub /\ users[s] \in User /\ UserOf(n) = users[s]
  BY FoundUser DEF UpdateUser
<1>2. PICK w \in writeJSON(users[s], u) :
          users' = [users EXCEPT ![s] = w.file] /\ ok = w.ok /\ Count(ok)
  BY <1>1 DEF UpdateUser
<1>3. w.file \in {users[s], Torn, u}
  BY WriteOutcome
<1>4. UNCHANGED <<poolFiles, clientFiles, index, tokenFiles, groupFiles, numbers>>
  BY DEF UpdateUser
<1>5. faults' \in 0..MaxFaults /\ (faults' = 0 => faults = 0)
  BY <1>2, CountType DEF StorageInv, StorageTypeOK
<1> USE DEF poolFiles, clientFiles, tokenFiles, groupFiles, numbers
<1>6. StorageTypeOK'
  BY <1>2, <1>3, <1>4, <1>5 DEF StorageInv, StorageTypeOK
<1>7. /\ \A r \in Subs : r # s => users'[r] = users[r]
      /\ users'[s] = w.file
      /\ users'[s] \in User => users'[s].name = users[s].name
      /\ users'[s] \in User /\ users'[s].enabled => users[s].enabled \/ s \in on
  BY <1>1, <1>2, <1>3, Constants DEF StorageInv, StorageTypeOK
<1>8. UsersOK'
  BY <1>1, <1>4, <1>7 DEF StorageInv, UsersOK
<1>9. MovesUsers(on)
  <2>1. \A r \in Subs : Named(r) => Named(r)'
    BY <1>1, <1>4, <1>7 DEF Named
  <2> QED BY <2>1, <1>1, <1>4, <1>7, Constants DEF MovesUsers, StorageInv, StorageTypeOK
<1>10. Tidy'
  <2>1. users[s] # Absent
    BY <1>1, Constants
  <2> QED BY <2>1, <1>4, <1>5 DEF Tidy, Empty, StorageInv, StorageTypeOK
<1> QED BY <1>4, <1>6, <1>8, <1>9, <1>10, SameTokens, SameClients DEF StorageInv, Sound, Moves

LEMMA DeleteUserSound ==
    ASSUME StorageInv, NEW n \in Names, NEW ok \in BOOLEAN, DeleteUser(n, ok)
    PROVE  Sound({})
<1>1. PICK s \in Subs, m \in Names : s = SubOf(n) /\ m = Fold[n] /\ index[m] = s
  BY Constants DEF DeleteUser, SubOf
<1>2. PICK f \in {Absent, users[s]}, i \in {Absent, s} :
          /\ users' = [users EXCEPT ![s] = f] /\ index' = [index EXCEPT ![m] = i]
          /\ i = Absent => f = Absent
  BY <1>1, Constants, Numbers DEF DeleteUser, SetUserFiles
<1>3. UNCHANGED <<poolFiles, clientFiles, tokenFiles, groupFiles, napp, nsub, nfam, nkey>>
  BY DEF DeleteUser, SetUserFiles
<1>4. faults' \in 0..MaxFaults /\ (faults' = 0 => faults = 0)
  BY CountType DEF DeleteUser, StorageInv, StorageTypeOK
<1> USE DEF poolFiles, clientFiles, tokenFiles, groupFiles
<1>5. StorageTypeOK'
  BY <1>1, <1>2, <1>3, <1>4 DEF StorageInv, StorageTypeOK
<1>6. /\ \A r \in Subs : users'[r] \in {users[r], Absent}
      /\ \A r \in Subs : r # s => users'[r] = users[r]
      /\ \A k \in Names : index'[k] \in {index[k], Absent}
      /\ \A k \in Names : k # m => index'[k] = index[k]
      /\ index'[m] = i /\ users'[s] = f
  BY <1>1, <1>2 DEF StorageInv, StorageTypeOK
<1>7. UsersOK'
  <2>1. \A k \in Names : index'[k] \in Subs => index'[k] = index[k]
    BY <1>6, Numbers
  <2>2. \A r \in Subs : users'[r] \in User => users'[r] = users[r]
    BY <1>6, Constants
  <2> QED BY <2>1, <2>2, <1>3, <1>6 DEF StorageInv, UsersOK
<1>8. MovesUsers({})
  <2>1. \A r \in Subs : users'[r] \in User => users'[r] = users[r]
    BY <1>6, Constants
  <2>2. \A r \in Subs : Named(r) => Named(r)'
    <3> SUFFICES ASSUME NEW r \in Subs, Named(r), users'[r] \in User
                 PROVE  index'[Fold[users'[r].name]] = r
      BY DEF Named
    <3>1. users'[r] = users[r] /\ index[Fold[users[r].name]] = r /\ Fold[users[r].name] \in Names
      BY <2>1, Constants DEF Named, User
    <3>2. CASE Fold[users[r].name] = m
      BY <3>1, <3>2, <1>1, <1>2, <1>6, Constants
    <3>3. CASE Fold[users[r].name] # m
      BY <3>1, <3>3, <1>6
    <3> QED BY <3>2, <3>3
  <2>3. \A k \in Names : index'[k] \in Subs => index'[k] = index[k]
    BY <1>6, Numbers
  <2>4. nsub <= nsub'
    BY <1>3 DEF StorageInv, StorageTypeOK
  <2> QED BY <2>1, <2>2, <2>3, <2>4, <1>6 DEF MovesUsers
<1>9. Tidy'
  BY <1>2, <1>3, <1>4, <1>1, Numbers DEF Tidy, Empty, StorageInv, StorageTypeOK
<1> QED BY <1>3, <1>5, <1>7, <1>8, <1>9, SameTokens, SameClients DEF StorageInv, Sound, Moves

-----------------------------------------------------------------------------
(* Tokens and keys. *)

\* Tokens change and nothing else does.
LEMMA TokensSound ==
    ASSUME StorageInv, NEW r \in [Families -> RefreshToken \cup {Absent, Torn}],
           NEW v \in SUBSET Families, SetTokens(r, v), nfam' \in nfam..MaxFamilies,
           faults' \in 0..MaxFaults, faults' = 0 => faults = 0,
           \A f \in Families : f <= nfam => r[f] \in {refresh[f], Absent},
           \A f \in Families : r[f] # Absent => f <= nfam',
           revoked \subseteq v,
           faults' = 0 /\ dir = "gone" => v = {} /\ Empty(r)
    PROVE  Sound({})
<1>0. /\ refresh' = r /\ revoked' = v
      /\ UNCHANGED <<poolFiles, clientFiles, userFiles, groupFiles, napp, nsub, nkey>>
  BY DEF SetTokens
<1> USE DEF poolFiles, clientFiles, userFiles, groupFiles
<1>1. nfam \in Nat /\ nfam' \in 0..MaxFamilies /\ nfam <= nfam'
  BY Constants DEF StorageInv, StorageTypeOK
<1>2. StorageTypeOK'
  BY <1>0, <1>1 DEF StorageInv, StorageTypeOK
<1>3. TokensOK' /\ MovesTokens
  BY <1>0, <1>1 DEF TokensOK, MovesTokens
<1>4. Tidy'
  BY <1>0 DEF Tidy, Empty, StorageInv
<1> QED BY <1>0, <1>2, <1>3, <1>4, SameUsers, SameClients DEF StorageInv, Sound, Moves

\* Some refresh tokens are removed and some origins revoked.
LEMMA FewerTokensSound ==
    ASSUME StorageInv, NEW gone, NEW more \in SUBSET Families,
           SetTokens(Without(refresh, gone), revoked \cup more), UNCHANGED nfam,
           faults' \in 0..MaxFaults, faults' = 0 => faults = 0,
           dir = "gone" /\ faults = 0 => more = {}
    PROVE  Sound({})
<1> DEFINE r == Without(refresh, gone)
           v == revoked \cup more
<1>0. refresh \in [Families -> RefreshToken \cup {Absent, Torn}] /\ revoked \subseteq Families
  BY DEF StorageInv, StorageTypeOK
<1>1. /\ r \in [Families -> RefreshToken \cup {Absent, Torn}]
      /\ \A f \in Families : r[f] \in {refresh[f], Absent}
  BY <1>0 DEF Without
<1>2. v \in SUBSET Families
  BY <1>0
<1>3. nfam' \in nfam..MaxFamilies
  BY Constants DEF StorageInv, StorageTypeOK
<1>4. \A f \in Families : r[f] # Absent => f <= nfam'
  BY <1>1 DEF StorageInv, TokensOK
<1>5. faults' = 0 /\ dir = "gone" => v = {} /\ Empty(r)
  BY <1>0, <1>1 DEF StorageInv, Tidy, Empty
<1> HIDE DEF r, v
<1>6. SetTokens(r, v)
  BY DEF r, v
<1>7. revoked \subseteq v
  BY DEF v
<1> QED BY <1>1, <1>2, <1>3, <1>4, <1>5, <1>6, <1>7, TokensSound

LEMMA CreateRefreshTokenSound ==
    ASSUME StorageInv, NEW s \in Subs, NEW a \in Apps, NEW ok \in BOOLEAN,
           CreateRefreshToken(s, a, ok)
    PROVE  /\ Sound({})
           /\ nfam' = nfam + 1 /\ nfam + 1 \in Families
           /\ refresh'[nfam + 1] \in RefreshToken => refresh'[nfam + 1].sub = s
           /\ UNCHANGED <<poolFiles, clientFiles, userFiles, groupFiles, napp, nsub, revoked>>
<1>1. nfam \in 0..MaxFamilies /\ nfam < MaxFamilies
  BY DEF StorageInv, StorageTypeOK, CreateRefreshToken
<1>2. PICK f \in Families : f = nfam + 1 /\ f > nfam
  BY <1>1, Constants DEF Families
<1> DEFINE t == [sub |-> s, app |-> a]
<1>3. t \in RefreshToken /\ t.sub = s
  BY DEF RefreshToken
<1> HIDE DEF t
<1>4. PICK w \in writeJSON(Absent, t) :
          SetTokens([refresh EXCEPT ![f] = w.file], revoked) /\ ok = w.ok /\ Count(ok)
  BY <1>2 DEF CreateRefreshToken, t
<1>5. w.file \in {Absent, Torn, t}
  BY WriteOutcome
<1> DEFINE r == [refresh EXCEPT ![f] = w.file]
<1>6. /\ r \in [Families -> RefreshToken \cup {Absent, Torn}]
      /\ \A g \in Families : g # f => r[g] = refresh[g]
      /\ r[f] \in RefreshToken => r[f].sub = s
  BY <1>3, <1>5, Constants DEF StorageInv, StorageTypeOK
<1>7. nfam' = f /\ nfam' \in nfam..MaxFamilies
  <2>1. nfam' = nfam + 1
    BY DEF CreateRefreshToken
  <2> QED BY <1>1, <1>2, <2>1, Constants
<1>8. faults' \in 0..MaxFaults /\ (faults' = 0 => faults = 0)
  BY <1>4, CountType DEF StorageInv, StorageTypeOK
<1>9. \A g \in Families : g <= nfam => r[g] \in {refresh[g], Absent}
  BY <1>1, <1>2, <1>6 DEF Families
<1>10. \A g \in Families : r[g] # Absent => g <= nfam'
  BY <1>1, <1>2, <1>6, <1>7 DEF Families, StorageInv, TokensOK
<1>11. dir # "gone"
  BY DEF CreateRefreshToken
<1>12. revoked \in SUBSET Families
  BY DEF StorageInv, StorageTypeOK
<1> HIDE DEF r
<1>13. SetTokens(r, revoked)
  BY <1>4 DEF r
<1>14. Sound({})
  BY <1>6, <1>7, <1>8, <1>9, <1>10, <1>11, <1>12, <1>13, TokensSound
<1> QED BY <1>2, <1>6, <1>7, <1>13, <1>14 DEF SetTokens

LEMMA DeleteRefreshTokenSound ==
    ASSUME StorageInv, NEW f \in Families, NEW ok \in BOOLEAN, DeleteRefreshToken(f, ok)
    PROVE  /\ Sound({}) /\ UNCHANGED revoked
           /\ ok => refresh'[f] = Absent
<1>0. refresh \in [Families -> RefreshToken \cup {Absent, Torn}]
  BY DEF StorageInv, StorageTypeOK
<1>1. faults' \in 0..MaxFaults /\ (faults' = 0 => faults = 0)
  BY CountType DEF DeleteRefreshToken, StorageInv, StorageTypeOK
<1>2. PICK gone \in {{}, {f}} : /\ SetTokens(Without(refresh, gone), revoked \cup {})
                                /\ ok => gone = {f}
  <2>1. CASE ok
    <3>1. [refresh EXCEPT ![f] = Absent] = Without(refresh, {f})
      BY <1>0 DEF Without
    <3> QED BY <2>1, <3>1 DEF DeleteRefreshToken, SetTokens
  <2>2. CASE ~ok
    <3>1. refresh = Without(refresh, {})
      BY <1>0 DEF Without
    <3> QED BY <2>2, <3>1 DEF DeleteRefreshToken, SetTokens
  <2> QED BY <2>1, <2>2
<1>3. Sound({})
  BY <1>1, <1>2, FewerTokensSound DEF DeleteRefreshToken
<1> QED BY <1>0, <1>2, <1>3 DEF SetTokens, Without

LEMMA RevokeAccessTokenSound ==
    ASSUME StorageInv, NEW f \in Families, NEW ok \in BOOLEAN, RevokeAccessToken(f, ok)
    PROVE  /\ Sound({}) /\ UNCHANGED refresh
           /\ ok => f \in revoked'
<1>0. refresh = Without(refresh, {})
  BY DEF StorageInv, StorageTypeOK, Without
<1>1. PICK more \in SUBSET {f} : /\ SetTokens(refresh, revoked \cup more)
                                 /\ ok => more = {f}
  <2>1. PICK v \in {revoked, revoked \cup {f}} : (ok => v = revoked \cup {f}) /\ SetTokens(refresh, v)
    BY DEF RevokeAccessToken
  <2>2. CASE v = revoked \cup {f}
    BY <2>1, <2>2
  <2>3. CASE v # revoked \cup {f}
    <3>1. v = revoked \cup {} /\ ~ok
      BY <2>1, <2>3
    <3> QED BY <2>1, <3>1
  <2> QED BY <2>2, <2>3
<1>2. faults' \in 0..MaxFaults /\ (faults' = 0 => faults = 0)
  BY CountType DEF RevokeAccessToken, StorageInv, StorageTypeOK
<1>3. SetTokens(Without(refresh, {}), revoked \cup more) /\ more \in SUBSET Families
  BY <1>0, <1>1
<1>4. Sound({})
  BY <1>2, <1>3, FewerTokensSound DEF RevokeAccessToken
<1> QED BY <1>1, <1>4 DEF SetTokens

LEMMA CountObstructed ==
    ASSUME StorageInv, NEW ok \in BOOLEAN, CountUnlessObstructed(ok)
    PROVE  faults' \in 0..MaxFaults /\ (faults' = 0 => faults = 0)
BY CountType DEF CountUnlessObstructed, StorageInv, StorageTypeOK

LEMMA RevokeOriginJTIsForSubSound ==
    ASSUME StorageInv, NEW s, NEW ok \in BOOLEAN, RevokeOriginJTIsForSub(s, ok)
    PROVE  Sound({}) /\ UNCHANGED refresh
<1>0. refresh = Without(refresh, {})
  BY DEF StorageInv, StorageTypeOK, Without
<1>1. PICK some \in SUBSET FamiliesOf(s) : SetTokens(refresh, revoked \cup some)
  BY DEF RevokeOriginJTIsForSub
<1>2. some \in SUBSET Families
  BY DEF FamiliesOf
<1>3. dir = "gone" /\ faults = 0 => some = {}
  BY Constants DEF FamiliesOf, StorageInv, StorageTypeOK, Tidy, Empty
<1>4. SetTokens(Without(refresh, {}), revoked \cup some)
  BY <1>0, <1>1
<1>5. Sound({})
  BY <1>2, <1>3, <1>4, CountObstructed, FewerTokensSound DEF RevokeOriginJTIsForSub
<1> QED BY <1>1, <1>5 DEF SetTokens

LEMMA DeleteRefreshTokensBySubSound ==
    ASSUME StorageInv, NEW s, NEW ok \in BOOLEAN, DeleteRefreshTokensBySub(s, ok)
    PROVE  /\ Sound({}) /\ UNCHANGED revoked
           /\ ok => \A f \in Families : (refresh[f] \in RefreshToken => refresh[f].sub = s)
                                            => refresh'[f] = Absent
<1>0. refresh \in [Families -> RefreshToken \cup {Absent, Torn}]
  BY DEF StorageInv, StorageTypeOK
<1>1. PICK some \in SUBSET FamiliesOf(s) : /\ SetTokens(Without(refresh, some), revoked)
                                           /\ ok => some = FamiliesOf(s)
  BY DEF DeleteRefreshTokensBySub
<1>2. SetTokens(Without(refresh, some), revoked \cup {})
  BY <1>1
<1>3. Sound({})
  BY <1>2, CountObstructed, FewerTokensSound DEF DeleteRefreshTokensBySub
<1>4. ok => \A f \in Families : refresh[f] # Torn
  BY DEF DeleteRefreshTokensBySub, Obstructed
<1>5. ok => \A f \in Families : (refresh[f] \in RefreshToken => refresh[f].sub = s)
                                      => refresh'[f] = Absent
  <2> SUFFICES ASSUME ok, NEW f \in Families, refresh[f] \in RefreshToken => refresh[f].sub = s
               PROVE  refresh'[f] = Absent
    OBVIOUS
  <2>1. refresh'[f] = IF f \in some THEN Absent ELSE refresh[f]
    BY <1>0, <1>1 DEF SetTokens, Without
  <2>2. refresh[f] \in RefreshToken => f \in some
    BY <1>1 DEF FamiliesOf
  <2> QED BY <1>0, <1>4, <2>1, <2>2
<1> QED BY <1>1, <1>3, <1>5 DEF SetTokens

LEMMA GetOrCreatePoolKeysSound ==
    ASSUME StorageInv, NEW k \in Keys, NEW ok \in BOOLEAN, GetOrCreatePoolKeys(k, ok)
    PROVE  /\ Sound({})
           /\ UNCHANGED <<dir, pool, clients, clientIndex, userFiles, tokenFiles, groupFiles, nsub, nfam>>
           /\ ok => keys' = k
<1> USE DEF clientFiles, userFiles, tokenFiles, groupFiles
<1>1. CASE UNCHANGED storage /\ (ok => k = keys)
  BY <1>1, NothingMoves DEF storage, poolFiles, numbers
<1>2. CASE /\ keys = Absent /\ dir = "here" /\ nkey < MaxKeys /\ k = nkey + 1
           /\ \E w \in writeJSON(Absent, k) : SetKeys(w.file) /\ ok = w.ok /\ Count(ok)
  <2>1. PICK w \in writeJSON(Absent, k) : SetKeys(w.file) /\ ok = w.ok /\ Count(ok)
    BY <1>2
  <2>2. w.file \in {Absent, Torn, k} /\ (ok => w.file = k)
    BY <2>1, WriteOutcome
  <2>3. faults' \in 0..MaxFaults /\ (faults' = 0 => faults = 0)
    BY <2>1, CountType DEF StorageInv, StorageTypeOK
  <2>4. nkey' \in 0..MaxKeys
    BY <1>2, <2>1, Constants DEF StorageInv, StorageTypeOK, SetKeys
  <2>5. keys' \in Keys \cup {Absent, Torn}
    BY <2>1, <2>2 DEF SetKeys
  <2>6. StorageTypeOK'
    BY <2>1, <2>3, <2>4, <2>5 DEF StorageInv, StorageTypeOK, SetKeys
  <2>7. ClientsOK' /\ MovesClients
    BY <1>2, <2>1, Numbers DEF ClientsOK, MovesClients, SetKeys, StorageInv, StorageTypeOK
  <2>8. Tidy'
    BY <1>2, <2>1, <2>3 DEF Tidy, Empty, StorageInv, SetKeys
  <2>9. UsersOK' /\ MovesUsers({}) /\ TokensOK' /\ MovesTokens
    BY <2>1, SameUsers, SameTokens DEF SetKeys, StorageInv
  <2> QED BY <2>1, <2>2, <2>6, <2>7, <2>8, <2>9 DEF StorageInv, Sound, Moves, SetKeys
<1> QED BY <1>1, <1>2 DEF GetOrCreatePoolKeys

-----------------------------------------------------------------------------
(* Groups. *)

\* Files of groups change and nothing else does.
LEMMA GroupsSound ==
    ASSUME StorageInv,
           UNCHANGED <<poolFiles, clientFiles, userFiles, tokenFiles, numbers>>,
           groups' \in [Groups -> {"stored", Absent, Torn}],
           members' \in [Groups \X Names -> {"stored", Absent, Torn}],
           userGroups' \in [Groups \X Names -> {"stored", Absent, Torn}],
           faults' \in 0..MaxFaults, faults' = 0 => faults = 0,
           faults' = 0 => \A gn \in Groups \X Names : members'[gn] = userGroups'[gn],
           faults' = 0 /\ dir = "gone" => Empty(groups)' /\ Empty(members)' /\ Empty(userGroups)'
    PROVE  Sound({})
<1> USE DEF poolFiles, clientFiles, userFiles, tokenFiles, numbers
<1>1. StorageTypeOK'
  BY DEF StorageInv, StorageTypeOK
<1>2. Tidy'
  BY DEF Tidy, Empty, StorageInv
<1> QED BY <1>1, <1>2, SameUsers, SameTokens, SameClients DEF StorageInv, Sound, Moves

LEMMA WriteGroupSound ==
    ASSUME StorageInv, NEW g \in Groups, CreateGroup(g) \/ UpdateGroup(g)
    PROVE  Sound({})
<1>1. PICK old \in {Absent, "stored"} : WriteGroup(g, old) /\ groups[g] = old /\ (old = Absent => dir = "here")
  BY Constants DEF CreateGroup, UpdateGroup
<1>2. PICK w \in writeJSON(old, "stored") : groups' = [groups EXCEPT ![g] = w.file] /\ Count(w.ok)
  BY <1>1 DEF WriteGroup
<1>3. w.file \in {"stored", Absent, Torn}
  BY WriteOutcome
<1>4. faults' \in 0..MaxFaults /\ (faults' = 0 => faults = 0)
  BY <1>2, CountType DEF StorageInv, StorageTypeOK
<1>5. groups' \in [Groups -> {"stored", Absent, Torn}]
  BY <1>2, <1>3 DEF StorageInv, StorageTypeOK
<1>6. UNCHANGED <<poolFiles, clientFiles, userFiles, tokenFiles, members, userGroups, numbers>>
  BY <1>1 DEF WriteGroup
<1>7. faults' = 0 => dir # "gone"
  BY <1>1, <1>4, Constants DEF StorageInv, Tidy, Empty, StorageTypeOK
<1> QED BY <1>4, <1>5, <1>6, <1>7, GroupsSound DEF StorageInv, StorageTypeOK, Tidy

LEMMA DeleteGroupSound ==
    ASSUME StorageInv, NEW g \in Groups, DeleteGroup(g)
    PROVE  Sound({})
<1>0. /\ groups \in [Groups -> {"stored", Absent, Torn}]
      /\ members \in [Groups \X Names -> {"stored", Absent, Torn}]
      /\ userGroups \in [Groups \X Names -> {"stored", Absent, Torn}]
  BY DEF StorageInv, StorageTypeOK
<1>1. PICK m, ug \in SUBSET MembersOf(g) :
          SetMembers(Without(members, m), Without(userGroups, ug)) /\ (faults' = 0 => m = ug)
  <2>1. CASE SetMembers(Without(members, MembersOf(g)), Without(userGroups, MembersOf(g)))
    BY <2>1
  <2>2. CASE /\ \E ug, m \in SUBSET MembersOf(g) :
                    SetMembers(Without(members, m), Without(userGroups, ug))
             /\ Count(FALSE)
    <3>1. faults' # 0
      BY <2>2, CountType DEF StorageInv, StorageTypeOK
    <3> QED BY <2>2, <3>1
  <2> QED BY <2>1, <2>2 DEF DeleteGroup
<1>2. faults' \in 0..MaxFaults /\ (faults' = 0 => faults = 0)
  BY CountType DEF DeleteGroup, StorageInv, StorageTypeOK
<1>3. groups' \in [Groups -> {"stored", Absent, Torn}]
  BY <1>0 DEF DeleteGroup
<1>4. /\ members' \in [Groups \X Names -> {"stored", Absent, Torn}]
      /\ userGroups' \in [Groups \X Names -> {"stored", Absent, Torn}]
      /\ \A gn \in Groups \X Names :
            /\ members'[gn] = IF gn \in m THEN Absent ELSE members[gn]
            /\ userGroups'[gn] = IF gn \in ug THEN Absent ELSE userGroups[gn]
  BY <1>0, <1>1 DEF SetMembers, Without
<1>5. faults' = 0 => dir # "gone"
  BY <1>0, <1>2 DEF StorageInv, Tidy, Empty, DeleteGroup
<1>6. UNCHANGED <<poolFiles, clientFiles, userFiles, tokenFiles, numbers>>
  BY <1>1 DEF SetMembers
<1>7. faults' = 0 => \A gn \in Groups \X Names : members'[gn] = userGroups'[gn]
  BY <1>1, <1>2, <1>4 DEF StorageInv, Tidy
<1> QED BY <1>2, <1>3, <1>4, <1>5, <1>6, <1>7, GroupsSound

LEMMA MembershipSound ==
    ASSUME StorageInv, NEW g \in Groups, NEW n \in Names,
           AddUserToGroup(g, n) \/ RemoveUserFromGroup(g, n)
    PROVE  Sound({})
<1> DEFINE gn == <<g, n>>
           File == {"stored", Absent, Torn}
<1>0. /\ gn \in Groups \X Names
      /\ groups \in [Groups -> File]
      /\ members \in [Groups \X Names -> File] /\ userGroups \in [Groups \X Names -> File]
  BY DEF StorageInv, StorageTypeOK
<1>1. UNCHANGED groups
  BY DEF AddUserToGroup, RemoveUserFromGroup
<1>2. faults' \in 0..MaxFaults /\ (faults' = 0 => faults = 0)
  BY CountType DEF AddUserToGroup, RemoveUserFromGroup, StorageInv, StorageTypeOK
<1> DEFINE Set(m, ug) == /\ SetMembers([members EXCEPT ![gn] = m], [userGroups EXCEPT ![gn] = ug])
                         /\ faults' = 0 => m = ug /\ (dir = "gone" => m = Absent)
<1>3. PICK m, ug \in File : Set(m, ug)
  <2>1. [userGroups EXCEPT ![gn] = userGroups[gn]] = userGroups
    BY <1>0
  <2>2. Count(FALSE) => faults' # 0
    BY CountType DEF StorageInv, StorageTypeOK
  <2>3. CASE AddUserToGroup(g, n)
    <3>1. dir # "gone"
      BY <2>3 DEF AddUserToGroup
    <3>2. CASE SetMembers([members EXCEPT ![gn] = "stored"], [userGroups EXCEPT ![gn] = "stored"])
      BY <3>1, <3>2
    <3>3. ASSUME Count(FALSE), NEW m \in {members[gn], Torn, "stored"},
                 SetMembers([members EXCEPT ![gn] = m], userGroups)
          PROVE  Set(m, userGroups[gn])
      BY <2>1, <2>2, <3>1, <3>3
    <3>4. ASSUME Count(FALSE), NEW m \in {Absent, "stored"}, NEW ug \in {userGroups[gn], Torn, "stored"},
                 SetMembers([members EXCEPT ![gn] = m], [userGroups EXCEPT ![gn] = ug])
          PROVE  Set(m, ug)
      BY <2>2, <3>1, <3>4
    <3> HIDE DEF Set
    <3>5. members[gn] \in File /\ userGroups[gn] \in File
      BY <1>0
    <3>6. CASE /\ SetMembers([members EXCEPT ![gn] = "stored"], [userGroups EXCEPT ![gn] = "stored"])
      BY <3>1, <3>6 DEF Set
    <3> QED BY <2>3, <3>3, <3>4, <3>5, <3>6 DEF AddUserToGroup
  <2>4. CASE RemoveUserFromGroup(g, n)
    <3>1. CASE SetMembers([members EXCEPT ![gn] = Absent], [userGroups EXCEPT ![gn] = Absent])
      BY <3>1
    <3>2. ASSUME Count(FALSE), NEW m \in {members[gn], Absent},
                 SetMembers([members EXCEPT ![gn] = m], userGroups)
          PROVE  Set(m, userGroups[gn])
      BY <2>1, <2>2, <3>2
    <3>3. members[gn] \in File /\ userGroups[gn] \in File
      BY <1>0
    <3> QED BY <2>4, <3>1, <3>2, <3>3 DEF RemoveUserFromGroup
  <2> QED BY <2>3, <2>4
<1>4. /\ members' \in [Groups \X Names -> File] /\ userGroups' \in [Groups \X Names -> File]
      /\ members'[gn] = m /\ userGroups'[gn] = ug
      /\ \A x \in Groups \X Names : x # gn => members'[x] = members[x] /\ userGroups'[x] = userGroups[x]
  BY <1>0, <1>3 DEF SetMembers
<1>5. UNCHANGED <<poolFiles, clientFiles, userFiles, tokenFiles, numbers>>
  BY <1>3 DEF SetMembers
<1>6. faults' = 0 => \A x \in Groups \X Names : members'[x] = userGroups'[x]
  BY <1>2, <1>3, <1>4 DEF StorageInv, Tidy
<1>7. faults' = 0 /\ dir = "gone" => Empty(groups)' /\ Empty(members)' /\ Empty(userGroups)'
  BY <1>0, <1>1, <1>2, <1>3, <1>4 DEF StorageInv, Tidy, Empty
<1> QED BY <1>0, <1>1, <1>2, <1>4, <1>5, <1>6, <1>7, GroupsSound

-----------------------------------------------------------------------------
(* Clients and the pool. *)

\* Files of one client change and nothing else does.
LEMMA ClientFilesSound ==
    ASSUME StorageInv, NEW a \in Apps, NEW c \in {"stored", Absent, Torn},
           NEW i \in {"stored", Absent, Torn}, SetClientFiles(a, c, i),
           napp' \in napp..MaxApps, c # Absent \/ i # Absent => a <= napp',
           a <= napp /\ clients[a] = Absent => c = Absent,
           faults' \in 0..MaxFaults, faults' = 0 => faults = 0,
           faults' = 0 => (i # Absent => c # Absent),
           faults' = 0 /\ dir = "gone" => c = Absent /\ i = Absent
    PROVE  Sound({})
<1>0. /\ UNCHANGED <<poolFiles, userFiles, tokenFiles, groupFiles, nsub, nfam, nkey>>
      /\ clients' = [clients EXCEPT ![a] = c] /\ clientIndex' = [clientIndex EXCEPT ![a] = i]
  BY DEF SetClientFiles
<1> USE DEF poolFiles, userFiles, tokenFiles, groupFiles
<1>1. napp \in Nat /\ napp' \in 0..MaxApps /\ napp <= napp'
  BY Constants DEF StorageInv, StorageTypeOK
<1>2. StorageTypeOK'
  BY <1>0, <1>1 DEF StorageInv, StorageTypeOK
<1>3. /\ clients'[a] = c /\ clientIndex'[a] = i
      /\ \A b \in Apps : b # a => clients'[b] = clients[b] /\ clientIndex'[b] = clientIndex[b]
  BY <1>0 DEF StorageInv, StorageTypeOK
<1>4. ClientsOK'
  BY <1>1, <1>3 DEF StorageInv, ClientsOK, Apps
<1>5. MovesClients
  BY <1>0, <1>1, <1>3 DEF MovesClients
<1>6. Tidy'
  BY <1>0, <1>2, <1>3 DEF Tidy, Empty, StorageInv, StorageTypeOK
<1> QED BY <1>0, <1>2, <1>4, <1>5, <1>6, SameUsers, SameTokens DEF StorageInv, Sound, Moves

LEMMA CreateUserPoolClientSound ==
    ASSUME StorageInv, CreateUserPoolClient
    PROVE  Sound({})
<1>1. napp \in 0..MaxApps /\ napp < MaxApps /\ napp' = napp + 1
  BY DEF CreateUserPoolClient, StorageInv, StorageTypeOK
<1>2. PICK a \in Apps : a = napp + 1 /\ a <= napp' /\ ~(a <= napp) /\ napp' \in napp..MaxApps
  BY <1>1, Constants DEF Apps
<1>3. faults' \in 0..MaxFaults /\ (faults' = 0 => faults = 0) /\ (Count(FALSE) => faults' # 0)
  BY CountType DEF CreateUserPoolClient, StorageInv, StorageTypeOK
<1>4. faults' = 0 => dir # "gone"
  BY <1>3, Constants DEF CreateUserPoolClient, StorageInv, Tidy
<1>5. PICK c, i \in {"stored", Absent, Torn} :
          SetClientFiles(a, c, i) /\ (faults' = 0 => c = "stored")
  BY <1>2, <1>3 DEF CreateUserPoolClient
<1> QED BY <1>2, <1>3, <1>4, <1>5, Constants, ClientFilesSound

LEMMA ChangeClientSound ==
    ASSUME StorageInv, NEW a \in Apps, UpdateUserPoolClient(a) \/ DeleteUserPoolClient(a)
    PROVE  Sound({})
<1>0. /\ clients[a] \in {"stored", Absent, Torn} /\ clientIndex[a] \in {"stored", Absent, Torn}
      /\ clients[a] # Absent /\ a <= napp
  BY Constants DEF StorageInv, StorageTypeOK, UpdateUserPoolClient, DeleteUserPoolClient, ClientsOK
<1>1. napp' = napp /\ napp' \in napp..MaxApps
  <2>1. napp' = napp
    BY DEF UpdateUserPoolClient, DeleteUserPoolClient
  <2>2. napp \in 0..MaxApps
    BY DEF StorageInv, StorageTypeOK
  <2> QED BY <2>1, <2>2, Constants
<1>2. PICK c, i \in {"stored", Absent, Torn} :
          /\ SetClientFiles(a, c, i)
          /\ faults' \in 0..MaxFaults /\ (faults' = 0 => faults = 0)
          /\ faults' = 0 => (i # Absent => c # Absent)
  <2>1. CASE UpdateUserPoolClient(a)
    <3>1. PICK w \in writeJSON("stored", "stored") :
              SetClientFiles(a, w.file, clientIndex[a]) /\ Count(w.ok)
      BY <2>1 DEF UpdateUserPoolClient
    <3>2. w.file \in {"stored", Torn}
      BY WriteOutcome
    <3>3. faults' \in 0..MaxFaults /\ (faults' = 0 => faults = 0)
      BY <3>1, CountType DEF StorageInv, StorageTypeOK
    <3> QED BY <1>0, <3>1, <3>2, <3>3, Constants
  <2>2. CASE DeleteUserPoolClient(a)
    <3>1. faults' \in 0..MaxFaults /\ (faults' = 0 => faults = 0) /\ (Count(FALSE) => faults' # 0)
      BY <2>2, CountType DEF DeleteUserPoolClient, StorageInv, StorageTypeOK
    <3> QED BY <1>0, <2>2, <3>1 DEF DeleteUserPoolClient
  <2> QED BY <2>1, <2>2
<1>3. faults' = 0 => dir # "gone"
  BY <1>0, <1>2 DEF StorageInv, Tidy, Empty, StorageTypeOK
<1> QED BY <1>0, <1>1, <1>2, <1>3, ClientFilesSound

LEMMA WritePoolSound ==
    ASSUME StorageInv, NEW p \in Pool, CreateUserPool(p) \/ UpdateUserPool(p)
    PROVE  Sound({})
<1>1. PICK old \in {Absent, pool} : \E w \in writeJSON(old, p) : pool' = w.file /\ Count(w.ok)
  BY DEF CreateUserPool, UpdateUserPool
<1>2. PICK w \in writeJSON(old, p) : pool' = w.file /\ Count(w.ok)
  BY <1>1
<1>3. pool' \in {old, Torn, p}
  BY <1>2, WriteOutcome
<1>4. faults' \in 0..MaxFaults /\ (faults' = 0 => faults = 0)
  BY <1>2, CountType DEF StorageInv, StorageTypeOK
<1>5. /\ UNCHANGED <<keys, clientFiles, userFiles, tokenFiles, groupFiles, numbers>>
      /\ dir' \in {"here", dir} /\ (faults = 0 => dir' # "gone")
  BY Constants DEF CreateUserPool, UpdateUserPool, StorageInv, Tidy
<1> USE DEF clientFiles, userFiles, tokenFiles, groupFiles, numbers
<1>6. StorageTypeOK'
  BY <1>3, <1>4, <1>5 DEF StorageInv, StorageTypeOK
<1>7. Tidy'
  BY <1>4, <1>5 DEF Tidy, StorageInv
<1> QED BY <1>5, <1>6, <1>7, SameUsers, SameTokens, SameClients DEF StorageInv, Sound, Moves

LEMMA DeleteUserPoolSound ==
    ASSUME StorageInv, DeleteUserPool
    PROVE  Sound({})
<1>1. PICK at \in 1..12 : DeleteUserPoolUntil(at) /\ (faults' = 0 => at = 12)
  <2>1. Count(FALSE) => faults' # 0
    BY CountType DEF StorageInv, StorageTypeOK
  <2>2. CASE DeleteUserPoolUntil(12)
    BY <2>2
  <2>3. ASSUME NEW at \in Stages, DeleteUserPoolUntil(at), Count(FALSE)
        PROVE  at \in 1..12 /\ DeleteUserPoolUntil(at) /\ (faults' = 0 => at = 12)
    BY <2>1, <2>3 DEF Stages
  <2> QED BY <2>2, <2>3 DEF DeleteUserPool
<1>2. faults' \in 0..MaxFaults /\ (faults' = 0 => faults = 0)
  BY CountType DEF DeleteUserPool, StorageInv, StorageTypeOK
<1> DEFINE File == {"stored", Absent, Torn}
<1>3. /\ clients \in [Apps -> File] /\ clientIndex \in [Apps -> File]
      /\ groups \in [Groups -> File]
      /\ members \in [Groups \X Names -> File] /\ userGroups \in [Groups \X Names -> File]
  BY DEF StorageInv, StorageTypeOK
<1>4. /\ users \in [Subs -> User \cup {Absent, Torn}] /\ index \in [Names -> Subs \cup {Absent, Torn}]
      /\ refresh \in [Families -> RefreshToken \cup {Absent, Torn}] /\ revoked \subseteq Families
  BY DEF StorageInv, StorageTypeOK
<1>5. PICK gone, unnamed \in SUBSET Apps :
          /\ clients' = Without(clients, gone) /\ clientIndex' = Without(clientIndex, unnamed)
          /\ at # 1 => gone = Apps /\ unnamed = Stored(clients)
  <2>1. Stored(clients) \subseteq Apps
    BY <1>3 DEF Stored
  <2>2. CASE at = 1
    BY <1>1, <2>1, <2>2 DEF DeleteUserPoolUntil, deleteClients
  <2>3. CASE at # 1
    BY <1>1, <2>1, <2>3 DEF DeleteUserPoolUntil, deleteClients
  <2> QED BY <2>2, <2>3
<1>6. /\ clients' \in [Apps -> File] /\ clientIndex' \in [Apps -> File]
      /\ \A a \in Apps : /\ clients'[a] = IF a \in gone THEN Absent ELSE clients[a]
                         /\ clientIndex'[a] = IF a \in unnamed THEN Absent ELSE clientIndex[a]
  BY <1>3, <1>5 DEF Without
<1>7. /\ users' \in [Subs -> User \cup {Absent, Torn}]
      /\ \A s \in Subs : users'[s] \in {users[s], Absent}
      /\ 2 < at => \A s \in Subs : users'[s] = Absent
  <2>1. users' \in Wipe(2, at, users)
    BY <1>1 DEF DeleteUserPoolUntil
  <2> QED BY <1>4, <2>1 DEF Wipe, Without
<1>8. /\ index' \in [Names -> Subs \cup {Absent, Torn}]
      /\ \A n \in Names : index'[n] \in {index[n], Absent}
      /\ 3 < at => \A n \in Names : index'[n] = Absent
      /\ at < 3 => index' = index
  <2>1. index' \in Wipe(3, at, index)
    BY <1>1 DEF DeleteUserPoolUntil
  <2> QED BY <1>4, <2>1 DEF Wipe, Without
<1>9. /\ refresh' \in [Families -> RefreshToken \cup {Absent, Torn}]
      /\ \A f \in Families : refresh'[f] \in {refresh[f], Absent}
      /\ 4 < at => \A f \in Families : refresh'[f] = Absent
  <2>1. refresh' \in Wipe(4, at, refresh)
    BY <1>1 DEF DeleteUserPoolUntil
  <2> QED BY <1>4, <2>1 DEF Wipe, Without
<1>10. /\ revoked' \subseteq Families
       /\ at < 5 => revoked' = revoked
       /\ 5 < at => revoked' = {}
  BY <1>1, <1>4 DEF DeleteUserPoolUntil
<1>11. groups' \in [Groups -> File] /\ (6 < at => \A g \in Groups : groups'[g] = Absent)
  <2>1. groups' \in Wipe(6, at, groups)
    BY <1>1 DEF DeleteUserPoolUntil
  <2> QED BY <1>3, <2>1 DEF Wipe, Without
<1>12. /\ members' \in [Groups \X Names -> File]
       /\ 7 < at => \A gn \in Groups \X Names : members'[gn] = Absent
  <2>1. members' \in Wipe(7, at, members)
    BY <1>1 DEF DeleteUserPoolUntil
  <2> QED BY <1>3, <2>1 DEF Wipe, Without
<1>13. /\ userGroups' \in [Groups \X Names -> File]
       /\ 8 < at => \A gn \in Groups \X Names : userGroups'[gn] = Absent
  <2>1. userGroups' \in Wipe(8, at, userGroups)
    BY <1>1 DEF DeleteUserPoolUntil
  <2> QED BY <1>3, <2>1 DEF Wipe, Without
<1>14. /\ keys' = (IF 9 < at THEN Absent ELSE keys)
       /\ pool' = (IF 10 < at THEN Absent ELSE pool)
       /\ dir' = (IF 11 < at THEN "gone" ELSE dir)
       /\ UNCHANGED <<napp, nsub, nfam, nkey>>
  BY <1>1 DEF DeleteUserPoolUntil, Remove, numbers
<1>15. StorageTypeOK'
  <2>2. keys' \in Keys \cup {Absent, Torn} /\ pool' \in Pool \cup {Absent, Torn} /\ dir' \in {"none", "here", "gone"}
    BY <1>14 DEF StorageInv, StorageTypeOK
  <2> QED BY <2>2, <1>2, <1>6, <1>7, <1>8, <1>9, <1>10, <1>11, <1>12, <1>13, <1>14 DEF StorageInv, StorageTypeOK
<1>16. UsersOK'
  <2>1. \A n \in Names : index'[n] \in Subs => index'[n] = index[n]
    BY <1>8, Numbers
  <2>2. \A s \in Subs : users'[s] # Absent => users'[s] = users[s]
    BY <1>7
  <2>3. \A s \in Subs : users'[s] \in User => users'[s] = users[s]
    BY <1>7, Constants
  <2> QED BY <2>1, <2>2, <2>3, <1>14 DEF StorageInv, UsersOK
<1>17. MovesUsers({})
  <2>1. \A s \in Subs : users'[s] \in User => users'[s] = users[s] /\ at < 3
    BY <1>7, Constants
  <2>2. \A s \in Subs : Named(s) => Named(s)'
    BY <2>1, <1>8 DEF Named
  <2>3. \A n \in Names : index'[n] \in Subs => index'[n] = index[n]
    BY <1>8, Numbers
  <2>4. nsub <= nsub'
    BY <1>14 DEF StorageInv, StorageTypeOK
  <2>5. \A s \in Subs : users[s] = Absent => users'[s] = Absent
    BY <1>7
  <2> QED BY <2>1, <2>2, <2>3, <2>4, <2>5 DEF MovesUsers
<1>18. TokensOK' /\ MovesTokens
  <2>1. nfam' = nfam /\ nfam <= nfam'
    BY <1>14 DEF StorageInv, StorageTypeOK
  <2>2. revoked \subseteq revoked' \/ Gone'
    BY <1>7, <1>10 DEF Gone
  <2> QED BY <2>1, <2>2, <1>9 DEF StorageInv, TokensOK, MovesTokens
<1>19. ClientsOK' /\ MovesClients
  <2>1. napp' = napp /\ napp <= napp'
    BY <1>14 DEF StorageInv, StorageTypeOK
  <2>2. keys' = keys \/ (Gone' /\ \A a \in Apps : clients'[a] = Absent)
    BY <1>5, <1>6, <1>7, <1>14 DEF Gone
  <2> QED BY <2>1, <2>2, <1>6 DEF StorageInv, ClientsOK, MovesClients
<1>20. Tidy'
  <2> SUFFICES ASSUME faults' = 0
               PROVE  /\ \A gn \in Groups \X Names : members'[gn] = userGroups'[gn]
                      /\ \A a \in Apps : clientIndex'[a] # Absent => clients'[a] # Absent
                      /\ pool' = Absent /\ keys' = Absent /\ revoked' = {}
                      /\ Empty(clients)' /\ Empty(clientIndex)' /\ Empty(users)' /\ Empty(index)'
                      /\ Empty(refresh)' /\ Empty(groups)' /\ Empty(members)' /\ Empty(userGroups)'
    BY DEF Tidy
  <2>1. at = 12 /\ faults = 0
    BY <1>1, <1>2
  <2>2. pool' = Absent /\ keys' = Absent /\ revoked' = {}
    BY <2>1, <1>10, <1>14
  <2>3. \A a \in Apps : clients'[a] = Absent /\ clientIndex'[a] = Absent
    BY <2>1, <1>3, <1>5, <1>6 DEF StorageInv, Tidy, Stored
  <2>4. Empty(users)' /\ Empty(index)' /\ Empty(refresh)'
    BY <2>1, <1>7, <1>8, <1>9 DEF Empty
  <2>5. \A gn \in Groups \X Names : members'[gn] = Absent /\ userGroups'[gn] = Absent
    BY <2>1, <1>12, <1>13
  <2>6. Empty(groups)' /\ Empty(members)' /\ Empty(userGroups)'
    BY <2>1, <2>5, <1>11, <1>12, <1>13 DEF Empty
  <2>7. Empty(clients)' /\ Empty(clientIndex)'
    BY <2>3, <1>6 DEF Empty
  <2> QED BY <2>2, <2>3, <2>4, <2>5, <2>6, <2>7
<1> QED BY <1>15, <1>16, <1>17, <1>18, <1>19, <1>20 DEF StorageInv, Sound, Moves

\* A pool as it is when a behaviour begins.
LEMMA StorageInitInv ==
    ASSUME NEW p \in Pool \cup {Absent}, NEW u \in User \cup {Absent}, StorageInit(p, u)
    PROVE  StorageInv
<1>1. u # Absent => Fold[u.name] \in Names
  BY Constants DEF User
<1>2. StorageTypeOK
  <2>1. /\ dir \in {"none", "here", "gone"} /\ pool \in Pool \cup {Absent, Torn} /\ keys = Absent
        /\ revoked = {} /\ nfam = 0 /\ nkey = 0 /\ faults = 0
        /\ napp \in 0..1 /\ nsub \in 0..1
    BY DEF StorageInit
  <2>2. /\ clients \in [Apps -> {"stored", Absent, Torn}]
        /\ clientIndex \in [Apps -> {"stored", Absent, Torn}]
        /\ groups \in [Groups -> {"stored", Absent, Torn}]
        /\ members \in [Groups \X Names -> {"stored", Absent, Torn}]
        /\ userGroups \in [Groups \X Names -> {"stored", Absent, Torn}]
    BY DEF StorageInit
  <2>3. /\ users \in [Subs -> User \cup {Absent, Torn}]
        /\ refresh \in [Families -> RefreshToken \cup {Absent, Torn}]
    BY DEF StorageInit
  <2>4. index \in [Names -> Subs \cup {Absent, Torn}]
    BY Constants DEF StorageInit
  <2>5. 1 \in 0..MaxApps /\ 1 \in 0..MaxUsers
    BY Constants DEF Apps, Subs
  <2>6. /\ napp \in 0..MaxApps /\ nsub \in 0..MaxUsers
        /\ nfam \in 0..MaxFamilies /\ nkey \in 0..MaxKeys /\ faults \in 0..MaxFaults
    BY <2>1, <2>5, Constants
  <2> QED BY <2>1, <2>2, <2>3, <2>4, <2>6 DEF StorageTypeOK
<1>3. UsersOK
  <2>1. CASE u = Absent
    BY <2>1, Numbers DEF StorageInit, UsersOK
  <2>2. CASE u # Absent
    <3>1. u \in User /\ nsub = 1
      BY <2>2 DEF StorageInit
    <3>2. \A s \in Subs : users[s] = IF s = 1 THEN u ELSE Absent
      BY DEF StorageInit
    <3>3. \A n \in Names : index[n] = IF n = Fold[u.name] THEN 1 ELSE Absent
      BY <2>2 DEF StorageInit
    <3> QED BY <3>1, <3>2, <3>3, Constants, Numbers DEF UsersOK, Subs
  <2> QED BY <2>1, <2>2
<1>4. TokensOK /\ ClientsOK
  BY Constants DEF StorageInit, TokensOK, ClientsOK, Apps
<1>5. Tidy
  BY DEF StorageInit, Tidy
<1> QED BY <1>2, <1>3, <1>4, <1>5 DEF StorageInv

=============================================================================
