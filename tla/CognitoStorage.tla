--------------------------- MODULE CognitoStorage ----------------------------
(***************************************************************************)
(* The files of one Cognito user pool and the operations on them:          *)
(* internal/cognito/storage*.go.                                           *)
(*                                                                         *)
(* A pool is a directory with meta.json, keys.json and a directory each    *)
(* for clients, users, the index from names to users, refresh tokens,      *)
(* revoked origins, groups, the members of groups, and the groups of users. *)
(* The index from clients to pools lies outside.  Nothing is kept in       *)
(* memory.  Every operation holds s.mu from beginning to end.  Every write *)
(* truncates the file first, so a failed write may leave one that does not *)
(* parse.                                                                  *)
(*                                                                         *)
(* Random IDs never recur: clients, users, refresh tokens and keys are     *)
(* numbered in the order of their making.  A refresh token and the         *)
(* origin_jti made with it have one number, the family.  Of a code or a    *)
(* TOTP secret only whether there is one is kept, and of a password the    *)
(* name that its SRP verifier was made with: a request that gives a wrong  *)
(* one is refused.                                                         *)
(***************************************************************************)
EXTENDS Integers, FiniteSets

CONSTANTS
    Names,         \* usernames, as they are spelled
    Fold,          \* strings.ToLower
    Groups,
    Emails,        \* the values of a contact attribute
    TagKeys,
    Absent, Torn,  \* no file, or no value; a file that does not parse
    maxUserPoolTags,
    MaxApps,       \* bounds on the clients, users, refresh tokens and keys made
    MaxUsers,
    MaxFamilies,
    MaxKeys,
    MaxFaults      \* bound on the operations that fail half way

Apps == 1..MaxApps
Subs == 1..MaxUsers
Families == 1..MaxFamilies
Keys == 1..MaxKeys

Pool == [mfaOn : BOOLEAN, protected : BOOLEAN, auto : BOOLEAN, tags : SUBSET TagKeys]

User == [name : Names, status : {"UNCONFIRMED", "CONFIRMED", "FORCE"}, enabled : BOOLEAN,
         password : Names \cup {Absent}, email : Emails \cup {Absent}, verified : BOOLEAN,
         code : BOOLEAN, reset : BOOLEAN, vcode : BOOLEAN,
         totp : BOOLEAN, pending : BOOLEAN, mfa : BOOLEAN]

RefreshToken == [sub : Subs, app : Apps]

ASSUME StorageAssumption ==
    /\ Fold \in [Names -> Names]
    /\ Absent # Torn
    /\ \A x \in {Absent, Torn} :
          /\ x \notin Int /\ x # "stored" /\ x \notin Emails
          /\ x \notin Pool /\ x \notin User /\ x \notin RefreshToken
    /\ maxUserPoolTags \in Nat
    /\ MaxApps \in Nat \ {0} /\ MaxUsers \in Nat \ {0} /\ MaxFamilies \in Nat
    /\ MaxKeys \in Nat /\ MaxFaults \in Nat

VARIABLES
    dir,          \* the directory of the pool: not made yet, here, or gone
    pool,         \* meta.json
    keys,         \* keys.json
    clients,      \* clients/
    clientIndex,  \* client_index/
    users,        \* users/
    index,        \* user_index/, by the folded name
    refresh,      \* refresh_tokens/
    revoked,      \* revoked_jtis/: a file counts whatever is in it
    groups,       \* groups/
    members,      \* group_members/, by the exact name
    userGroups,   \* user_groups/, by the exact name
    napp, nsub, nfam, nkey,  \* the numbers given so far
    faults        \* the operations that failed half way so far

poolFiles == <<dir, pool, keys>>
clientFiles == <<clients, clientIndex>>
userFiles == <<users, index>>
tokenFiles == <<refresh, revoked>>
groupFiles == <<groups, members, userGroups>>
numbers == <<napp, nsub, nfam, nkey>>
storage == <<poolFiles, clientFiles, userFiles, tokenFiles, groupFiles, numbers, faults>>

StorageTypeOK ==
    /\ dir \in {"none", "here", "gone"}
    /\ pool \in Pool \cup {Absent, Torn}
    /\ keys \in Keys \cup {Absent, Torn}
    /\ clients \in [Apps -> {"stored", Absent, Torn}]
    /\ clientIndex \in [Apps -> {"stored", Absent, Torn}]
    /\ users \in [Subs -> User \cup {Absent, Torn}]
    /\ index \in [Names -> Subs \cup {Absent, Torn}]
    /\ refresh \in [Families -> RefreshToken \cup {Absent, Torn}]
    /\ revoked \subseteq Families
    /\ groups \in [Groups -> {"stored", Absent, Torn}]
    /\ members \in [Groups \X Names -> {"stored", Absent, Torn}]
    /\ userGroups \in [Groups \X Names -> {"stored", Absent, Torn}]
    /\ napp \in 0..MaxApps /\ nsub \in 0..MaxUsers
    /\ nfam \in 0..MaxFamilies /\ nkey \in 0..MaxKeys
    /\ faults \in 0..MaxFaults

\* Either nothing, or a pool with a client and perhaps one user, all of them just made.
StorageInit(p, u) ==
    LET made == p # Absent
        File(i) == IF made /\ i = 1 THEN "stored" ELSE Absent
    IN  /\ dir = IF made THEN "here" ELSE "none"
        /\ pool = p
        /\ keys = Absent
        /\ clients = [a \in Apps |-> File(a)]
        /\ clientIndex = [a \in Apps |-> File(a)]
        /\ users = [s \in Subs |-> IF s = 1 THEN u ELSE Absent]
        /\ index = [n \in Names |-> IF u # Absent /\ n = Fold[u.name] THEN 1 ELSE Absent]
        /\ refresh = [f \in Families |-> Absent]
        /\ revoked = {}
        /\ groups = [g \in Groups |-> Absent]
        /\ members = [gn \in Groups \X Names |-> Absent]
        /\ userGroups = [gn \in Groups \X Names |-> Absent]
        /\ napp = IF made THEN 1 ELSE 0
        /\ nsub = IF u # Absent THEN 1 ELSE 0
        /\ nfam = 0
        /\ nkey = 0
        /\ faults = 0

-----------------------------------------------------------------------------
(* Files. *)

\* writeJSON: open with O_TRUNC, write, close.  When it fails the old content is still
\* there, or a part of the new one, or all of it.
writeJSON(old, new) ==
    {[file |-> new, ok |-> TRUE]} \cup [file : {old, Torn, new}, ok : {FALSE}]

Count(ok) == IF ok THEN UNCHANGED faults ELSE faults < MaxFaults /\ faults' = faults + 1

\* The files of f but for those in gone.
Without(f, gone) == [x \in DOMAIN f |-> IF x \in gone THEN Absent ELSE f[x]]

Stored(f) == {x \in DOMAIN f : f[x] # Absent}

-----------------------------------------------------------------------------
(* Users. *)

\* The user that the index gives for a name, and whether GetUser finds it.
SubOf(n) == index[Fold[n]]
Known(n) == SubOf(n) \in Subs /\ users[SubOf(n)] \in User
UserOf(n) == users[SubOf(n)]

SetUserFiles(s, u, n, i) ==
    /\ users' = [users EXCEPT ![s] = u]
    /\ index' = [index EXCEPT ![Fold[n]] = i]
    /\ UNCHANGED <<poolFiles, clientFiles, tokenFiles, groupFiles, napp, nfam, nkey>>

\* An index file that does not parse counts as one.
MayCreateUser(n) == index[Fold[n]] = Absent /\ dir = "here" /\ nsub < MaxUsers

CreateUserDone(u) ==
    /\ MayCreateUser(u.name)
    /\ SetUserFiles(nsub + 1, u, u.name, nsub + 1)
    /\ nsub' = nsub + 1
    /\ UNCHANGED faults

\* The write of the user fails; or the write of the index, and then the user is removed
\* again, which may fail as well.
CreateUserFailed(u) ==
    /\ MayCreateUser(u.name)
    /\ Count(FALSE)
    /\ \/ \E f \in {Absent, Torn, u} : SetUserFiles(nsub + 1, f, u.name, Absent)
       \/ \E f \in {Absent, u}, i \in {Absent, Torn, nsub + 1} :
             SetUserFiles(nsub + 1, f, u.name, i)
    /\ nsub' = nsub + 1

\* UpdateUser: u is what fn makes of UserOf(n).
UpdateUser(n, u, ok) ==
    /\ Known(n)
    /\ \E w \in writeJSON(UserOf(n), u) :
          users' = [users EXCEPT ![SubOf(n)] = w.file] /\ ok = w.ok /\ Count(ok)
    /\ UNCHANGED <<poolFiles, clientFiles, index, tokenFiles, groupFiles, numbers>>

\* Mutant of DeleteUser: the index entry is removed first.
DeleteUserIndexFirst(n, ok) ==
    /\ SubOf(n) \in Subs
    /\ \/ ok /\ SetUserFiles(SubOf(n), Absent, n, Absent)
       \/ ~ok /\ \E i \in {Absent, SubOf(n)} : SetUserFiles(SubOf(n), users[SubOf(n)], n, i)
    /\ Count(ok)
    /\ UNCHANGED nsub

\* DeleteUser: the user, which may be missing already, and then the index entry.
DeleteUser(n, ok) ==
    /\ SubOf(n) \in Subs
    /\ \/ ok /\ SetUserFiles(SubOf(n), Absent, n, Absent)
       \/ ~ok /\ \E f \in {Absent, users[SubOf(n)]} : SetUserFiles(SubOf(n), f, n, SubOf(n))
    /\ Count(ok)
    /\ UNCHANGED nsub

-----------------------------------------------------------------------------
(* Tokens and keys. *)

SetTokens(r, v) ==
    /\ refresh' = r
    /\ revoked' = v
    /\ UNCHANGED <<poolFiles, clientFiles, userFiles, groupFiles, napp, nsub, nkey>>

CreateRefreshToken(s, a, ok) ==
    /\ dir = "here"
    /\ nfam < MaxFamilies
    /\ \E w \in writeJSON(Absent, [sub |-> s, app |-> a]) :
          /\ SetTokens([refresh EXCEPT ![nfam + 1] = w.file], revoked)
          /\ ok = w.ok /\ Count(ok)
    /\ nfam' = nfam + 1

\* The file of f is known to have been there, and may be gone.
DeleteRefreshToken(f, ok) ==
    /\ SetTokens(IF ok THEN [refresh EXCEPT ![f] = Absent] ELSE refresh, revoked)
    /\ Count(ok)
    /\ UNCHANGED nfam

\* Mutant of RevokeAccessToken: a failed write is taken for done.
RevokeAccessTokenAnyway(f, ok) ==
    /\ dir = "here"
    /\ \E w \in BOOLEAN, v \in {revoked, revoked \cup {f}} :
          (w => v = revoked \cup {f}) /\ ok /\ SetTokens(refresh, v) /\ Count(w)
    /\ UNCHANGED nfam

\* RevokeAccessToken, which is always given the origin of a family.
RevokeAccessToken(f, ok) ==
    /\ dir = "here"
    /\ \E v \in {revoked, revoked \cup {f}} :
          (ok => v = revoked \cup {f}) /\ SetTokens(refresh, v)
    /\ Count(ok)
    /\ UNCHANGED nfam

FamiliesOf(s) == {f \in Families : refresh[f] \in RefreshToken /\ refresh[f].sub = s}

\* One refresh token that does not parse ends every loop over them with an error.
Obstructed == \E f \in Families : refresh[f] = Torn
CountUnlessObstructed(ok) == IF ~ok /\ Obstructed THEN UNCHANGED faults ELSE Count(ok)

RevokeOriginJTIsForSub(s, ok) ==
    /\ ok => ~Obstructed
    /\ \E some \in SUBSET FamiliesOf(s) :
          (ok => some = FamiliesOf(s)) /\ SetTokens(refresh, revoked \cup some)
    /\ CountUnlessObstructed(ok)
    /\ UNCHANGED nfam

\* Mutant of DeleteRefreshTokensBySub: a token that cannot be read ends the loop without
\* an error.
DeleteRefreshTokensAnyway(s, ok) ==
    /\ \E some \in SUBSET FamiliesOf(s) :
          /\ (ok /\ ~Obstructed) => some = FamiliesOf(s)
          /\ SetTokens(Without(refresh, some), revoked)
    /\ CountUnlessObstructed(ok)
    /\ UNCHANGED nfam

DeleteRefreshTokensBySub(s, ok) ==
    /\ ok => ~Obstructed
    /\ \E some \in SUBSET FamiliesOf(s) :
          (ok => some = FamiliesOf(s)) /\ SetTokens(Without(refresh, some), revoked)
    /\ CountUnlessObstructed(ok)
    /\ UNCHANGED nfam

SetKeys(f) ==
    /\ keys' = f
    /\ nkey' = nkey + 1
    /\ UNCHANGED <<dir, pool, clientFiles, userFiles, tokenFiles, groupFiles, napp, nsub, nfam>>

\* Mutant of GetOrCreatePoolKeys: new keys are used although they could not be stored.
GetOrCreatePoolKeysAnyway(k, ok) ==
    \/ keys \in Keys /\ k = keys /\ ok /\ UNCHANGED storage
    \/ /\ keys = Absent /\ dir = "here" /\ nkey < MaxKeys /\ k = nkey + 1
       /\ \E w \in writeJSON(Absent, k) : SetKeys(w.file) /\ ok /\ Count(w.ok)
    \/ (keys = Torn \/ (keys = Absent /\ dir # "here")) /\ ~ok /\ UNCHANGED storage

\* GetOrCreatePoolKeys: k is what it returns, unless it fails.
GetOrCreatePoolKeys(k, ok) ==
    \/ keys \in Keys /\ k = keys /\ ok /\ UNCHANGED storage
    \/ /\ keys = Absent /\ dir = "here" /\ nkey < MaxKeys /\ k = nkey + 1
       /\ \E w \in writeJSON(Absent, k) : SetKeys(w.file) /\ ok = w.ok /\ Count(ok)
    \/ (keys = Torn \/ (keys = Absent /\ dir # "here")) /\ ~ok /\ UNCHANGED storage

-----------------------------------------------------------------------------
(* Groups. *)

\* GetGroupsForUser fails when a group the user is in cannot be read.
GroupsReadable(n) ==
    \A g \in Groups : userGroups[<<g, n>>] = "stored" => groups[g] # Torn

WriteGroup(g, old) ==
    /\ \E w \in writeJSON(old, "stored") : groups' = [groups EXCEPT ![g] = w.file] /\ Count(w.ok)
    /\ UNCHANGED <<poolFiles, clientFiles, userFiles, tokenFiles, members, userGroups, numbers>>

CreateGroup(g) == groups[g] = Absent /\ dir = "here" /\ WriteGroup(g, Absent)
UpdateGroup(g) == groups[g] = "stored" /\ WriteGroup(g, "stored")

SetMembers(m, ug) ==
    /\ members' = m
    /\ userGroups' = ug
    /\ UNCHANGED <<poolFiles, clientFiles, userFiles, tokenFiles, numbers>>

MembersOf(g) == {gn \in Stored(members) : gn[1] = g}

\* Mutant of DeleteGroup: the entries of the users stay.
DeleteGroupOnly(g) ==
    /\ groups[g] # Absent
    /\ groups' = [groups EXCEPT ![g] = Absent]
    /\ SetMembers(Without(members, MembersOf(g)), userGroups)
    /\ UNCHANGED faults

\* DeleteGroup: the entry of each member, then the members, then the group.
DeleteGroup(g) ==
    /\ groups[g] # Absent
    /\ \/ /\ groups' = [groups EXCEPT ![g] = Absent]
          /\ SetMembers(Without(members, MembersOf(g)), Without(userGroups, MembersOf(g)))
          /\ UNCHANGED faults
       \/ /\ \E ug, m \in SUBSET MembersOf(g) :
                /\ m # {} => ug = MembersOf(g)
                /\ SetMembers(Without(members, m), Without(userGroups, ug))
          /\ Count(FALSE)
          /\ UNCHANGED groups

\* AddUserToGroup does not look at the group or the user.  When the second write fails
\* the member is removed, which may fail as well.
AddUserToGroup(g, n) ==
    /\ dir = "here"
    /\ \/ /\ SetMembers([members EXCEPT ![<<g, n>>] = "stored"],
                        [userGroups EXCEPT ![<<g, n>>] = "stored"])
          /\ UNCHANGED faults
       \/ /\ \/ \E m \in {members[<<g, n>>], Torn, "stored"} :
                   SetMembers([members EXCEPT ![<<g, n>>] = m], userGroups)
             \/ \E m \in {Absent, "stored"}, ug \in {userGroups[<<g, n>>], Torn, "stored"} :
                   SetMembers([members EXCEPT ![<<g, n>>] = m], [userGroups EXCEPT ![<<g, n>>] = ug])
          /\ Count(FALSE)
    /\ UNCHANGED groups

RemoveUserFromGroup(g, n) ==
    /\ \/ /\ SetMembers([members EXCEPT ![<<g, n>>] = Absent],
                        [userGroups EXCEPT ![<<g, n>>] = Absent])
          /\ UNCHANGED faults
       \/ /\ \E m \in {members[<<g, n>>], Absent} :
                SetMembers([members EXCEPT ![<<g, n>>] = m], userGroups)
          /\ Count(FALSE)
    /\ UNCHANGED groups

-----------------------------------------------------------------------------
(* Clients. *)

SetClientFiles(a, c, i) ==
    /\ clients' = [clients EXCEPT ![a] = c]
    /\ clientIndex' = [clientIndex EXCEPT ![a] = i]
    /\ UNCHANGED <<poolFiles, userFiles, tokenFiles, groupFiles, nsub, nfam, nkey>>

CreateUserPoolClient ==
    /\ pool \in Pool
    /\ napp < MaxApps
    /\ napp' = napp + 1
    /\ \/ SetClientFiles(napp + 1, "stored", "stored") /\ UNCHANGED faults
       \/ /\ \/ \E c \in {Absent, Torn, "stored"} : SetClientFiles(napp + 1, c, Absent)
             \/ \E c \in {Absent, "stored"}, i \in {Absent, Torn, "stored"} :
                   SetClientFiles(napp + 1, c, i)
          /\ Count(FALSE)

UpdateUserPoolClient(a) ==
    /\ clients[a] = "stored"
    /\ \E w \in writeJSON("stored", "stored") :
          SetClientFiles(a, w.file, clientIndex[a]) /\ Count(w.ok)
    /\ UNCHANGED napp

\* The client, and then its index entry: once the client is gone this is not found again.
DeleteUserPoolClient(a) ==
    /\ clients[a] # Absent
    /\ \/ SetClientFiles(a, Absent, Absent) /\ UNCHANGED faults
       \/ \E c \in {clients[a], Absent} : SetClientFiles(a, c, clientIndex[a]) /\ Count(FALSE)
    /\ UNCHANGED napp

-----------------------------------------------------------------------------
(* The pool. *)

CreateUserPool(p) ==
    /\ dir = "none"
    /\ dir' = "here"
    /\ \E w \in writeJSON(Absent, p) : pool' = w.file /\ Count(w.ok)
    /\ UNCHANGED <<keys, clientFiles, userFiles, tokenFiles, groupFiles, numbers>>

\* UpdateUserPool: p is what fn makes of the pool.
UpdateUserPool(p) ==
    /\ pool \in Pool
    /\ \E w \in writeJSON(pool, p) : pool' = w.file /\ Count(w.ok)
    /\ UNCHANGED <<dir, keys, clientFiles, userFiles, tokenFiles, groupFiles, numbers>>

\* The order in which DeleteUserPool goes through the files.
Stages == 1..11

\* What is left of the files f of stage i when stage at ended early.
Wipe(i, at, f) ==
    IF i < at THEN {Without(f, DOMAIN f)}
    ELSE IF i = at THEN {Without(f, gone) : gone \in SUBSET DOMAIN f} ELSE {f}

\* One file of stage i, which is the last thing that stage removes.
Remove(i, at, f, none) == IF i < at THEN none ELSE f

\* Mutant of deleteClients: the index entries stay.
deleteClientsOnly(at) == clients' \in Wipe(1, at, clients) /\ UNCHANGED clientIndex

\* deleteClientsDirLocked: of each client the index entry and then the file.
deleteClients(at) ==
    IF at = 1
    THEN \E unnamed \in SUBSET Stored(clients) : \E gone \in SUBSET unnamed :
            /\ Cardinality(unnamed \ gone) <= 1
            /\ clients' = Without(clients, gone)
            /\ clientIndex' = Without(clientIndex, unnamed)
    ELSE /\ clients' = Without(clients, Apps)
         /\ clientIndex' = Without(clientIndex, Stored(clients))

\* DeleteUserPool as far as stage at; the last stage of all is the empty directory.
DeleteUserPoolUntil(at) ==
    /\ pool \in Pool
    /\ ~pool.protected
    /\ deleteClients(at)
    /\ users' \in Wipe(2, at, users)
    /\ index' \in Wipe(3, at, index)
    /\ refresh' \in Wipe(4, at, refresh)
    /\ IF 5 < at THEN revoked' = {}
       ELSE IF 5 = at THEN revoked' \in SUBSET revoked ELSE UNCHANGED revoked
    /\ groups' \in Wipe(6, at, groups)
    /\ members' \in Wipe(7, at, members)
    /\ userGroups' \in Wipe(8, at, userGroups)
    /\ keys' = Remove(9, at, keys, Absent)
    /\ pool' = Remove(10, at, pool, Absent)
    /\ dir' = Remove(11, at, dir, "gone")
    /\ UNCHANGED numbers

DeleteUserPool ==
    \/ DeleteUserPoolUntil(12) /\ UNCHANGED faults
    \/ (\E at \in Stages : DeleteUserPoolUntil(at)) /\ Count(FALSE)

=============================================================================
