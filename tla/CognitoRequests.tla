--------------------------- MODULE CognitoRequests ---------------------------
(***************************************************************************)
(* The requests to one user pool: internal/cognito/handler*.go, srp.go and *)
(* jwt.go.                                                                 *)
(*                                                                         *)
(* A request is a sequence of operations of CognitoStorage, and others run *)
(* between two of them.  Reads that follow each other are one step, and so *)
(* are the reads that follow a write: they read other files, and a request *)
(* that finds one of them missing only ends early.  A check that the pool  *)
(* exists is one step with an update behind it: a pool deleted in between  *)
(* takes with it what would be updated.                                    *)
(*                                                                         *)
(* A request that is refused, or that only reads, changes nothing and is   *)
(* left out, and so is a token or a session that has expired: from then on *)
(* it is refused.  A session is never used up.                             *)
(***************************************************************************)
EXTENDS CognitoStorage

CONSTANTS
    Procs,   \* the requests in flight
    Starts   \* what the pool and its first user are and what the requests of one behaviour do

Work == {"pool", "settings", "policy", "clients", "keys", "signup", "create", "confirm", "users",
         "passwords", "attributes", "signin", "srp", "mfa", "challenge", "refresh", "revoke", "signout",
         "disable", "groups"}

ASSUME RequestsAssumption ==
    Starts \subseteq [pool : Pool \cup {Absent}, user : User \cup {Absent}, does : SUBSET Work]

VARIABLES
    req,       \* the requests
    issued,    \* the access tokens that were answered
    sessions,  \* the challenges that were answered
    cut,       \* the families that RevokeToken, which found their token, or GlobalSignOut revoked
    ended,     \* those of the sessions that such a request, or AdminDisableUser, ended
    barred,    \* the users disabled by AdminDisableUser and not enabled since
    told,      \* the families that RevokeToken answered for although it did not find their token
    watch,     \* what was true of users from the beginning of a request until now
    work       \* what the requests do

history == <<issued, sessions, cut, ended, barred>>
vars == <<storage, req, history, told, watch, work>>

\* An access token: the family of its origin_jti, its user and the key that signed it.
Token == [fam : Families, sub : Subs, key : Keys]

\* The sessions of NEW_PASSWORD_REQUIRED, PASSWORD_VERIFIER, SOFTWARE_TOKEN_MFA and, in its
\* three forms, MFA_SETUP.
Challenges == {"newpw", "srp", "totp", "setup", "pending", "verified"}
Session == [chal : Challenges, name : Names, app : Apps, key : Keys]

Steps == {"idle", "create", "confirm", "confirmAuto", "adminConfirm", "adminConfirmAuto",
          "keys", "complete", "policy", "answer", "newPassword", "heal", "enrol", "revoke",
          "forget", "origins", "delete", "forgot", "changePassword",
          "sendCode", "verify", "drop", "keep", "change", "flag", "unflag", "associate",
          "register", "prefer", "release", "unprefer", "remove", "group", "join", "leave"}

Request == [step : Steps, name : Names \cup {Absent}, app : Apps \cup {Absent},
            key : Keys \cup {Absent}, sub : Subs \cup {Absent}, fam : Families \cup {Absent},
            chal : {"newpw", "srp", Absent}, totp : BOOLEAN, proven : BOOLEAN,
            user : User \cup {Absent}, group : Groups \cup {Absent},
            email : Emails \cup {Absent}, fams : SUBSET Families]

\* Nothing was true of the users.
Nothing == [pool |-> FALSE, mfa |-> {}, barred |-> {}]

Idle == [step |-> "idle", name |-> Absent, app |-> Absent, key |-> Absent, sub |-> Absent,
         fam |-> Absent, chal |-> Absent, totp |-> FALSE, proven |-> FALSE, user |-> Absent,
         group |-> Absent, email |-> Absent, fams |-> {}]

RequestsTypeOK ==
    /\ StorageTypeOK
    /\ req \in [Procs -> Request]
    /\ issued \subseteq Token
    /\ sessions \subseteq Session
    /\ cut \subseteq Families
    /\ ended \subseteq Families
    /\ barred \subseteq Subs
    /\ watch \in [Procs -> [pool : BOOLEAN, mfa : SUBSET Subs, barred : SUBSET Subs]]
    /\ work \subseteq Work

TypeOK == RequestsTypeOK /\ told \subseteq Families

Init ==
    /\ \E s \in Starts : StorageInit(s.pool, s.user) /\ work = s.does
    /\ req = [p \in Procs |-> Idle]
    /\ issued = {}
    /\ sessions = {}
    /\ cut = {}
    /\ ended = {}
    /\ barred = {}
    /\ told = {}
    /\ watch = [p \in Procs |-> Nothing]

At(p, step) == req[p].step = step
Become(p, r) == req' = [req EXCEPT ![p] = r]
Begin(p, r) == At(p, "idle") /\ Become(p, r)

\* GetPoolIDForClient
Resolves(a) == clientIndex[a] = "stored"

\* What a step does that only reads, and a step that answers nothing.
Reads == UNCHANGED <<storage, history>>
Silent == UNCHANGED history

\* One operation of the storage is the whole request.
Alone == UNCHANGED <<req, history>>

\* The write at the end of a request to what u is then, unless the user is gone or may not
\* be changed.
Apply(p, step, may, u) ==
    /\ At(p, step)
    /\ \/ Known(req[p].name) /\ may /\ \E ok \in BOOLEAN : UpdateUser(req[p].name, u, ok)
       \/ ~(Known(req[p].name) /\ may) /\ UNCHANGED storage
    /\ Become(p, Idle)
    /\ Silent

\* The user that step p is about to change.
Its(p) == UserOf(req[p].name)

-----------------------------------------------------------------------------
(* Users that sign up, and users that an administrator makes. *)

NewUser(n, status, pw, e, v, code) ==
    [name |-> n, status |-> status, enabled |-> TRUE, password |-> pw, email |-> e,
     verified |-> v, code |-> code, reset |-> FALSE, vcode |-> FALSE, totp |-> FALSE,
     pending |-> FALSE, mfa |-> FALSE]

handleSignUp(p, a, n, e) ==
    /\ Resolves(a)
    /\ pool \in Pool
    /\ Begin(p, [Idle EXCEPT !.step = "create",
                             !.user = NewUser(n, "UNCONFIRMED", n, e, FALSE, TRUE)])
    /\ Reads

\* With a temporary password, or with none.
handleAdminCreateUser(p, n, e) ==
    /\ pool \in Pool
    /\ \E v \in {FALSE, e # Absent} :
          \E u \in {NewUser(n, "FORCE", n, e, v, FALSE),
                    NewUser(n, "CONFIRMED", Absent, e, v, FALSE)} :
              Begin(p, [Idle EXCEPT !.step = "create", !.user = u])
    /\ Reads

CreateUser(p) ==
    LET u == req[p].user IN
    /\ At(p, "create")
    /\ \/ CreateUserDone(u)
       \/ CreateUserFailed(u)
       \/ (index[Fold[u.name]] # Absent \/ dir # "here") /\ UNCHANGED storage
    /\ Become(p, Idle)
    /\ Silent

\* autoVerifyAttrs, with the setting of the pool.
Confirmed(u, auto) ==
    [u EXCEPT !.status = "CONFIRMED", !.verified = @ \/ (auto /\ u.email # Absent)]

\* The setting is the one that was read before the user is updated.
handleConfirmSignUp(p, n) ==
    \/ /\ \E a \in Apps : Resolves(a)
       /\ pool \in Pool
       /\ Begin(p, [Idle EXCEPT !.step = IF pool.auto THEN "confirmAuto" ELSE "confirm", !.name = n])
       /\ Reads
    \/ /\ n = req[p].name
       /\ \E step \in {"confirm", "confirmAuto"} :
             Apply(p, step, Its(p).status = "UNCONFIRMED",
                   [Confirmed(Its(p), step = "confirmAuto") EXCEPT !.code = FALSE])

handleAdminConfirmSignUp(p, n) ==
    \/ /\ pool \in Pool
       /\ Begin(p, [Idle EXCEPT !.step = IF pool.auto THEN "adminConfirmAuto" ELSE "adminConfirm",
                                !.name = n])
       /\ Reads
    \/ /\ n = req[p].name
       /\ \E step \in {"adminConfirm", "adminConfirmAuto"} :
             Apply(p, step, Its(p).status = "UNCONFIRMED",
                   Confirmed(Its(p), step = "adminConfirmAuto"))

handleResendConfirmationCode(n) ==
    /\ \E a \in Apps : Resolves(a)
    /\ Known(n) /\ UserOf(n).status = "UNCONFIRMED"
    /\ \E ok \in BOOLEAN : UpdateUser(n, [UserOf(n) EXCEPT !.code = TRUE], ok)

handleAdminDeleteUser(n) == pool \in Pool /\ \E ok \in BOOLEAN : DeleteUser(n, ok)

-----------------------------------------------------------------------------
(* Passwords.  The verifier of SRP is made with the name as the request spells it. *)

\* Only a verified contact gets the code.
handleForgotPassword(p, n) ==
    \/ /\ \E a \in Apps : Resolves(a)
       /\ pool \in Pool
       /\ Known(n) /\ UserOf(n).verified
       /\ Begin(p, [Idle EXCEPT !.step = "forgot", !.name = UserOf(n).name])
       /\ Reads
    \/ n = req[p].name /\ Apply(p, "forgot", TRUE, [Its(p) EXCEPT !.reset = TRUE])

\* The code that is given is the one that is stored, which is empty when there is none.
handleConfirmForgotPassword(n) ==
    /\ \E a \in Apps : Resolves(a)
    /\ pool \in Pool
    /\ Known(n) /\ UserOf(n).status # "UNCONFIRMED"
    /\ \E ok \in BOOLEAN :
          UpdateUser(n, [UserOf(n) EXCEPT !.password = n, !.reset = FALSE], ok)

handleAdminSetUserPassword(n) ==
    /\ pool \in Pool
    /\ Known(n)
    /\ \E ok \in BOOLEAN, status \in {"CONFIRMED", "FORCE"} :
          UpdateUser(n, [UserOf(n) EXCEPT !.password = n, !.status = status], ok)

-----------------------------------------------------------------------------
(* Signing in. *)

\* completeAuth, writeChallengeResponse: the request ends with a session.
Challenge(p, chal, n, a, k) ==
    /\ sessions' = sessions \cup {[chal |-> chal, name |-> n, app |-> a, key |-> k]}
    /\ Become(p, Idle)
    /\ UNCHANGED <<issued, cut, ended, barred>>

\* The first reads of handleUserPasswordAuth and of handleUserSRPAuth.
MaySignIn(u) == u.enabled /\ u.status # "UNCONFIRMED" /\ u.password # Absent

handleUserPasswordAuth(p, a, n) ==
    LET forced == UserOf(n).status = "FORCE" IN
    /\ Resolves(a)
    /\ Known(n) /\ MaySignIn(UserOf(n))
    /\ Begin(p, [Idle EXCEPT !.step = "keys", !.app = a,
                             !.chal = IF forced THEN "newpw" ELSE Absent,
                             !.name = IF forced THEN n ELSE UserOf(n).name])
    /\ Reads

handleUserSRPAuth(p, a, n) ==
    /\ Resolves(a)
    /\ Known(n) /\ MaySignIn(UserOf(n))
    /\ Begin(p, [Idle EXCEPT !.step = "keys", !.app = a, !.chal = "srp", !.name = n])
    /\ Reads

\* The groups and the client, which writeAuthResult reads before it makes the tokens.
Prepared(r) ==
    IF GroupsReadable(r.name) /\ clients[r.app] = "stored" THEN [r EXCEPT !.step = "answer"] ELSE Idle

\* GetOrCreatePoolKeys, for a sign-in and for a refresh.
TakeKeys(p) ==
    /\ At(p, "keys")
    /\ \E k \in Keys, ok \in BOOLEAN :
          LET r == [req[p] EXCEPT !.key = k] IN
          /\ GetOrCreatePoolKeys(k, ok)
          /\ \/ ~ok /\ Become(p, Idle) /\ Silent
             \/ ok /\ r.chal # Absent /\ Challenge(p, r.chal, r.name, r.app, k)
             \/ ok /\ r.fam # Absent /\ Become(p, Prepared(r)) /\ Silent
             \/ /\ ok /\ r.chal = Absent /\ r.fam = Absent
                /\ Become(p, [r EXCEPT !.step = "complete"])
                /\ Silent

\* Mutant of completeAuth: it relies on what its caller saw.
completeAuthTrusting(p) ==
    LET u == Its(p)
        r == req[p]
    IN  /\ At(p, "complete")
        /\ \/ ~Known(r.name) /\ Become(p, Idle) /\ Silent
           \/ Known(r.name) /\ u.mfa /\ Challenge(p, "totp", u.name, r.app, r.key)
           \/ /\ Known(r.name) /\ ~u.mfa
              /\ Become(p, [r EXCEPT !.step = "policy", !.name = u.name, !.sub = SubOf(r.name),
                                     !.totp = u.totp])
              /\ Silent
        /\ UNCHANGED storage

\* completeAuth reads the user again, whoever has the name now.
completeAuth(p) ==
    LET u == Its(p)
        r == req[p]
    IN  /\ At(p, "complete")
        /\ \/ ~(Known(r.name) /\ u.enabled) /\ Become(p, Idle) /\ Silent
           \/ Known(r.name) /\ u.enabled /\ u.mfa /\ Challenge(p, "totp", u.name, r.app, r.key)
           \/ /\ Known(r.name) /\ u.enabled /\ ~u.mfa
              /\ Become(p, [r EXCEPT !.step = "policy", !.name = u.name, !.sub = SubOf(r.name),
                                     !.totp = u.totp])
              /\ Silent
        /\ UNCHANGED storage

\* Mutant of checkPolicy: the pool is not looked at.
checkPolicyNever(p) ==
    /\ At(p, "policy")
    /\ Become(p, Prepared(req[p]))
    /\ Reads

\* The second half of completeAuth: a pool that requires MFA.
checkPolicy(p) ==
    LET r == req[p] IN
    /\ At(p, "policy")
    /\ \/ pool \notin Pool /\ Become(p, Idle) /\ Silent
       \/ /\ pool \in Pool /\ pool.mfaOn
          /\ Challenge(p, IF r.totp THEN "totp" ELSE "setup", r.name, r.app, r.key)
       \/ pool \in Pool /\ ~pool.mfaOn /\ Become(p, Prepared(r)) /\ Silent
    /\ UNCHANGED storage

Issue(f, r) == issued' = issued \cup {[fam |-> f, sub |-> r.sub, key |-> r.key]}

\* writeAuthResult: a sign-in stores a new refresh token; a refresh has one.
writeAuthResult(p) ==
    LET r == req[p] IN
    /\ At(p, "answer")
    /\ \/ r.fam # Absent /\ Issue(r.fam, r) /\ UNCHANGED storage
       \/ r.fam = Absent /\ CreateRefreshToken(r.sub, r.app, TRUE) /\ Issue(nfam + 1, r)
       \/ r.fam = Absent /\ CreateRefreshToken(r.sub, r.app, FALSE) /\ UNCHANGED issued
       \/ r.fam = Absent /\ dir # "here" /\ UNCHANGED <<storage, issued>>
    /\ Become(p, Idle)
    /\ UNCHANGED <<sessions, cut, ended, barred>>

-----------------------------------------------------------------------------
(* RespondToAuthChallenge. *)

\* The client resolves, and the session was signed with the key of the pool.
Genuine(s) == Resolves(s.app) /\ keys = s.key

handleNewPasswordRequired(p, s) ==
    /\ s.chal = "newpw" /\ Genuine(s)
    /\ pool \in Pool
    /\ Begin(p, [Idle EXCEPT !.step = "newPassword", !.name = s.name, !.app = s.app,
                             !.key = s.key])
    /\ Reads

SetNewPassword(p) ==
    LET r == req[p]
        u == Its(p)
    IN  /\ At(p, "newPassword")
        /\ \/ /\ Known(r.name) /\ u.status = "FORCE"
              /\ \E ok \in BOOLEAN :
                    /\ UpdateUser(r.name, [u EXCEPT !.password = r.name, !.status = "CONFIRMED"], ok)
                    /\ Become(p, IF ok THEN [r EXCEPT !.step = "complete", !.name = u.name] ELSE Idle)
           \/ /\ ~(Known(r.name) /\ u.status = "FORCE")
              /\ Become(p, Idle)
              /\ UNCHANGED storage
        /\ Silent

\* The client computes its proof from the name in its request: it fits the verifier only
\* when that was made with the same spelling.
handlePasswordVerifierChallenge(p, s) ==
    LET u == UserOf(s.name)
        r == [Idle EXCEPT !.step = "complete", !.app = s.app, !.key = s.key]
    IN  /\ At(p, "idle")
        /\ s.chal = "srp" /\ Genuine(s)
        /\ Known(s.name) /\ u.password = s.name
        /\ IF u.status = "FORCE" THEN Challenge(p, "newpw", s.name, s.app, s.key)
           ELSE Become(p, [r EXCEPT !.name = u.name]) /\ Silent
        /\ UNCHANGED storage

\* A user without MFA may be here only because the pool requires it: it is switched on.
handleSoftwareTokenMFAChallenge(p, s) ==
    LET u == UserOf(s.name)
        r == [Idle EXCEPT !.step = "heal", !.name = u.name, !.app = s.app, !.key = s.key,
                          !.sub = SubOf(s.name), !.proven = TRUE]
    IN  /\ s.chal = "totp" /\ Genuine(s)
        /\ Known(s.name) /\ u.totp /\ u.enabled
        /\ u.mfa \/ (pool \in Pool /\ pool.mfaOn)
        /\ Begin(p, IF u.mfa THEN Prepared(r) ELSE r)
        /\ Reads

\* The TOTP secret that the session carries is known to be the user's.
handleMFASetupChallenge(p, s) ==
    /\ s.chal = "verified" /\ Genuine(s)
    /\ Known(s.name) /\ UserOf(s.name).enabled
    /\ Begin(p, [Idle EXCEPT !.step = "enrol", !.name = s.name, !.app = s.app, !.key = s.key,
                             !.proven = TRUE])
    /\ Reads

\* What both write.  A request that heals answers for the user it has read, one that enrols
\* for the user it has written.
ActivateMFA(p) ==
    LET r == req[p]
        enrols == r.step = "enrol"
        u == [Its(p) EXCEPT !.mfa = TRUE, !.totp = @ \/ enrols]
        next == IF enrols THEN [r EXCEPT !.sub = SubOf(r.name), !.name = u.name] ELSE r
    IN  /\ r.step \in {"heal", "enrol"}
        /\ \/ \E ok \in BOOLEAN :
                 /\ UpdateUser(r.name, u, ok)
                 /\ Become(p, IF ok THEN Prepared(next) ELSE Idle)
           \/ ~Known(r.name) /\ Become(p, Idle) /\ UNCHANGED storage
        /\ Silent

\* handleAssociateSoftwareTokenSession and handleVerifySoftwareTokenSession: a session of
\* MFA_SETUP for another.
ExchangeSession(s) ==
    /\ keys = s.key
    /\ Known(s.name)
    /\ \/ /\ s.chal \in {"setup", "pending", "verified"}
          /\ sessions' = sessions \cup {[s EXCEPT !.chal = "pending"]}
       \/ s.chal = "pending" /\ sessions' = sessions \cup {[s EXCEPT !.chal = "verified"]}
    /\ UNCHANGED <<storage, req, issued, cut, ended, barred>>

-----------------------------------------------------------------------------
(* Refresh tokens: using one, and ending sessions. *)

handleRefreshTokenAuth(p, f) ==
    LET t == refresh[f] IN
    /\ t \in RefreshToken
    /\ Resolves(t.app)
    /\ users[t.sub] \in User /\ users[t.sub].enabled
    /\ Begin(p, [Idle EXCEPT !.step = "keys", !.name = users[t.sub].name, !.app = t.app,
                             !.sub = t.sub, !.fam = f])
    /\ Reads

handleRevokeToken(p, f) ==
    /\ refresh[f] \in RefreshToken
    /\ Resolves(refresh[f].app)
    /\ Begin(p, [Idle EXCEPT !.step = "revoke", !.fam = f, !.fams = {f}])
    /\ Reads

\* The not-found path of handleRevokeToken: a refresh token that is gone counts as revoked.
handleRevokeTokenUnknown(f) ==
    /\ \E a \in Apps : Resolves(a)
    /\ \E t \in issued : t.fam = f
    /\ refresh[f] = Absent
    /\ told' = told \cup {f}
    /\ UNCHANGED <<storage, req, history>>

IssuedTo(s) == {t.fam : t \in {t \in issued : t.sub = s}}

\* checkTokenNotRevoked.  The user is not looked up.
handleGlobalSignOut(p, t) ==
    /\ keys = t.key
    /\ t.fam \notin revoked
    /\ Begin(p, [Idle EXCEPT !.step = "origins", !.sub = t.sub, !.fam = t.fam,
                             !.fams = IssuedTo(t.sub)])
    /\ Reads

handleAdminDisableUser(p, n) ==
    /\ pool \in Pool
    /\ Known(n)
    /\ \E ok \in BOOLEAN :
          /\ UpdateUser(n, [UserOf(n) EXCEPT !.enabled = FALSE], ok)
          /\ Begin(p, IF ok THEN [Idle EXCEPT !.step = "origins", !.sub = SubOf(n),
                                              !.fams = IssuedTo(SubOf(n))]
                      ELSE Idle)
          /\ barred' = IF ok THEN barred \cup {SubOf(n)} ELSE barred
    /\ UNCHANGED <<issued, sessions, cut, ended>>

handleAdminEnableUser(n) ==
    /\ pool \in Pool
    /\ Known(n)
    /\ \E ok \in BOOLEAN : UpdateUser(n, [UserOf(n) EXCEPT !.enabled = TRUE], ok)
    /\ barred' = barred \ {SubOf(n)}
    /\ UNCHANGED <<req, issued, sessions, cut, ended>>

\* Mutant of RevokeOrigins: an origin is revoked although none was given.
RevokeOriginsAndOne(p) ==
    /\ At(p, "origins")
    /\ \E ok \in BOOLEAN :
          /\ RevokeOriginJTIsForSub(req[p].sub, ok)
          /\ Become(p, IF ok THEN [req[p] EXCEPT !.step = "revoke"] ELSE Idle)
    /\ Silent

\* RevokeOriginJTIsForSub, in GlobalSignOut and AdminDisableUser.
RevokeOrigins(p) ==
    LET r == req[p] IN
    /\ At(p, "origins")
    /\ \E ok \in BOOLEAN :
          /\ RevokeOriginJTIsForSub(r.sub, ok)
          /\ Become(p, IF ok THEN [r EXCEPT !.step = IF r.fam = Absent THEN "delete" ELSE "revoke"]
                       ELSE Idle)
    /\ Silent

\* RevokeAccessToken, in RevokeToken and GlobalSignOut.
RevokeOrigin(p) ==
    LET r == req[p] IN
    /\ At(p, "revoke")
    /\ \/ \E ok \in BOOLEAN :
             /\ RevokeAccessToken(r.fam, ok)
             /\ Become(p, IF ok THEN [r EXCEPT !.step = IF r.sub = Absent THEN "forget" ELSE "delete"]
                          ELSE Idle)
       \/ dir # "here" /\ Become(p, Idle) /\ UNCHANGED storage
    /\ Silent

\* The request has ended the sessions it is about.
Ended(p, ok) ==
    LET r == req[p] IN
    /\ ended' = IF ok THEN ended \cup r.fams ELSE ended
    /\ cut' = IF ok THEN cut \cup ({r.fam} \ {Absent}) ELSE cut
    /\ Become(p, Idle)
    /\ UNCHANGED <<issued, sessions, barred>>

\* DeleteRefreshToken, at the end of RevokeToken.
Forget(p) ==
    /\ At(p, "forget")
    /\ \E ok \in BOOLEAN : DeleteRefreshToken(req[p].fam, ok) /\ Ended(p, ok)

\* DeleteRefreshTokensBySub, at the end of GlobalSignOut and AdminDisableUser.
DeleteTokens(p) ==
    /\ At(p, "delete")
    /\ \E ok \in BOOLEAN : DeleteRefreshTokensBySub(req[p].sub, ok) /\ Ended(p, ok)

-----------------------------------------------------------------------------
(* What a user does with an access token. *)

\* poolKey, validateAccessJWT, checkTokenNotRevoked and lookupUser.
Authorised(t) == keys = t.key /\ t.fam \notin revoked /\ users[t.sub] \in User

BeginAs(p, t, step) ==
    /\ Authorised(t)
    /\ Begin(p, [Idle EXCEPT !.step = step, !.name = users[t.sub].name])
    /\ Reads

handleChangePassword(p) ==
    \/ pool \in Pool /\ \E t \in issued : BeginAs(p, t, "changePassword")
    \/ Apply(p, "changePassword", TRUE, [Its(p) EXCEPT !.password = Its(p).name])

handleGetUserAttributeVerificationCode(p) ==
    \/ \E t \in issued : BeginAs(p, t, "sendCode") /\ users[t.sub].email # Absent
    \/ Apply(p, "sendCode", TRUE, [Its(p) EXCEPT !.vcode = TRUE])

\* As for ConfirmForgotPassword, the code that is stored may be none.
handleVerifyUserAttribute(p) ==
    \/ \E t \in issued : BeginAs(p, t, "verify")
    \/ Apply(p, "verify", TRUE, [Its(p) EXCEPT !.verified = TRUE, !.vcode = FALSE])

\* planAttributeChanges and applyAttributeChanges for a contact: without a value it is
\* deleted, with another value than was it has to be verified again.
Dropped(u) == [u EXCEPT !.email = Absent, !.verified = FALSE, !.vcode = FALSE]
Kept(u, e) == [u EXCEPT !.email = e]
Changed(u, e) == [u EXCEPT !.email = e, !.verified = FALSE, !.vcode = TRUE]
Flagged(u, v) == [u EXCEPT !.verified = v]

\* The plan is made from the user that was looked up.
handleUpdateUserAttributes(p) ==
    \/ \E t \in issued : \E step \in {"drop", "flag", "unflag"} : BeginAs(p, t, step)
    \/ \E t \in issued, e \in Emails :
          /\ Authorised(t)
          /\ Begin(p, [Idle EXCEPT !.step = IF users[t.sub].email = e THEN "keep" ELSE "change",
                                   !.name = users[t.sub].name, !.email = e])
          /\ Reads
    \/ Apply(p, "drop", TRUE, Dropped(Its(p)))
    \/ Apply(p, "keep", TRUE, Kept(Its(p), req[p].email))
    \/ Apply(p, "change", TRUE, Changed(Its(p), req[p].email))
    \/ Apply(p, "flag", TRUE, Flagged(Its(p), TRUE))
    \/ Apply(p, "unflag", TRUE, Flagged(Its(p), FALSE))

\* planAdminAttributeChanges, made while the user is being updated: with email_verified
\* "true" in the same request there is no code.
AdminChanges(u) ==
    {Dropped(u), Flagged(u, FALSE), [Flagged(u, TRUE) EXCEPT !.vcode = FALSE]}
    \cup {IF u.email = e THEN Kept(u, e) ELSE Changed(u, e) : e \in Emails}
    \cup {[u EXCEPT !.email = e, !.verified = TRUE, !.vcode = FALSE] : e \in Emails}

handleAdminUpdateUserAttributes(n) ==
    /\ pool \in Pool
    /\ Known(n)
    /\ \E u \in AdminChanges(UserOf(n)), ok \in BOOLEAN : UpdateUser(n, u, ok)

handleAssociateSoftwareToken(p) ==
    \/ \E t \in issued : BeginAs(p, t, "associate")
    \/ Apply(p, "associate", TRUE, [Its(p) EXCEPT !.pending = TRUE])

handleVerifySoftwareToken(p) ==
    \/ \E t \in issued : BeginAs(p, t, "register")
    \/ Apply(p, "register", Its(p).pending, [Its(p) EXCEPT !.totp = TRUE, !.pending = FALSE])

\* MFA is switched on only with a secret, and not off when the pool required it at the time
\* of the look.
handleSetUserMFAPreference(p) ==
    \/ /\ pool \in Pool
       /\ \E t \in issued :
             BeginAs(p, t, "prefer") \/ BeginAs(p, t, IF pool.mfaOn THEN "unprefer" ELSE "release")
    \/ Apply(p, "prefer", Its(p).totp, [Its(p) EXCEPT !.mfa = TRUE])
    \/ Apply(p, "release", TRUE, [Its(p) EXCEPT !.mfa = FALSE])
    \/ Apply(p, "unprefer", ~Its(p).mfa, [Its(p) EXCEPT !.mfa = FALSE])

handleDeleteUser(p) ==
    \/ \E t \in issued : BeginAs(p, t, "remove")
    \/ /\ At(p, "remove")
       /\ \/ \E ok \in BOOLEAN : DeleteUser(req[p].name, ok)
          \/ SubOf(req[p].name) \notin Subs /\ UNCHANGED storage
       /\ Become(p, Idle)
       /\ Silent

-----------------------------------------------------------------------------
(* Groups, clients and the pool. *)

handleCreateGroup(p, g) ==
    \/ /\ pool \in Pool
       /\ Begin(p, [Idle EXCEPT !.step = "group", !.group = g])
       /\ Reads
    \/ /\ At(p, "group") /\ req[p].group = g
       /\ CreateGroup(g) \/ ((groups[g] # Absent \/ dir # "here") /\ UNCHANGED storage)
       /\ Become(p, Idle)
       /\ Silent

handleUpdateGroup(g) == pool \in Pool /\ UpdateGroup(g)
handleDeleteGroup(g) == pool \in Pool /\ DeleteGroup(g)

\* parseGroupMembershipRequest
MayMove(g, n) == pool \in Pool /\ groups[g] = "stored" /\ Known(n)

BeginMove(p, step, g, n) ==
    /\ MayMove(g, n)
    /\ Begin(p, [Idle EXCEPT !.step = step, !.group = g, !.name = n])
    /\ Reads

handleAdminAddUserToGroup(p, g, n) ==
    \/ BeginMove(p, "join", g, n)
    \/ /\ At(p, "join") /\ req[p].group = g /\ req[p].name = n
       /\ AddUserToGroup(g, n) \/ (dir # "here" /\ UNCHANGED storage)
       /\ Become(p, Idle)
       /\ Silent

handleAdminRemoveUserFromGroup(p, g, n) ==
    \/ BeginMove(p, "leave", g, n)
    \/ /\ At(p, "leave") /\ req[p].group = g /\ req[p].name = n
       /\ RemoveUserFromGroup(g, n)
       /\ Become(p, Idle)
       /\ Silent

\* applyPoolUpdate and handleSetUserPoolMfaConfig: any setting, and tags without a limit.
handleUpdateUserPool ==
    /\ pool \in Pool
    /\ \E m \in BOOLEAN, d \in BOOLEAN, a \in BOOLEAN, t \in SUBSET TagKeys :
          UpdateUserPool([mfaOn |-> m, protected |-> d, auto |-> a, tags |-> t])

handleSetUserPoolMfaConfig ==
    pool \in Pool /\ \E m \in BOOLEAN : UpdateUserPool([pool EXCEPT !.mfaOn = m])

handleTagResource(t) ==
    /\ pool \in Pool
    /\ Cardinality(pool.tags \cup t) <= maxUserPoolTags
    /\ UpdateUserPool([pool EXCEPT !.tags = @ \cup t])

handleUntagResource(t) == pool \in Pool /\ UpdateUserPool([pool EXCEPT !.tags = @ \ t])

handleCreateUserPool(p) == CreateUserPool(p)
handleDeleteUserPool == DeleteUserPool

handleCreateUserPoolClient == CreateUserPoolClient
handleUpdateUserPoolClient(a) == UpdateUserPoolClient(a)
handleDeleteUserPoolClient(a) == DeleteUserPoolClient(a)

\* handleJWKS, and a challenge answered with a session that turns out to be invalid.
MakeKeys ==
    /\ pool \in Pool \/ \E a \in Apps : Resolves(a)
    /\ keys = Absent
    /\ \E k \in Keys, ok \in BOOLEAN : GetOrCreatePoolKeys(k, ok)

-----------------------------------------------------------------------------
(* The specification. *)

SignUp ==
    \E p \in Procs, a \in Apps, n \in Names, e \in Emails \cup {Absent} : handleSignUp(p, a, n, e)

AdminCreate ==
    \E p \in Procs, n \in Names, e \in Emails \cup {Absent} : handleAdminCreateUser(p, n, e)

ChangeUsers == \E n \in Names : handleAdminDeleteUser(n)
DeleteOwn == \E p \in Procs : handleDeleteUser(p)

Confirm == \E p \in Procs, n \in Names : handleConfirmSignUp(p, n) \/ handleAdminConfirmSignUp(p, n)
Resend == \E n \in Names : handleResendConfirmationCode(n)

SetPasswords == \E n \in Names : handleConfirmForgotPassword(n) \/ handleAdminSetUserPassword(n)
ChangePasswords == \E p \in Procs : handleChangePassword(p) \/ \E n \in Names : handleForgotPassword(p, n)

SetAttributes == \E n \in Names : handleAdminUpdateUserAttributes(n)
ChangeAttributes ==
    \E p \in Procs :
        \/ handleUpdateUserAttributes(p) \/ handleVerifyUserAttribute(p)
        \/ handleGetUserAttributeVerificationCode(p)

SignIn ==
    \E p \in Procs :
        \/ \E a \in Apps, n \in Names : handleUserPasswordAuth(p, a, n)
        \/ TakeKeys(p) \/ completeAuth(p) \/ checkPolicy(p) \/ writeAuthResult(p)

SRP ==
    \E p \in Procs :
        \/ \E a \in Apps, n \in Names : handleUserSRPAuth(p, a, n)
        \/ \E s \in sessions : handlePasswordVerifierChallenge(p, s)

Respond ==
    \E p \in Procs :
        \/ \E s \in sessions :
              handleNewPasswordRequired(p, s) \/ handleSoftwareTokenMFAChallenge(p, s)
              \/ handleMFASetupChallenge(p, s)
        \/ SetNewPassword(p) \/ ActivateMFA(p)

SetUpMFA ==
    \E p \in Procs :
        handleAssociateSoftwareToken(p) \/ handleVerifySoftwareToken(p) \/ handleSetUserMFAPreference(p)

Refresh == \E p \in Procs, f \in Families : handleRefreshTokenAuth(p, f)

Revoke == \E p \in Procs : (\E f \in Families : handleRevokeToken(p, f)) \/ Forget(p)

SignOut == \E p \in Procs, t \in issued : handleGlobalSignOut(p, t)

Disable == \E p \in Procs, n \in Names : handleAdminDisableUser(p, n)
Enable == \E n \in Names : handleAdminEnableUser(n)

EndSessions == \E p \in Procs : RevokeOrigins(p) \/ RevokeOrigin(p) \/ DeleteTokens(p)

ChangeGroups ==
    \E p \in Procs, g \in Groups :
        \/ handleCreateGroup(p, g)
        \/ \E n \in Names : handleAdminAddUserToGroup(p, g, n) \/ handleAdminRemoveUserFromGroup(p, g, n)

SetGroups == \E g \in Groups : handleUpdateGroup(g) \/ handleDeleteGroup(g)

ChangeClients ==
    \/ handleCreateUserPoolClient
    \/ \E a \in Apps : handleUpdateUserPoolClient(a) \/ handleDeleteUserPoolClient(a)

ChangePool == handleDeleteUserPool \/ \E p \in Pool : handleCreateUserPool(p)

ChangeSettings ==
    \/ handleUpdateUserPool
    \/ \E t \in (SUBSET TagKeys) \ {{}} : handleTagResource(t) \/ handleUntagResource(t)

\* The server is killed: the requests are forgotten, the files stay.
Restart ==
    /\ \E p \in Procs : req[p] # Idle
    /\ req' = [p \in Procs |-> Idle]
    /\ Reads

\* MFA is required by the pool, or by the user.
PoolRequires == pool \in Pool /\ pool.mfaOn
Requiring == {s \in Subs : users[s] \in User /\ users[s].mfa}

\* What was true when a request began and has been since.
Watch ==
    LET now == [pool |-> PoolRequires, mfa |-> Requiring, barred |-> barred]
        Still(w) == [pool |-> w.pool /\ PoolRequires', mfa |-> w.mfa \cap Requiring',
                     barred |-> w.barred \cap barred']
    IN  watch' = [p \in Procs |-> IF req'[p] = Idle THEN Nothing
                                  ELSE Still(IF req[p] = Idle THEN now ELSE watch[p])]

Handle ==
    \/ "signup" \in work /\ SignUp
    \/ "create" \in work /\ AdminCreate
    \/ work \cap {"signup", "create"} # {} /\ \E p \in Procs : CreateUser(p)
    \/ "confirm" \in work /\ Confirm
    \/ "confirm" \in work /\ Resend /\ Alone
    \/ "users" \in work /\ ChangeUsers /\ Alone
    \/ "users" \in work /\ DeleteOwn
    \/ "passwords" \in work /\ SetPasswords /\ Alone
    \/ "passwords" \in work /\ ChangePasswords
    \/ "attributes" \in work /\ SetAttributes /\ Alone
    \/ "attributes" \in work /\ ChangeAttributes
    \/ "signin" \in work /\ SignIn
    \/ "srp" \in work /\ SRP
    \/ "challenge" \in work /\ Respond
    \/ "challenge" \in work /\ \E s \in sessions : ExchangeSession(s)
    \/ "mfa" \in work /\ SetUpMFA
    \/ "refresh" \in work /\ Refresh
    \/ "revoke" \in work /\ Revoke
    \/ "signout" \in work /\ SignOut
    \/ "disable" \in work /\ (Disable \/ Enable)
    \/ work \cap {"revoke", "signout", "disable"} # {} /\ EndSessions
    \/ "groups" \in work /\ ChangeGroups
    \/ "groups" \in work /\ SetGroups /\ Alone
    \/ "clients" \in work /\ ChangeClients /\ Alone
    \/ "keys" \in work /\ MakeKeys /\ Alone
    \/ "pool" \in work /\ ChangePool /\ Alone
    \/ "settings" \in work /\ ChangeSettings /\ Alone
    \/ "policy" \in work /\ handleSetUserPoolMfaConfig /\ Alone
    \/ Restart

Next ==
    /\ \/ Handle /\ UNCHANGED told
       \/ "revoke" \in work /\ \E f \in Families : handleRevokeTokenUnknown(f)
    /\ Watch
    /\ UNCHANGED work

Spec == Init /\ [][Next]_vars

-----------------------------------------------------------------------------
(* Properties. *)

\* The access tokens of the families in fams pass checkTokenNotRevoked and lookupUser no more.
Rejected(fams) ==
    \A t \in issued : t.fam \in fams => t.fam \in revoked \/ users[t.sub] = Absent

\* Once RevokeToken, having found the refresh token, or GlobalSignOut has answered, no access
\* token of the family it was given is accepted: not one that a refresh, which had read its
\* refresh token before that was deleted, answers afterwards.  What RevokeToken answers for
\* without finding the refresh token is RevokedAreRejected's.
CutFamiliesAreDead == Rejected(cut)

\* Once RevokeToken has answered, the access tokens derived from the refresh token are
\* rejected, as docs/aws-spec/cognito/revoke_token.md has it.  They are not when the refresh
\* token is gone and its origin is not revoked: after a GlobalSignOut or an AdminDisableUser
\* that revoked the origins before a sign-in stored its refresh token and deleted the refresh
\* tokens afterwards, RevokeToken finds nothing and answers as if it had revoked.
RevokedAreRejected == Rejected(cut \cup told)

\* Once RevokeToken, GlobalSignOut or AdminDisableUser has answered, no refresh token that
\* its user had when it began is left, whatever signs in or fails in between.
EndedCannotRefresh == \A f \in ended : refresh[f] = Absent

\* The request p answers tokens.
Answers(p) == At(p, "answer") /\ req'[p] # req[p] /\ issued' # issued

\* A request that begins once AdminDisableUser has written gets no tokens for the user while
\* nobody enables it: not by a session from before, by a refresh token that is not deleted
\* yet, or by a password set in the meantime.  NEW_PASSWORD_REQUIRED is no exception,
\* although docs/aws-spec/cognito/admin_disable_user.md:47 makes it one: completeAuth, which
\* it ends in, reads Enabled again.
DisabledGetNoTokens ==
    [][\A p \in Procs : Answers(p) => req[p].sub \notin watch[p].barred]_vars

\* Whom the pool, or the user's own preference, obliges to use MFA from the beginning of a
\* sign-in to its end gets tokens only with a code.  A session from before that does not
\* spare it, save one of MFA_SETUP: there the code was given when the session was verified,
\* which may be before the user enrolled.  A refresh needs none.
MfaNeverSkipped ==
    [][\A p \in Procs : Answers(p) /\ req[p].fam = Absent /\ ~req[p].proven =>
          ~watch[p].pool /\ req[p].sub \notin watch[p].mfa]_vars

\* The user that a token is for is the one found by its name: what lookupUser finds by sub
\* UpdateUser and DeleteUser find by name, also after they have failed half way.
TokensNameTheirUser ==
    \A t \in issued : users[t.sub] \in User => SubOf(users[t.sub].name) = t.sub

\* The access tokens of every user that exists are signed with the key in keys.json, also
\* when the first sign-ins of a pool race to make the key or fail to store it.
EveryTokenVerifies == \A t \in issued : t.key = keys \/ users[t.sub] = Absent

\* Unless a write has failed, group_members and user_groups say the same.
GroupsAgree ==
    faults = 0 => \A gn \in Groups \X Names : members[gn] = userGroups[gn]

\* Once DeleteUserPool is done nothing of the pool is left or comes back, the entries of its
\* clients included, although requests that found the pool still go on to write to it.
NothingOutlivesPool ==
    (faults = 0 /\ dir = "gone") =>
        /\ pool = Absent /\ keys = Absent /\ revoked = {}
        /\ Stored(clients) = {} /\ Stored(clientIndex) = {} /\ Stored(users) = {}
        /\ Stored(index) = {} /\ Stored(refresh) = {} /\ Stored(groups) = {}
        /\ Stored(members) = {} /\ Stored(userGroups) = {}
=============================================================================
