-------------------------- MODULE MCCognitoRequests --------------------------
(* CognitoRequests with one name in two spellings, two requests in flight and the     *)
(* workloads to tell apart.                                                           *)
EXTENDS CognitoRequests, TLC

CONSTANTS p1, p2, g1, e1, t1, ann, Ann

MCFold == [n \in Names |-> ann]

Plain == [mfaOn |-> FALSE, protected |-> FALSE, auto |-> TRUE, tags |-> {}]
Strict == [Plain EXCEPT !.mfaOn = TRUE]

Member == [NewUser(ann, "CONFIRMED", ann, Absent, FALSE, FALSE) EXCEPT !.totp = TRUE]
Reachable == [Member EXCEPT !.email = e1, !.verified = TRUE]
Enrolled == [Member EXCEPT !.mfa = TRUE]
Newcomer == NewUser(ann, "UNCONFIRMED", ann, e1, FALSE, TRUE)
Guest == NewUser(Ann, "FORCE", Ann, e1, TRUE, FALSE)

Start(p, u, does) == [pool |-> p, user |-> u, does |-> does]

\* Who signs in, refreshes and ends sessions; MFA; the life of a user, its password and its
\* attributes; groups; the pool, its clients and its keys.
MCStarts == {
    Start(Plain, Member, {"signin", "refresh", "revoke", "signout", "users"}),
    Start(Plain, Member, {"signin", "srp", "refresh", "disable"}),
    Start(Plain, Member, {"signin", "challenge", "mfa"}),
    Start(Strict, Enrolled, {"signin", "challenge", "mfa"}),
    Start(Plain, Member, {"signin", "mfa", "policy"}),
    Start(Strict, Guest, {"signin", "challenge"}),
    Start(Strict, Member, {"signin", "challenge", "disable"}),
    Start(Plain, Guest, {"signin", "srp", "challenge"}),
    Start(Plain, Guest, {"signup", "create", "confirm", "users"}),
    Start(Plain, Member, {"signin", "users", "signup", "confirm"}),
    Start(Plain, Newcomer, {"confirm", "settings"}),
    Start(Plain, Member, {"signin", "attributes"}),
    Start(Plain, Reachable, {"signin", "passwords"}),
    Start(Plain, Member, {"groups", "users"}),
    Start(Plain, Member, {"groups", "signup", "pool"}),
    Start(Absent, Absent, {"pool", "settings", "clients", "keys"}),
    Start(Plain, Member, {"signin", "refresh", "pool", "clients"}),
    Start(Plain, Member, {"signin", "revoke", "pool"}),
    Start(Plain, Member, {"signin", "policy", "challenge"})}

\* Sign-ins, sign-outs and RevokeToken.
MCRevoking == {Start(Plain, Member, {"signin", "revoke", "signout"})}

\* The requests cannot be told apart.
MCSymmetry == Permutations(Procs)

=============================================================================
