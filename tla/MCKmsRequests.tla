---------------------------- MODULE MCKmsRequests ----------------------------
(* KmsRequests with two keys, two clients and the workloads to tell apart. *)
EXTENDS KmsRequests, TLC

CONSTANTS k1, k2, c1, c2, g1, t1, awss3, mine

\* The materials and who uses them; the aliases and the key of S3; what hangs on a key.
MCWorkloads == {
    {"keys", "rotate", "crypto"},
    {"keys", "states", "crypto"},
    {"keys", "states", "rotate"},
    {"keys", "states", "aliases", "s3"},
    {"keys", "states", "config"},
    {"keys", "states", "grants"}}

\* Neither the keys nor the clients can be told apart.
MCSymmetry == Permutations(Keys) \cup Permutations(Clients)

=============================================================================
