---------------------------- MODULE MCDynamoItems ----------------------------
(* DynamoItems for TLC. *)
EXTENDS DynamoItems, TLC

\* The keys that have no stream are interchangeable.
KeySymmetry == Permutations(Keys \ Streamed)

=============================================================================
