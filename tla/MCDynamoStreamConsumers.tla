----------------------- MODULE MCDynamoStreamConsumers -----------------------
(* DynamoStreamConsumers for TLC. *)
EXTENDS DynamoStreamConsumers, TLC

BufSymmetry == Permutations(BufIds)

=============================================================================
