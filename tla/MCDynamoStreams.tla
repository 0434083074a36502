--------------------------- MODULE MCDynamoStreams ---------------------------
(* DynamoStreams for TLC. *)
EXTENDS DynamoStreams, TLC

BufSymmetry == Permutations(BufIds)

\* The buffers of all tables plus the two that the writer and the trim
\* goroutine can still hold.
ASSUME Cardinality(BufIds) >= Cardinality(Tables) + 2

=============================================================================
