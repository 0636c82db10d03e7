-------------------------- MODULE MCLongTermMemory --------------------------
(* Instances of LongTermMemory for TLC: clients are interchangeable.       *)
EXTENDS LongTermMemory, TLC

Symmetry == Permutations(Clients)

=============================================================================
