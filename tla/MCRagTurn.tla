----------------------------- MODULE MCRagTurn -----------------------------
(* Instances of RagTurn for TLC.  Turns are interchangeable, and no run    *)
(* checks liveness.                                                        *)
EXTENDS RagTurn, TLC

Symmetry == Permutations(Turns)

=============================================================================
