--------------------------- MODULE MCIndexRecords ---------------------------
(* Instances of IndexRecords for TLC: a document of two batches, and one   *)
(* that lacks the first of them.                                           *)
EXTENDS IndexRecords, TLC

CONSTANTS a, b

SomeDocuments == {<<>>, <<{b}>>, <<{a}, {b}>>}

Symmetry == Permutations(Processes) \cup Permutations(Sources)

=============================================================================
