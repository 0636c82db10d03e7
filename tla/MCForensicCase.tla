--------------------------- MODULE MCForensicCase ---------------------------
EXTENDS ForensicCase, TLC

(* Workers, requests and replicas are interchangeable (safety runs only).  *)
Symmetry ==
  Permutations(Workers) \cup Permutations(Requests) \cup Permutations(Replicas)

=============================================================================
