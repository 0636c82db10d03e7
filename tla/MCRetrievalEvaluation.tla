----------------------- MODULE MCRetrievalEvaluation -----------------------
(* Four chunks of three files, the first of which has two, and the gains   *)
(* 1 / log2(place + 1) in ten thousandths.                                 *)
EXTENDS RetrievalEvaluation, TLC

CONSTANTS c1, c2, c3, c4, f1, f2, f3

NamesOf == c1 :> f1 @@ c2 :> f1 @@ c3 :> f2 @@ c4 :> f3
LogDiscount == <<10000, 6309, 5000>>

=============================================================================
