------------------------ MODULE RetrievalEvaluation ------------------------
(***************************************************************************)
(* The comparison of scripts/evaluate.py for one golden question: the      *)
(* retriever of src/rag/retriever.py without and with its reranker, on one *)
(* index, each result scored by evaluate_case of                           *)
(* src/evaluation/retrieval.py.  Questions share nothing; the report only  *)
(* averages their scores.  Both arms ask for fewer documents than the      *)
(* index fuses (candidate_pool), so they cut one and the same order.       *)
(*                                                                         *)
(* A source is known by its file name, which is what _normalise leaves of  *)
(* a path.  The gain at a place is an integer in the order of              *)
(* 1 / log2(place + 1), and a score is the pair of its two counts.         *)
(***************************************************************************)
EXTENDS Integers, Sequences, FiniteSets, FiniteSetsExt

CONSTANTS
  Chunks,      \* what the index may hold
  Names,       \* names of source files
  NameOf,      \* of the source of each chunk
  K,           \* documents scored
  FetchK,      \* candidates reranked
  Scores,      \* what the reranker may give a chunk
  Threshold,   \* least score kept; 0 for None
  Discount     \* the gain at each place

ASSUME NameOfAssumption == NameOf \in [Chunks -> Names]
ASSUME KAssumption == K \in Nat \ {0} /\ FetchK \in Nat \ {0}
ASSUME ScoresAssumption == Scores \subseteq Nat \ {0} /\ Threshold \in Nat
ASSUME DiscountAssumption ==
  /\ Discount \in [1..K -> Nat \ {0}]
  /\ \A p, q \in 1..K: p < q => Discount[p] > Discount[q]

VARIABLES
  relevant,   \* names that answer the question; never changes
  fused,      \* what the index has for it, best first; never changes
  score,      \* of the candidates reranked
  result      \* of each arm, once evaluated

vars == <<relevant, fused, score, result>>

-----------------------------------------------------------------------------
Arms == {"hybrid", "reranked"}

SequencesUpTo(S, n) == UNION {[1..m -> S]: m \in 0..n}
Orders == {s \in SequencesUpTo(Chunks, Cardinality(Chunks)):
             \A i, j \in DOMAIN s: s[i] = s[j] => i = j}

NotEvaluated == [kept |-> "none"]
CaseResults ==
  [kept: SequencesUpTo(Chunks, K), hitRank: 0..K, found: 0..Cardinality(Names),
   dcg: Nat, ideal: Nat]

TypeOK ==
  /\ relevant \subseteq Names
  /\ fused \in Orders
  /\ DOMAIN score \subseteq Chunks /\ \A c \in DOMAIN score: score[c] \in Scores
  /\ \A a \in Arms: result[a] = NotEvaluated \/ result[a] \in CaseResults

Init ==
  /\ relevant \in SUBSET Names
  /\ fused \in Orders
  /\ score = << >>
  /\ result = [a \in Arms |-> NotEvaluated]

-----------------------------------------------------------------------------
(* The retriever.                                                          *)
FirstOf(s, n) == SubSeq(s, 1, Min({n, Len(s)}))

Candidates(n) == FirstOf(fused, n)

(* Mutant: the candidates are cut before they are ranked.                  *)
CutBeforeRanking(s, sc) == FirstOf(s, K)

(* sorted(..., reverse=True) is stable.                                    *)
Ranked(s, sc) ==
  LET Above(i, j) == sc[s[i]] > sc[s[j]] \/ (sc[s[i]] = sc[s[j]] /\ i < j)
      Rank(j) == 1 + Cardinality({i \in DOMAIN s: Above(i, j)})
  IN  [r \in DOMAIN s |-> s[CHOOSE i \in DOMAIN s: Rank(i) = r]]

(* Mutant: a reranked result is as long as its candidates.                 *)
RerankUncut(s, sc) == SelectSeq(Ranked(s, sc), LAMBDA c: sc[c] >= Threshold)

Rerank(s, sc) == FirstOf(SelectSeq(Ranked(s, sc), LAMBDA c: sc[c] >= Threshold), K)

-----------------------------------------------------------------------------
(* evaluate_case.                                                          *)
(* Mutant: a gain for every chunk of a source.                             *)
EveryChunk(s) == DOMAIN s

FirstSeen(s) == {i \in DOMAIN s: \A j \in 1..i - 1: s[j] # s[i]}

(* Mutant: the distinct sources are taken in the reverse order.            *)
PlaceFromLast(s, i) == Cardinality({j \in FirstSeen(s): j >= i})

Place(s, i) == Cardinality({j \in FirstSeen(s): j <= i})

Gains(s) == {Place(s, i): i \in {j \in FirstSeen(s): s[j] \in relevant}}

Dcg(places) == MapThenSumSet(LAMBDA p: Discount[p], places)

Ideal == Dcg(1..Min({Cardinality(relevant), K}))

HitRank(s) ==
  LET hits == {i \in DOMAIN s: s[i] \in relevant} IN
    IF hits = {} THEN 0 ELSE Min(hits)

EvaluateCase(kept) ==
  LET s == [i \in 1..Min({K, Len(kept)}) |-> NameOf[kept[i]]] IN
    [kept |-> kept, hitRank |-> HitRank(s),
     found |-> Cardinality({s[i]: i \in FirstSeen(s)} \cap relevant),
     dcg |-> Dcg(Gains(s)), ideal |-> Ideal]

-----------------------------------------------------------------------------
(* Without a reranker no more than K candidates are searched for.          *)
EvaluateHybrid ==
  /\ result["hybrid"] = NotEvaluated
  /\ result' = [result EXCEPT !["hybrid"] = EvaluateCase(Candidates(K))]
  /\ UNCHANGED <<relevant, fused, score>>

EvaluateReranked ==
  /\ result["hybrid"] # NotEvaluated
  /\ result["reranked"] = NotEvaluated
  /\ LET s == Candidates(FetchK) IN
       \E sc \in [{s[i]: i \in DOMAIN s} -> Scores]:
         /\ score' = sc
         /\ result' = [result EXCEPT !["reranked"] = EvaluateCase(Rerank(s, sc))]
  /\ UNCHANGED <<relevant, fused>>

Next == EvaluateHybrid \/ EvaluateReranked

Spec == Init /\ [][Next]_vars

-----------------------------------------------------------------------------
Evaluated == {a \in Arms: result[a] # NotEvaluated}

(* "The metric silently stops meaning anything" outside [0, 1]: recall and *)
(* nDCG are fractions whatever chunks a source is cut into, and the three  *)
(* metrics agree on a total miss.                                          *)
ScoresConsistent ==
  \A a \in Evaluated:
    /\ result[a].found <= Cardinality(relevant)
    /\ result[a].dcg <= result[a].ideal
    /\ result[a].hitRank = 0 <=> result[a].found = 0
    /\ result[a].found = 0 <=> result[a].dcg = 0

(* nDCG is 1 exactly when no source that does not answer the question is   *)
(* seen before the last of the relevant ones that fit.                     *)
PerfectIsFirst ==
  \A a \in Evaluated:
    relevant # {} =>
      (result[a].dcg = result[a].ideal <=>
        \E n \in 0..Len(result[a].kept):
          LET seen == {NameOf[result[a].kept[i]]: i \in 1..n} IN
            seen \subseteq relevant /\ Cardinality(seen) = Min({Cardinality(relevant), K}))

(* The reranked result is the best of the whole pool, ties in the order of *)
(* the fusion: no candidate left out, or placed later, should come before. *)
RerankKeepsBest ==
  result["reranked"] # NotEvaluated =>
    LET kept == result["reranked"].kept
        Position(c) == CHOOSE i \in DOMAIN fused: fused[i] = c
        Better(c, d) ==
          score[c] > score[d] \/ (score[c] = score[d] /\ Position(c) < Position(d))
    IN  \A i \in DOMAIN kept:
          /\ score[kept[i]] >= Threshold
          /\ \A c \in DOMAIN score: Better(c, kept[i]) => \E j \in 1..i - 1: kept[j] = c

=============================================================================
