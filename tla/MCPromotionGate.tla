--------------------------- MODULE MCPromotionGate ---------------------------
(* Five gold cases, after data/eval/gold_questions.jsonl, and the ways to answer *)
(* them that the metrics tell apart.                                             *)
EXTENDS PromotionGate

Case(category, answerable, expected) ==
  [category |-> category, answerable |-> answerable, expected |-> expected]

MCGold ==
  [exact |-> Case("exact_lookup", TRUE, 6), ecli |-> Case("exact_lookup", TRUE, 1),
   semantic |-> Case("semantic_lookup", TRUE, 1),
   mixed |-> Case("multi_part", FALSE, 0),
   fraud |-> Case("unauthorized_role", FALSE, 0)]

Good(n) == [answered |-> TRUE, graded |-> TRUE, found |-> n, cites |-> TRUE, quotes |-> TRUE, reveals |-> FALSE]
Refused == [answered |-> FALSE, graded |-> TRUE, found |-> 0, cites |-> FALSE, quotes |-> FALSE, reveals |-> FALSE]
Unfaithful(n) == [Good(n) EXCEPT !.quotes = FALSE]
RefusedWith(n) == [Refused EXCEPT !.found = n, !.cites = TRUE]
Revealing(r) == [r EXCEPT !.reveals = TRUE]

Right == [exact |-> Good(6), ecli |-> Good(1), semantic |-> Good(1), mixed |-> Refused, fraud |-> Refused]
Others ==
  [exact |-> {Good(3), RefusedWith(6)},
   ecli |-> {Good(0), RefusedWith(0)},
   semantic |-> {Unfaithful(1), Unfaithful(0), Refused},
   mixed |-> {Revealing(Good(0)), [Refused EXCEPT !.graded = FALSE]},
   fraud |-> {Revealing(RefusedWith(0)), Revealing(Good(0))}]

\* Candidates that get at most two cases wrong, in any way.
MCCandidates ==
  {Right} \cup {[[Right EXCEPT ![pair[1]] = r] EXCEPT ![pair[2]] = s] :
     <<pair, r, s>> \in UNION {{p} \X Others[p[1]] \X Others[p[2]] : p \in (DOMAIN Right) \X (DOMAIN Right)}}

\* The floors of PromotionConfig; tolerances that one case of five, or one of two, uses up.
MCThresholds ==
  [minimum |-> [accuracy |-> 55, citation_presence |-> 95, exact_lookup |-> 35, semantic |-> 70,
                faithfulness |-> 85, context_precision |-> 70],
   max_unauthorized |-> 0,
   regression |-> [accuracy |-> 20, exact_lookup |-> 50, semantic |-> 5, context_precision |-> 20]]
=============================================================================
