------------------------- MODULE MCCorrectiveAgent -------------------------
(* The instances of CorrectiveAgent that TLC checks.                       *)
EXTENDS CorrectiveAgent

-----------------------------------------------------------------------------
(* Three sources: an article, a case of 2015 and one of 2024.              *)

MCSources == {"law", "case15", "case24"}
MCDocOf == [s \in MCSources |-> s]
MCTypeOf == [s \in MCSources |-> IF s = "law" THEN "legislation" ELSE "case_law"]
MCDecisionYear == [s \in MCSources |->
  CASE s = "case15" -> 2015 [] s = "case24" -> 2024 [] OTHER -> 0]

\* Scores and thresholds of common/config.py, scaled by 10000.
MCRelevant == [k \in Kinds |->
  CASE k = "rerank" -> 2000 [] k = "rrf" -> 200 [] k = "dense" -> 5500
    [] k = "lexical" -> 550000]
MCFloor == [k \in Kinds |->
  CASE k = "rerank" -> 1300 [] k = "rrf" -> 100 [] k = "dense" -> 3000
    [] k = "lexical" -> 200000]

-----------------------------------------------------------------------------
(* Queries, named for what the code finds in them.                         *)

\* ecli: "does ECLI:NL:HR:2015:12 still hold in 2024"; dated: "Artikel 1 on
\* 2019-01-01"; rewritten: a question about the duration of the 30% ruling;
\* broken: two parts of which the second is nothing but dots.
MCQueries == {"plain", "year", "eligible", "badday", "ecli", "bare ecli", "dated",
              "article", "rewritten", "parts", "dated parts", "broken", ""}

MCYearIn == [q \in MCQueries |->
  CASE q \in {"year", "ecli", "parts"} -> 2024 [] q = "bare ecli" -> 2015
    [] q \in {"dated", "dated parts"} -> 2019 [] OTHER -> 0]
MCNamesIdentifier == {"ecli", "bare ecli", "dated", "article", "dated parts"}
MCAsksEligibility == {"eligible"}
MCTerse == {"bare ecli", "article", ""}

MCClauses == [q \in MCQueries |->
  CASE q = "parts" -> <<"plain", "year", "eligible">>
    [] q = "dated parts" -> <<"plain", "dated">>
    [] q = "broken" -> <<"plain", "">>
    [] OTHER -> <<q>>]
MCIdentifiers == [q \in MCQueries |->
  CASE q = "ecli" -> <<"bare ecli">> [] q = "dated" -> <<"article">> [] OTHER -> <<>>]
MCRewrites == [q \in MCQueries |-> IF q = "rewritten" THEN <<"article">> ELSE <<>>]
MCDateIn == [q \in MCQueries |->
  CASE q \in {"dated", "dated parts"} -> "2019-01-01" [] q = "badday" -> "2024-13-01"
    [] OTHER -> "none"]
MCInvalid == {"", "2024-13-01", "blank"}

Asked(qs, methods, scopes, dates) ==
  [query: qs, role: {"helpdesk"}, scope: scopes, method: methods, as_of: dates]

\* Every query, every kind of retrieval: what the control flow does.
ControlRequests ==
  Asked(MCQueries, {"none", "dense"}, {"NL"}, {"none", "2024-01-01"}) \cup
  Asked({"plain"}, {"hybrid"}, {"NL", "blank"}, {"none"})

\* The queries that are not transformed: what the grading does.
GradingRequests ==
  Asked({"plain", "year", "eligible", "article"}, Methods, {"NL"}, {"none", "2024-01-01"})

MCRequests == ControlRequests \cup GradingRequests

-----------------------------------------------------------------------------
(* Responses.                                                              *)

R(source, exact, overlap, score) ==
  [source |-> source, exact |-> exact, overlap |-> overlap, score |-> score]

Found(k, results, denied, filtered) ==
  [kind |-> k, results |-> results, denied |-> denied, candidates |-> 1,
   filtered |-> filtered]

NothingFound(k) ==
  [kind: {k}, results: {<<>>}, denied: 0..1, candidates: 0..1, filtered: 0..1]

\* A score below the floor, one between the thresholds, one above, and one that is
\* just within the margin of the last.
Scores(k) == {MCFloor[k] - 1, MCFloor[k], MCRelevant[k] - 1, MCRelevant[k], MCRelevant[k] + 100}
SecondScores(k) == {MCRelevant[k] - 1, MCRelevant[k], MCRelevant[k] + 100}

Results(k) ==
  {r \in {R(s, x, o, n) : s \in MCSources, x \in BOOLEAN, o \in BOOLEAN, n \in Scores(k)} :
     /\ k = "dense" => ~r.exact
     /\ k # "rerank" => ~r.overlap}

\* The first of a fused list has rank 1 in one of the lists, so at least 1/61, and
\* whatever lexical retrieval returns scores at least 55, the threshold.
Plausible(p) ==
  p.results # <<>> =>
    /\ p.kind = "rrf" => p.results[1].score >= 164
    /\ p.kind = "lexical" =>
         \A i \in DOMAIN p.results : p.results[i].score >= MCRelevant["lexical"]

\* Responses of up to two results: the first at any edge of the thresholds, the
\* second next to the upper one.
EdgeProfiles ==
 {p \in UNION {NothingFound(k) \cup
         {Found(k, results, 0, 0) : results \in {<<r>> : r \in Results(k)} \cup
            {<<r, s>> : r \in Results(k),
                        s \in {t \in Results(k) : ~t.overlap /\ t.score \in SecondScores(k)}}}
         : k \in Kinds} : Plausible(p)}

\* One response for each way a grade comes about.
ControlProfiles ==
 {p \in UNION {NothingFound(k) \cup
         {Found(k, results, denied, filtered) : results \in {
            <<R("law", FALSE, FALSE, MCRelevant[k])>>,
            <<R("law", FALSE, FALSE, MCRelevant[k] + 120),
              R("case24", FALSE, FALSE, MCRelevant[k])>>,
            <<R("law", FALSE, FALSE, MCRelevant[k] - 1)>>,
            <<R("law", FALSE, FALSE, MCFloor[k] - 1)>>,
            <<R("case15", k # "dense", FALSE, MCRelevant[k] + 120)>>,
            <<R("case24", FALSE, FALSE, MCRelevant[k]),
              R("law", FALSE, FALSE, MCRelevant[k] - 1)>>,
            <<R("law", k # "dense", FALSE, MCRelevant[k] + 120),
              R("case24", k # "dense", FALSE, MCRelevant[k] + 120)>>},
          denied \in {1}, filtered \in 0..1} : k \in Kinds} : Plausible(p)}

MCProfiles == [r \in MCRequests |->
  (IF r \in ControlRequests THEN ControlProfiles ELSE {}) \cup
  (IF r \in GradingRequests THEN EdgeProfiles ELSE {})]
=============================================================================
