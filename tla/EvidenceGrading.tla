-------------------------- MODULE EvidenceGrading --------------------------
(***************************************************************************)
(* grade_evidence: the deterministic verdict on one retrieval response.    *)
(*                                                                         *)
(* What the code reads from the text of a query is a constant: YearIn (the *)
(* largest year, 0 for none), NamesIdentifier, AsksEligibility and Terse   *)
(* (fewer than three tokens).  Scores are scaled to integers.  At most the *)
(* first two results matter: the one rule that looks further asks for an   *)
(* exact match, and retrieval ranks exact matches first.                   *)
(***************************************************************************)
EXTENDS Integers, Sequences

CONSTANTS
  Queries, Sources, Dates, NoDate,
  DocOf, TypeOf,
  DecisionYear,     \* the year of the decision date, 0 for none
  YearIn, NamesIdentifier, AsksEligibility, Terse,
  Relevant, Floor,  \* score thresholds, by the kind of the primary score
  Margin            \* conflicting_score_margin

Kinds == {"rerank", "rrf", "lexical", "dense"}
Methods == {"hybrid", "lexical", "dense"}

ASSUME GradingAssumption ==
  /\ DocOf \in [Sources -> STRING] /\ TypeOf \in [Sources -> STRING]
  /\ DecisionYear \in [Sources -> Nat]
  /\ YearIn \in [Queries -> Nat]
  /\ NamesIdentifier \subseteq Queries /\ AsksEligibility \subseteq Queries
  /\ Terse \subseteq Queries
  /\ Relevant \in [Kinds -> Nat] /\ Floor \in [Kinds -> Nat] /\ Margin \in Nat
  /\ \A k \in Kinds : Floor[k] <= Relevant[k]

\* One result.  exact: a metric of _EXACT_MATCH_METRICS is in its score map;
\* overlap: the reranker found a common concept or term.
Result == [source: Sources, exact: BOOLEAN, overlap: BOOLEAN, score: Int]

\* A response, with the counts of its metadata that grading reads.
Retrieval == [query: Queries, method: Methods, as_of: Dates \cup {NoDate},
              results: Seq(Result), denied: Nat, candidates: Nat, filtered: Nat]

Reasons == {"no_authorized_source", "outdated_evidence",
            "insufficient_evidence", "conflicting_evidence", "none"}

Evidence == [grade: {"relevant", "ambiguous", "irrelevant"},
             reason: Reasons, top_score: Int]

-----------------------------------------------------------------------------
\* _primary_score: which score of a response its thresholds are about.  A hybrid
\* response is reranked unless the query names an identifier.
kind(r) == IF r.method # "hybrid" THEN r.method
           ELSE IF r.query \in NamesIdentifier THEN "rrf" ELSE "rerank"

is_relevant_score(r, score) == score >= Relevant[kind(r)]
is_ambiguous_score(r, score) == score >= Floor[kind(r)]

leading(r) == {r.results[i] : i \in DOMAIN r.results \cap {1, 2}}

\* A slip, for the mutants: nobody was denied anything.
EveryEmptyIsDenied(r) ==
  IF r.candidates = 0 THEN "no_authorized_source" ELSE "insufficient_evidence"

\* Why a response without results is refused.
empty_reason(r) ==
  IF r.denied > 0 /\ r.candidates = 0 THEN "no_authorized_source"
  ELSE IF r.filtered > 0 /\ r.candidates = 0 THEN "outdated_evidence"
  ELSE "insufficient_evidence"

\* A slip, for the mutants: what did match exactly is not looked at.
OutsideValidityAnyway(r) ==
  r.as_of # NoDate /\ r.filtered > 0 /\ r.query \in NamesIdentifier

\* The identifier asked for exists, but not on the date asked for.
outside_validity(r) ==
  /\ r.as_of # NoDate /\ r.filtered > 0
  /\ r.query \in NamesIdentifier
  /\ \A i \in DOMAIN r.results : ~r.results[i].exact

\* Every dated result in front is older than the year in the query.
older_than_asked(r) ==
  LET dated == {s \in leading(r) : DecisionYear[s.source] > 0}
  IN /\ YearIn[r.query] > 0
     /\ dated # {}
     /\ \A s \in dated : DecisionYear[s.source] < YearIn[r.query]

\* A slip, for the mutants: an exact match is never too old.
OutdatedUnlessExact(r) ==
  outside_validity(r) \/ (older_than_asked(r) /\ ~r.results[1].exact)

outdated(r) == outside_validity(r) \/ older_than_asked(r)

only_case_law(r) ==
  /\ r.query \in AsksEligibility
  /\ ~r.results[1].exact
  /\ \A s \in leading(r) : TypeOf[s.source] = "case_law"

\* A slip, for the mutants: the margin compared the wrong way round.
FarApartConflict(r) ==
  /\ Len(r.results) >= 2
  /\ \A s \in leading(r) : is_ambiguous_score(r, s.score)
  /\ DocOf[r.results[1].source] # DocOf[r.results[2].source]
  /\ r.results[1].score - r.results[2].score >= Margin

\* Two documents rank nearly the same.
conflicting(r) ==
  /\ Len(r.results) >= 2
  /\ \A s \in leading(r) : is_ambiguous_score(r, s.score)
  /\ DocOf[r.results[1].source] # DocOf[r.results[2].source]
  /\ r.results[1].score - r.results[2].score \in -Margin..Margin

\* The rerank floor, whatever kind of score is compared with it.
prefer_no_authorized_source(r) ==
  /\ r.denied > 0
  /\ r.results[1].score < Floor["rerank"]
  /\ r.query \notin Terse
  /\ ~r.results[1].overlap

weak_reason(r) == IF prefer_no_authorized_source(r) THEN "no_authorized_source"
                  ELSE "insufficient_evidence"

grade_evidence(r) ==
  LET top == r.results[1].score
      Grade(g, reason) == [grade |-> g, reason |-> reason, top_score |-> top]
  IN IF r.results = <<>>
       THEN [grade |-> "irrelevant", reason |-> empty_reason(r), top_score |-> 0]
     ELSE IF outdated(r) THEN Grade("ambiguous", "outdated_evidence")
     ELSE IF only_case_law(r) THEN Grade("ambiguous", "insufficient_evidence")
     ELSE IF r.results[1].exact THEN Grade("relevant", "none")
     ELSE IF conflicting(r) THEN Grade("ambiguous", "conflicting_evidence")
     ELSE IF is_relevant_score(r, top) THEN Grade("relevant", "none")
     ELSE IF is_ambiguous_score(r, top) THEN Grade("ambiguous", "insufficient_evidence")
     ELSE Grade("irrelevant", weak_reason(r))

-----------------------------------------------------------------------------
grade_rank(e) == CASE e.grade = "relevant" -> 3
                   [] e.grade = "ambiguous" -> 2
                   [] e.grade = "irrelevant" -> 1
=============================================================================
