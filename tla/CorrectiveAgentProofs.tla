----------------------- MODULE CorrectiveAgentProofs -----------------------
(***************************************************************************)
(* The agent answers from relevant evidence alone, within one scope, for   *)
(* every query, response, threshold and number of retries.                 *)
(***************************************************************************)
EXTENDS CorrectiveAgent, WellFoundedInduction, TLAPS

-----------------------------------------------------------------------------
(* The inductive invariant.                                                *)

\* A call keeps the role, the scope and the date of the request; its query is the one
\* of the request, a part of it, or a citation.
InScope(c) ==
  /\ c.role = req.role /\ c.scope = req.scope /\ c.as_of = effective_as_of_date
  /\ c.query = req.query \/ strategy = "decomposition" \/ c.query \in NamesIdentifier

\* A response is to its call, and ranked.
Sound(x) ==
  /\ InScope(x.call)
  /\ x.response.query = x.call.query /\ x.response.as_of = x.call.as_of
  /\ \/ x.response.results = <<>>
     \/ x.response.results[1].exact
     \/ Descending(x.response.results)

\* Where the request is, and how many calls it has made.
Control ==
  /\ phase = "received" => attempts = <<>>
  /\ phase = "grade" => found \in [call: Call, response: Retrieval] /\ Sound(found)
  /\ attempts # <<>> => best \in Attempt
  /\ phase \in {"retrieve", "grade"} =>
       IF strategy = "decomposition" THEN Len(attempts) < Len(queries)
       ELSE attempts # <<>> => Len(attempts) <= Len(focused)
  /\ phase \in {"decide", "answered", "refused"} =>
       IF strategy = "decomposition" THEN Len(attempts) = Len(queries)
       ELSE attempts # <<>> /\ Len(attempts) <= 1 + Len(focused)
  /\ (/\ strategy # "decomposition" /\ attempts # <<>>
      /\ Len(attempts) > 1 \/ phase \in {"retrieve", "grade"}) => weak(1)

\* Every attempt carries the grade of its response.
Evidenced ==
  \A i \in Parts : /\ Sound(attempts[i])
                   /\ attempts[i].evidence = grade_evidence(attempts[i].response)

\* No attempt beats the best one, which is one of them.
NotBeaten(e, b) ==
  \/ grade_rank(e) < grade_rank(b)
  \/ grade_rank(e) = grade_rank(b) /\ e.top_score <= b.top_score

Chosen ==
  attempts # <<>> =>
    /\ \E i \in Parts : attempts[i] = best
    /\ \A i \in Parts : NotBeaten(attempts[i].evidence, best.evidence)

Supported == IF strategy = "decomposition"
               THEN Len(attempts) = Len(queries) /\ \A i \in Parts : ~weak(i)
               ELSE \E i \in Parts : ~weak(i)

\* What the response says of the attempts it was made from.
Outcome ==
  /\ phase \notin {"answered", "refused"} => final = NoAnswer
  /\ phase \in {"answered", "refused"} =>
       /\ final \in Answer /\ final.outcome = phase
       /\ strategy # "decomposition" => final.grade = best.evidence.grade
  /\ phase = "answered" =>
       /\ Supported /\ final.grade = "relevant" /\ final.sources # {}
       /\ \A s \in final.sources : \E i \in Parts :
            ~weak(i) /\ s \in cited(attempts[i].response)
  /\ phase = "refused" =>
       /\ ~Supported /\ final.grade # "relevant" /\ final.reason # "none"
       /\ \E i \in Parts : final.reason = attempts[i].evidence.reason

IInv == TypeOK /\ Control /\ Evidenced /\ Chosen /\ Outcome

-----------------------------------------------------------------------------
(* Lemmas about the operators.                                             *)

\* transform_query: a decomposed query has two parts or more, a forced one a rewrite
\* to start with, and what is left are identifiers or rewrites.
LEMMA PlanFacts ==
  ASSUME NEW q \in Queries
  PROVE  /\ plan(q).queries \in Seq(Queries)
         /\ plan(q).strategy \in {"decomposition", "structured_identifier", "none"}
         /\ plan(q).force \in BOOLEAN
         /\ plan(q).strategy = "decomposition" =>
              Len(plan(q).queries) >= 2 /\ ~plan(q).force
         /\ plan(q).force => plan(q).queries # <<>>
         /\ plan(q).strategy # "decomposition" =>
              \A i \in DOMAIN plan(q).queries : plan(q).queries[i] \in NamesIdentifier
         /\ DateIn[q] = NoDate =>
              \A i \in DOMAIN plan(q).queries : DateIn[plan(q).queries[i]] = NoDate
<1>1. /\ Clauses[q] \in Seq(Queries) /\ Identifiers[q] \in Seq(Queries)
      /\ Rewrites[q] \in Seq(Queries)
  BY AgentAssumption
<1>2. \A i \in DOMAIN Identifiers[q] : Identifiers[q][i] \in NamesIdentifier
  BY AgentAssumption
<1>3. \A i \in DOMAIN Rewrites[q] : Rewrites[q][i] \in NamesIdentifier
  BY AgentAssumption
<1>4. DateIn[q] = NoDate =>
        /\ \A i \in DOMAIN Clauses[q] : DateIn[Clauses[q][i]] = NoDate
        /\ \A i \in DOMAIN Identifiers[q] : DateIn[Identifiers[q][i]] = NoDate
        /\ \A i \in DOMAIN Rewrites[q] : DateIn[Rewrites[q][i]] = NoDate
  BY AgentAssumption
<1>5. CASE Len(Clauses[q]) >= 2
  <2>1. plan(q) = [strategy |-> "decomposition", queries |-> Clauses[q], force |-> FALSE]
    BY <1>1, <1>5 DEF plan
  <2> QED BY <1>1, <1>4, <1>5, <2>1
<1>6. CASE Len(Clauses[q]) < 2 /\ Identifiers[q] # <<>>
  <2>1. plan(q) = [strategy |-> "structured_identifier", queries |-> Identifiers[q],
                   force |-> FALSE]
    BY <1>1, <1>6 DEF plan
  <2> QED BY <1>1, <1>2, <1>4, <2>1
<1>7. CASE Len(Clauses[q]) < 2 /\ Identifiers[q] = <<>> /\ Rewrites[q] # <<>>
  <2>1. plan(q) = [strategy |-> "structured_identifier", queries |-> Rewrites[q],
                   force |-> TRUE]
    BY <1>1, <1>7 DEF plan
  <2> QED BY <1>1, <1>3, <1>4, <1>7, <2>1
<1>8. CASE Len(Clauses[q]) < 2 /\ Identifiers[q] = <<>> /\ Rewrites[q] = <<>>
  <2>1. plan(q) = [strategy |-> "none", queries |-> <<>>, force |-> FALSE]
    BY <1>1, <1>8 DEF plan
  <2> QED BY <2>1
<1> QED BY <1>1, <1>5, <1>6, <1>7, <1>8

\* _primary_score is one of four, and of the first two results there is a first one.
LEMMA KindAndTop ==
  ASSUME NEW r \in Retrieval
  PROVE  /\ kind(r) \in Kinds
         /\ Relevant[kind(r)] \in Nat /\ Floor[kind(r)] \in Nat
         /\ Floor[kind(r)] <= Relevant[kind(r)]
         /\ r.results # <<>> => r.results[1] \in Result /\ r.results[1] \in leading(r)
<1>1. kind(r) \in Kinds
  BY DEF kind, Kinds, Retrieval, Methods
<1>2. r.results # <<>> => r.results[1] \in Result /\ 1 \in DOMAIN r.results \cap {1, 2}
  BY DEF Retrieval
<1> QED BY <1>1, <1>2, GradingAssumption DEF leading

\* What a grade says of the response it was given to.
LEMMA GradeFacts ==
  ASSUME NEW r \in Retrieval
  PROVE  LET e == grade_evidence(r)
         IN /\ e \in Evidence
            /\ e.grade = "relevant" =>
                 /\ r.results # <<>> /\ e.reason = "none"
                 /\ ~outdated(r) /\ ~only_case_law(r)
                 /\ conflicting(r) => r.results[1].exact
            /\ e.grade # "relevant" => e.reason # "none"
            /\ e.reason = "no_authorized_source" => r.denied > 0
            /\ e.reason = "outdated_evidence" => r.filtered > 0 \/ older_than_asked(r)
<1>1. r.denied \in Nat /\ r.filtered \in Nat /\ r.candidates \in Nat
  BY DEF Retrieval
<1>2. CASE r.results = <<>>
  <2>1. grade_evidence(r) = [grade |-> "irrelevant", reason |-> empty_reason(r), top_score |-> 0]
    BY <1>2 DEF grade_evidence
  <2>2. /\ empty_reason(r) \in Reasons \ {"none"}
        /\ empty_reason(r) = "no_authorized_source" => r.denied > 0
        /\ empty_reason(r) = "outdated_evidence" => r.filtered > 0
    BY DEF empty_reason, Reasons
  <2> QED BY <2>1, <2>2 DEF Evidence
<1>3. CASE r.results # <<>>
  <2> DEFINE top == r.results[1].score
             GradeFor(g, reason) == [grade |-> g, reason |-> reason, top_score |-> top]
             e == grade_evidence(r)
  <2>1. top \in Int
    BY <1>3, KindAndTop DEF Result
  <2>2. /\ outdated(r) => e = GradeFor("ambiguous", "outdated_evidence")
        /\ ~outdated(r) /\ only_case_law(r) => e = GradeFor("ambiguous", "insufficient_evidence")
        /\ ~outdated(r) /\ ~only_case_law(r) =>
             /\ r.results[1].exact => e = GradeFor("relevant", "none")
             /\ ~r.results[1].exact /\ conflicting(r) => e = GradeFor("ambiguous", "conflicting_evidence")
             /\ ~r.results[1].exact /\ ~conflicting(r) =>
                  e \in {GradeFor("relevant", "none"), GradeFor("ambiguous", "insufficient_evidence"),
                         GradeFor("irrelevant", weak_reason(r))}
    BY <1>3 DEF grade_evidence
  <2>3. /\ weak_reason(r) \in Reasons \ {"none", "outdated_evidence"}
        /\ weak_reason(r) = "no_authorized_source" => r.denied > 0
    BY DEF weak_reason, prefer_no_authorized_source, Reasons
  <2>4. outdated(r) => r.filtered > 0 \/ older_than_asked(r)
    BY DEF outdated, outside_validity
  <2> HIDE DEF e
  <2>5. CASE outdated(r)
    BY <2>1, <2>2, <2>4, <2>5 DEF Evidence, Reasons, e
  <2>6. CASE ~outdated(r) /\ only_case_law(r)
    BY <2>1, <2>2, <2>6 DEF Evidence, Reasons, e
  <2>7. CASE ~outdated(r) /\ ~only_case_law(r)
    BY <1>3, <2>1, <2>2, <2>3, <2>7 DEF Evidence, Reasons, e
  <2> QED BY <2>5, <2>6, <2>7
<1> QED BY <1>2, <1>3

\* Relevant evidence ranks above the rest.
LEMMA RankFacts ==
  ASSUME NEW e \in Evidence
  PROVE  /\ grade_rank(e) \in 1..3
         /\ grade_rank(e) = 3 <=> e.grade = "relevant"
BY DEF grade_rank, Evidence

\* A response that holds results is cited from, and only sources are cited.
LEMMA CitedFacts ==
  ASSUME NEW r \in Retrieval
  PROVE  /\ cited(r) \subseteq Sources
         /\ r.results # <<>> => cited(r) # {}
<1>1. r.results \in Seq(Result)
  BY DEF Retrieval
<1> DEFINE limit == IF r.results # <<>> /\ r.results[1].exact THEN 1 ELSE MaxCitations
<1>2. cited(r) = {r.results[i].source : i \in DOMAIN r.results \cap 1..limit}
  BY Zenon DEF cited
<1>3. ASSUME NEW i \in DOMAIN r.results PROVE r.results[i].source \in Sources
  <2>1. r.results[i] \in Result
    BY <1>1
  <2> QED BY <2>1 DEF Result
<1>4. r.results # <<>> => 1 \in DOMAIN r.results \cap 1..limit
  BY <1>1, AgentAssumption
<1> QED BY <1>2, <1>3, <1>4

\* A set of natural numbers has a smallest one.
LEMMA LeastNatural ==
  ASSUME NEW S, S \subseteq Nat, S # {}
  PROVE  \E n \in S : \A m \in S : n <= m
<1> DEFINE R == {x \in Nat \X Nat : x[1] < x[2]}
<1>1. IsWellFoundedOn(R, Nat)
  BY NatLessThanWellFounded DEF OpToRel
<1>2. PICK n \in S : \A m \in S : ~(<<m, n>> \in R)
  BY <1>1, WFMin
<1>3. \A m \in S : ~(m < n)
  BY <1>2
<1> QED BY <1>3

\* The worst part is one of the parts, and no part ranks lower.
LEMMA WorstFacts ==
  ASSUME attempts \in Seq(Attempt), attempts # <<>>
  PROVE  \E i \in Parts : /\ worst = attempts[i]
                          /\ \A j \in Parts : grade_rank(attempts[i].evidence)
                                                <= grade_rank(attempts[j].evidence)
<1> DEFINE Rank(i) == grade_rank(attempts[i].evidence)
           Lowest(i) == \A j \in Parts : Rank(i) <= Rank(j)
           First(i) == \A j \in Parts : Rank(i) <= Rank(j) /\ (j < i => Rank(i) < Rank(j))
<1>1. Parts \subseteq Nat /\ Parts # {}
  BY DEF Parts
<1>2. \A i \in Parts : Rank(i) \in Nat
  <2> TAKE i \in Parts
  <2>1. attempts[i] \in Attempt
    BY DEF Parts
  <2>2. attempts[i].evidence \in Evidence
    BY <2>1 DEF Attempt
  <2> QED BY <2>2, RankFacts
<1> HIDE DEF Rank
<1>3. PICK n \in {Rank(i) : i \in Parts} : \A m \in {Rank(i) : i \in Parts} : n <= m
  BY <1>1, <1>2, LeastNatural
<1>4. {i \in Parts : Lowest(i)} \subseteq Nat /\ {i \in Parts : Lowest(i)} # {}
  <2>1. PICK i \in Parts : n = Rank(i)
    BY <1>3
  <2>2. Lowest(i)
    BY <1>3, <2>1
  <2> QED BY <1>1, <2>2
<1>5. PICK k \in {i \in Parts : Lowest(i)} : \A i \in {i \in Parts : Lowest(i)} : k <= i
  BY <1>4, LeastNatural
<1>6. ASSUME NEW j \in Parts PROVE Rank(k) <= Rank(j) /\ (j < k => Rank(k) < Rank(j))
  <2>1. CASE Lowest(j)
    BY <1>1, <1>5, <2>1
  <2>2. CASE ~Lowest(j)
    <3>1. PICK i \in Parts : ~(Rank(j) <= Rank(i))
      BY <2>2
    <3> QED BY <1>2, <1>5, <3>1
  <2> QED BY <2>1, <2>2
<1>7. k \in Parts /\ First(k)
  BY <1>5, <1>6
<1>8. worst = attempts[CHOOSE i \in Parts : First(i)]
  BY Zenon DEF worst, Rank
<1>9. /\ (CHOOSE i \in Parts : First(i)) \in Parts
      /\ First(CHOOSE i \in Parts : First(i))
  BY <1>7
<1> QED BY <1>8, <1>9 DEF Rank

\* The objections to a response, told by the positions of its first two results.
LEMMA LeadingFacts ==
  ASSUME NEW r
  PROVE  LET D == DOMAIN r.results \cap {1, 2}
             source(i) == r.results[i].source
         IN /\ older_than_asked(r) <=>
                 /\ YearIn[r.query] > 0
                 /\ \E i \in D : DecisionYear[source(i)] > 0
                 /\ \A i \in D : DecisionYear[source(i)] > 0 =>
                                   DecisionYear[source(i)] < YearIn[r.query]
            /\ only_case_law(r) <=>
                 /\ r.query \in AsksEligibility /\ ~r.results[1].exact
                 /\ \A i \in D : TypeOf[source(i)] = "case_law"
            /\ conflicting(r) <=>
                 /\ Len(r.results) >= 2
                 /\ \A i \in D : is_ambiguous_score(r, r.results[i].score)
                 /\ DocOf[source(1)] # DocOf[source(2)]
                 /\ r.results[1].score - r.results[2].score \in -Margin..Margin
BY DEF older_than_asked, only_case_law, conflicting, leading

\* The grade of a response with results, without its reason.
LEMMA GradeOf ==
  ASSUME NEW r \in Retrieval, r.results # <<>>
  PROVE  LET top == r.results[1].score
         IN grade_evidence(r).grade =
              IF outdated(r) \/ only_case_law(r) THEN "ambiguous"
              ELSE IF r.results[1].exact \/ (~conflicting(r) /\ top >= Relevant[kind(r)])
                THEN "relevant"
              ELSE IF conflicting(r) \/ top >= Floor[kind(r)] THEN "ambiguous"
              ELSE "irrelevant"
BY DEF grade_evidence, is_relevant_score, is_ambiguous_score

\* A stronger first result, and any number of denied chunks: the rank does not fall.
LEMMA RaisedNeverWorse ==
  ASSUME NEW r \in Retrieval, r.results # <<>>,
         r.results[1].exact \/ Descending(r.results),
         NEW s \in Int, NEW n \in Nat, s >= r.results[1].score
  PROVE  grade_rank(grade_evidence([r EXCEPT !.results[1].score = s, !.denied = n]))
           >= grade_rank(grade_evidence(r))
<1> DEFINE x == [r EXCEPT !.results[1].score = s, !.denied = n]
           e == grade_evidence(r)
           f == grade_evidence(x)
           top == r.results[1].score
<1>1. r.results \in Seq(Result) /\ r.results[1] \in Result /\ Len(r.results) >= 1
  <2>1. r.results \in Seq(Result)
    BY DEF Retrieval
  <2> QED BY <2>1
<1>2. top \in Int /\ r.results[1].source \in Sources
  BY <1>1 DEF Result
<1>3. /\ x.query = r.query /\ x.method = r.method /\ x.as_of = r.as_of
      /\ x.candidates = r.candidates /\ x.filtered = r.filtered /\ x.denied = n
      /\ x.results = [r.results EXCEPT ![1].score = s]
  BY DEF Retrieval
<1>4. [r.results[1] EXCEPT !.score = s] \in Result
  BY <1>1 DEF Result
<1>5. /\ x.results \in Seq(Result) /\ Len(x.results) = Len(r.results)
      /\ DOMAIN x.results = DOMAIN r.results /\ x.results # <<>>
      /\ x.results[1] = [r.results[1] EXCEPT !.score = s]
      /\ \A i \in DOMAIN r.results : i # 1 => x.results[i] = r.results[i]
  BY <1>1, <1>3, <1>4
<1>6. /\ x.results[1].score = s /\ x.results[1].exact = r.results[1].exact
      /\ x.results[1].source = r.results[1].source
  BY <1>1, <1>5 DEF Result
<1>7. \A i \in DOMAIN r.results : /\ x.results[i].exact = r.results[i].exact
                                  /\ x.results[i].source = r.results[i].source
  BY <1>5, <1>6
<1>8. x \in Retrieval
  BY <1>3, <1>5 DEF Retrieval
<1>9. kind(x) = kind(r)
  BY <1>3 DEF kind
<1> HIDE DEF x
<1>10. /\ outside_validity(x) <=> outside_validity(r)
       /\ older_than_asked(x) <=> older_than_asked(r)
       /\ only_case_law(x) <=> only_case_law(r)
  <2>1. outside_validity(x) <=> outside_validity(r)
    BY <1>3, <1>5, <1>7 DEF outside_validity
  <2>2. older_than_asked(x) <=> older_than_asked(r)
    BY <1>3, <1>5, <1>7, LeadingFacts
  <2>3. only_case_law(x) <=> only_case_law(r)
    <3> DEFINE Case(z) ==
          /\ z.query \in AsksEligibility /\ ~z.results[1].exact
          /\ \A i \in DOMAIN z.results \cap {1, 2} : TypeOf[z.results[i].source] = "case_law"
    <3>1. (only_case_law(x) <=> Case(x)) /\ (only_case_law(r) <=> Case(r))
      BY LeadingFacts
    <3>2. \A i \in DOMAIN r.results : TypeOf[x.results[i].source] = TypeOf[r.results[i].source]
      BY <1>7
    <3> QED BY <1>3, <1>5, <1>6, <3>1, <3>2
  <2> QED BY <2>1, <2>2, <2>3
<1>11. outdated(x) <=> outdated(r)
  BY <1>10 DEF outdated
<1>12. /\ Relevant[kind(r)] \in Nat /\ Floor[kind(r)] \in Nat
       /\ Floor[kind(r)] <= Relevant[kind(r)]
  BY KindAndTop
<1>13. ASSUME ~r.results[1].exact, ~conflicting(r), top >= Relevant[kind(r)]
       PROVE  ~conflicting(x)
  <2>1. SUFFICES ASSUME conflicting(x) PROVE FALSE
    OBVIOUS
  <2> DEFINE second == r.results[2].score
  <2>2. Len(r.results) >= 2 /\ 2 \in DOMAIN r.results /\ 1 \in DOMAIN r.results
    BY <1>1, <1>5, <2>1, LeadingFacts
  <2>3. r.results[2] \in Result
    BY <1>1, <2>2
  <2>4. second \in Int
    BY <2>3 DEF Result
  <2>5. x.results[2] = r.results[2]
    BY <1>5, <2>2
  <2>6. second >= Floor[kind(r)] /\ s - second \in -Margin..Margin
        /\ DocOf[r.results[1].source] # DocOf[r.results[2].source]
    <3>1. /\ is_ambiguous_score(x, second) /\ s - second \in -Margin..Margin
          /\ DocOf[x.results[1].source] # DocOf[x.results[2].source]
      BY <1>5, <1>6, <2>1, <2>2, <2>5, LeadingFacts
    <3> QED BY <1>6, <1>9, <2>5, <3>1 DEF is_ambiguous_score
  <2>7. top >= second
    BY <1>13, <2>2 DEF Descending
  <2>8. top - second \in -Margin..Margin
    BY <1>2, <2>4, <2>6, <2>7, GradingAssumption
  <2>9. \A i \in DOMAIN r.results \cap {1, 2} : is_ambiguous_score(r, r.results[i].score)
    BY <1>2, <1>12, <1>13, <2>6 DEF is_ambiguous_score
  <2> QED BY <1>13, <2>2, <2>6, <2>8, <2>9, LeadingFacts
<1>14. conflicting(r) => top >= Floor[kind(r)]
  <2>1. 1 \in DOMAIN r.results \cap {1, 2}
    BY <1>1
  <2> QED BY <2>1, LeadingFacts DEF is_ambiguous_score
<1>15. e \in Evidence /\ f \in Evidence
  BY <1>8, GradeFacts
<1>16. /\ e.grade \in {"relevant", "ambiguous", "irrelevant"}
       /\ f.grade \in {"relevant", "ambiguous", "irrelevant"}
  BY <1>15 DEF Evidence
<1>17. /\ e.grade = "relevant" => f.grade = "relevant"
       /\ e.grade = "ambiguous" => f.grade # "irrelevant"
  <2>1. e.grade = IF outdated(r) \/ only_case_law(r) THEN "ambiguous"
                  ELSE IF r.results[1].exact \/ (~conflicting(r) /\ top >= Relevant[kind(r)])
                    THEN "relevant"
                  ELSE IF conflicting(r) \/ top >= Floor[kind(r)] THEN "ambiguous"
                  ELSE "irrelevant"
    BY GradeOf
  <2>2. f.grade = IF outdated(r) \/ only_case_law(r) THEN "ambiguous"
                  ELSE IF r.results[1].exact \/ (~conflicting(x) /\ s >= Relevant[kind(r)])
                    THEN "relevant"
                  ELSE IF conflicting(x) \/ s >= Floor[kind(r)] THEN "ambiguous"
                  ELSE "irrelevant"
    BY <1>5, <1>6, <1>8, <1>9, <1>10, <1>11, GradeOf
  <2> HIDE DEF e, f
  <2> QED BY <1>2, <1>12, <1>13, <1>14, <2>1, <2>2
<1> HIDE DEF e, f
<1>18. grade_rank(f) >= grade_rank(e)
  BY <1>16, <1>17 DEF grade_rank
<1> QED BY <1>18 DEF e, f, x

-----------------------------------------------------------------------------
(* The request and its calls.                                              *)

LEMMA RequestFacts ==
  ASSUME TypeOK
  PROVE  /\ req \in Request /\ req.query \in Queries
         /\ req.role \in Roles /\ req.scope \in Scopes
         /\ req.method \in Methods \cup {NoMethod}
         /\ effective_as_of_date \in Dates \cup {NoDate}
         /\ queries \in Seq(Queries)
         /\ strategy \in {"decomposition", "structured_identifier", "none"}
         /\ strategy = "decomposition" => Len(queries) >= 2 /\ ~plan(req.query).force
<1>1. req \in Request
  BY AgentAssumption DEF TypeOK
<1>2. /\ req.query \in Queries /\ req.role \in Roles /\ req.scope \in Scopes
      /\ req.method \in Methods \cup {NoMethod} /\ req.as_of \in Dates \cup {NoDate}
  BY <1>1 DEF Request
<1>3. effective_as_of_date \in Dates \cup {NoDate}
  BY <1>2, AgentAssumption DEF effective_as_of_date
<1> QED BY <1>1, <1>2, <1>3, PlanFacts DEF queries, strategy

\* The retries: the first of the queries, no more than the limit.
LEMMA FocusedFacts ==
  ASSUME TypeOK
  PROVE  /\ focused \in Seq(Queries) /\ Len(focused) <= MaxRetries
         /\ Len(focused) <= Len(queries)
         /\ \A i \in 1..Len(focused) : focused[i] = queries[i]
<1> DEFINE n == IF Len(queries) < MaxRetries THEN Len(queries) ELSE MaxRetries
<1>1. queries \in Seq(Queries) /\ Len(queries) \in Nat /\ MaxRetries \in Nat
  BY RequestFacts, AgentAssumption
<1>2. n \in 0..Len(queries) /\ n <= MaxRetries
  BY <1>1
<1>3. focused = SubSeq(queries, 1, n)
  BY Zenon DEF focused
<1> HIDE DEF n
<1> QED BY <1>1, <1>2, <1>3

\* Every call that answer makes is in the scope of the request.
LEMMA CallFacts ==
  ASSUME TypeOK, NEW method \in Methods \cup {NoMethod}, NEW q,
         q = req.query \/ \E i \in DOMAIN queries : q = queries[i]
  PROVE  /\ CallFor(q, method, effective_as_of_date) \in Call
         /\ InScope(CallFor(q, method, effective_as_of_date))
<1> DEFINE as_of == effective_as_of_date
           c == CallFor(q, method, as_of)
<1>1. /\ req.query \in Queries /\ req.role \in Roles /\ req.scope \in Scopes
      /\ as_of \in Dates \cup {NoDate} /\ queries \in Seq(Queries)
  BY RequestFacts
<1>2. q \in Queries
  BY <1>1
<1>3. as_of = NoDate => DateIn[q] = NoDate
  <2>1. as_of = NoDate => DateIn[req.query] = NoDate
    BY DEF effective_as_of_date
  <2> QED BY <1>1, <2>1, PlanFacts DEF queries
<1>4. q = req.query \/ strategy = "decomposition" \/ q \in NamesIdentifier
  BY <1>1, PlanFacts DEF queries, strategy
<1> HIDE DEF as_of
<1>5. /\ c.query = q /\ c.role = req.role /\ c.scope = req.scope /\ c.as_of = as_of
      /\ c = [query |-> q, role |-> req.role, scope |-> req.scope,
              method |-> IF method = NoMethod THEN DefaultMethod ELSE method, as_of |-> as_of]
  BY <1>3 DEF CallFor
<1>6. c \in Call
  BY <1>1, <1>2, <1>5, AgentAssumption DEF Call
<1>7. InScope(c)
  BY <1>4, <1>5 DEF InScope, as_of
<1> QED BY <1>6, <1>7 DEF as_of

\* What is true of a retrieval depends on the request alone.
LEMMA ScopeKept ==
  ASSUME req' = req
  PROVE  /\ strategy' = strategy /\ queries' = queries /\ focused' = focused
         /\ effective_as_of_date' = effective_as_of_date
         /\ \A x : Sound(x)' <=> Sound(x)
<1>1. /\ strategy' = strategy /\ queries' = queries
      /\ effective_as_of_date' = effective_as_of_date
  BY DEF strategy, queries, effective_as_of_date
<1>2. focused' = focused
  BY <1>1 DEF focused
<1>3. \A x : Sound(x)' <=> Sound(x)
  BY <1>1 DEF Sound, InScope
<1> QED BY <1>1, <1>2, <1>3

\* A retrieval for a call in scope is sound.
LEMMA RetrieveFacts ==
  ASSUME TypeOK, NEW c \in Call, InScope(c), retrieve(c)
  PROVE  found' \in [call: Call, response: Retrieval] /\ Sound(found')
<1>1. PICK p \in Profiles[req] :
        /\ found' = [call |-> c, response |-> Response(c, p)]
        /\ Possible(c, p)
  BY DEF retrieve
<1>2. p \in Profile
  BY AgentAssumption DEF TypeOK
<1>3. Response(c, p) \in Retrieval
  BY <1>2 DEF Response, Retrieval, Profile, Call
<1>4. \/ p.results = <<>> \/ p.results[1].exact \/ Descending(p.results)
  <2>1. SUFFICES ASSUME p.results # <<>>, ~p.results[1].exact PROVE Descending(p.results)
    OBVIOUS
  <2>2. p.results \in Seq(Result)
    BY <1>2 DEF Profile
  <2>3. 1 \in DOMAIN p.results
    BY <2>1, <2>2
  <2> QED BY <1>1, <2>1, <2>3 DEF Possible
<1>5. /\ found'.call = c /\ found'.response = Response(c, p)
      /\ Response(c, p).query = c.query /\ Response(c, p).as_of = c.as_of
      /\ Response(c, p).results = p.results
  BY <1>1 DEF Response
<1> QED BY <1>1, <1>3, <1>4, <1>5 DEF Sound

-----------------------------------------------------------------------------
(* The steps.                                                              *)

LEMMA UnderstandStep ==
  ASSUME IInv, Understand
  PROVE  IInv'
<1>1. /\ phase = "received" /\ phase' \in {"failed", "retrieve"}
      /\ req' = req /\ found' = found /\ attempts' = attempts /\ best' = best /\ final' = final
      /\ trace' \in {trace, <<"understood">>, <<"understood", "transformed">>}
  BY DEF Understand
<1>2. attempts = <<>> /\ final = NoAnswer
  BY <1>1 DEF IInv, Control, Outcome
<1>3. TypeOK'
  <2>1. <<"understood">> \in Seq(States) /\ <<"understood", "transformed">> \in Seq(States)
    BY DEF States
  <2>2. trace' \in Seq(States)
    BY <1>1, <2>1 DEF IInv, TypeOK
  <2> QED BY <1>1, <2>2 DEF IInv, TypeOK, Terminal
<1>4. Control'
  <2>1. strategy = "decomposition" => Len(queries) > 0
    BY RequestFacts DEF IInv
  <2> QED BY <1>1, <1>2, <2>1, ScopeKept DEF Control
<1>5. Evidenced' /\ Chosen' /\ Outcome'
  BY <1>1, <1>2 DEF Evidenced, Chosen, Outcome, Parts
<1> QED BY <1>3, <1>4, <1>5 DEF IInv

LEMMA RetrieveStep ==
  ASSUME IInv, phase = "retrieve", NEW c \in Call, InScope(c), Retrieve(c)
  PROVE  IInv'
<1>1. /\ phase' \in {"failed", "grade"} /\ trace' = Append(trace, "retrieved")
      /\ req' = req /\ attempts' = attempts /\ best' = best /\ final' = final
      /\ phase' = "failed" => found' = found
      /\ phase' = "grade" => retrieve(c)
  BY DEF Retrieve
<1>2. phase' = "grade" => found' \in [call: Call, response: Retrieval] /\ Sound(found')
  BY <1>1, RetrieveFacts DEF IInv
<1>3. TypeOK'
  <2>1. trace' \in Seq(States)
    BY <1>1 DEF IInv, TypeOK, States
  <2> QED BY <1>1, <1>2, <2>1 DEF IInv, TypeOK, Terminal
<1>4. Control'
  BY <1>1, <1>2, ScopeKept DEF IInv, Control, weak, is_relevant
<1>5. Evidenced' /\ Chosen'
  BY <1>1, ScopeKept DEF IInv, Evidenced, Chosen, Parts, NotBeaten
<1>6. Outcome'
  BY <1>1 DEF IInv, Outcome
<1> QED BY <1>3, <1>4, <1>5, <1>6 DEF IInv

LEMMA GradedFacts ==
  ASSUME IInv, phase = "grade"
  PROVE  /\ Graded \in Attempt /\ Sound(Graded)
         /\ Graded.evidence = grade_evidence(Graded.response)
         /\ Graded.evidence \in Evidence
<1>1. found \in [call: Call, response: Retrieval] /\ Sound(found)
  BY DEF IInv, Control
<1>2. grade_evidence(found.response) \in Evidence
  BY <1>1, GradeFacts
<1> QED BY <1>1, <1>2 DEF Graded, Attempt, Sound

\* The better of two attempts is one of them, and neither beats it.
LEMMA BetterFacts ==
  ASSUME NEW a \in Attempt, NEW b \in Attempt
  PROVE  LET c == choose_better_response(a, b)
         IN /\ c \in {a, b}
            /\ NotBeaten(b.evidence, c.evidence)
            /\ \A e \in Evidence : NotBeaten(e, a.evidence) => NotBeaten(e, c.evidence)
<1>1. /\ a.evidence \in Evidence /\ b.evidence \in Evidence
  BY DEF Attempt
<1>2. \A e \in Evidence : grade_rank(e) \in 1..3 /\ e.top_score \in Int
  BY RankFacts DEF Evidence
<1> QED BY <1>1, <1>2 DEF choose_better_response, NotBeaten

LEMMA GradeStep ==
  ASSUME IInv, Grade
  PROVE  IInv'
<1>1. /\ phase = "grade" /\ req' = req /\ final' = final /\ found' = NoRetrieval
      /\ trace' = Append(trace, "graded") /\ attempts' = Append(attempts, Graded)
      /\ best' = IF attempts = <<>> THEN Graded ELSE choose_better_response(best, Graded)
      /\ phase' = IF CallsLeft(Len(attempts) + 1) THEN "retrieve" ELSE "decide"
  BY DEF Grade
<1>2. attempts \in Seq(Attempt) /\ Len(attempts) \in Nat
  BY DEF IInv, TypeOK
<1>3. Graded \in Attempt
  BY <1>1, GradedFacts
<1>4. /\ attempts' \in Seq(Attempt) /\ Len(attempts') = Len(attempts) + 1 /\ attempts' # <<>>
      /\ attempts'[Len(attempts) + 1] = Graded
      /\ \A i \in 1..Len(attempts) : attempts'[i] = attempts[i]
  BY <1>1, <1>2, <1>3
<1>5. best' \in Attempt
  BY <1>1, <1>3, BetterFacts DEF IInv, Control
<1>6. TypeOK'
  <2>1. trace' \in Seq(States)
    BY <1>1 DEF IInv, TypeOK, States
  <2> QED BY <1>1, <1>4, <1>5, <2>1 DEF IInv, TypeOK
<1>7. Control'
  <2>1. queries \in Seq(Queries) /\ focused \in Seq(Queries)
    BY RequestFacts, FocusedFacts DEF IInv
  <2>2. IF strategy = "decomposition" THEN Len(attempts) < Len(queries)
        ELSE attempts # <<>> => Len(attempts) <= Len(focused)
    BY <1>1 DEF IInv, Control
  <2>3. phase' = "retrieve" =>
          IF strategy = "decomposition" THEN Len(attempts') < Len(queries)
          ELSE Len(attempts') > 1 /\ Len(attempts') <= Len(focused)
    BY <1>1, <1>4 DEF CallsLeft
  <2>4. phase' = "decide" =>
          IF strategy = "decomposition" THEN Len(attempts') = Len(queries)
          ELSE Len(attempts') <= 1 + Len(focused)
    <3>1. phase' = "decide" => ~CallsLeft(Len(attempts) + 1)
      BY <1>1
    <3>2. attempts = <<>> => Len(attempts) = 0
      OBVIOUS
    <3> QED BY <1>2, <1>4, <2>1, <2>2, <3>1, <3>2 DEF CallsLeft
  <2>5. strategy # "decomposition" /\ Len(attempts') > 1 => weak(1)'
    <3>1. Len(attempts') > 1 => attempts # <<>> /\ attempts'[1] = attempts[1]
      BY <1>2, <1>4
    <3>2. strategy # "decomposition" /\ attempts # <<>> => weak(1)
      BY <1>1 DEF IInv, Control
    <3> QED BY <3>1, <3>2 DEF weak, is_relevant
  <2>6. phase' \in {"retrieve", "decide"}
    BY <1>1
  <2> QED BY <1>4, <1>5, <2>3, <2>4, <2>5, <2>6, ScopeKept, <1>1 DEF Control
<1>8. Evidenced'
  <2>1. Sound(Graded) /\ Graded.evidence = grade_evidence(Graded.response)
    BY <1>1, GradedFacts
  <2>2. \A i \in 1..Len(attempts) :
          Sound(attempts[i]) /\ attempts[i].evidence = grade_evidence(attempts[i].response)
    BY <1>2 DEF IInv, Evidenced, Parts
  <2>3. ASSUME NEW i \in DOMAIN attempts'
        PROVE  Sound(attempts'[i]) /\ attempts'[i].evidence = grade_evidence(attempts'[i].response)
    <3>1. i \in 1..Len(attempts) \/ i = Len(attempts) + 1
      BY <1>2, <1>4
    <3> QED BY <1>4, <2>1, <2>2, <3>1
  <2> QED BY <1>1, <2>3, ScopeKept DEF Evidenced, Parts
<1>9. Chosen'
  <2>1. DOMAIN attempts' = 1..(Len(attempts) + 1) /\ Parts = 1..Len(attempts)
    BY <1>2, <1>4 DEF Parts
  <2>2. CASE attempts = <<>>
    <3>1. best' = Graded /\ DOMAIN attempts' = {1} /\ attempts'[1] = Graded
      BY <1>1, <1>4, <2>1, <2>2
    <3>2. NotBeaten(Graded.evidence, Graded.evidence)
      BY <1>1, GradedFacts, RankFacts DEF NotBeaten, Evidence
    <3> QED BY <3>1, <3>2 DEF Chosen, Parts, NotBeaten
  <2>3. CASE attempts # <<>>
    <3>1. /\ best \in Attempt /\ best' = choose_better_response(best, Graded)
          /\ \E i \in Parts : attempts[i] = best
          /\ \A i \in Parts : NotBeaten(attempts[i].evidence, best.evidence)
      BY <1>1, <2>3 DEF IInv, Control, Chosen
    <3>2. \E i \in DOMAIN attempts' : attempts'[i] = best'
      <4>1. PICK k \in Parts : attempts[k] = best
        BY <3>1
      <4>2. k \in DOMAIN attempts' /\ attempts'[k] = best
        BY <1>2, <1>4, <2>1, <4>1
      <4>3. best' \in {best, Graded}
        BY <1>3, <3>1, BetterFacts
      <4>4. Len(attempts) + 1 \in DOMAIN attempts'
        BY <1>2, <2>1
      <4> QED BY <1>4, <4>2, <4>3, <4>4
    <3>3. ASSUME NEW i \in DOMAIN attempts' PROVE NotBeaten(attempts'[i].evidence, best'.evidence)
      <4>1. CASE i = Len(attempts) + 1
        BY <1>3, <1>4, <3>1, <4>1, BetterFacts
      <4>2. CASE i \in Parts
        <5>1. attempts[i] \in Attempt
          BY <1>2, <4>2 DEF Parts
        <5>2. attempts[i].evidence \in Evidence /\ attempts'[i] = attempts[i]
          BY <1>4, <2>1, <4>2, <5>1 DEF Attempt
        <5> QED BY <1>3, <3>1, <4>2, <5>2, BetterFacts
      <4> QED BY <1>2, <2>1, <4>1, <4>2
    <3> QED BY <3>2, <3>3 DEF Chosen, Parts, NotBeaten
  <2> QED BY <2>2, <2>3
<1>10. Outcome'
  BY <1>1 DEF IInv, Outcome
<1> QED BY <1>6, <1>7, <1>8, <1>9, <1>10 DEF IInv

LEMMA RetryStep ==
  ASSUME IInv, Retry
  PROVE  IInv'
<1>1. /\ phase = "decide" /\ phase' = "retrieve" /\ trace' = Append(trace, "retrying")
      /\ req' = req /\ found' = found /\ attempts' = attempts /\ best' = best /\ final' = final
      /\ strategy = "structured_identifier" /\ focused # <<>> /\ Len(attempts) = 1
      /\ ~is_relevant(best)
  BY DEF Retry, Retryable
<1>2. TypeOK'
  <2>1. trace' \in Seq(States)
    BY <1>1 DEF IInv, TypeOK, States
  <2> QED BY <1>1, <2>1 DEF IInv, TypeOK
<1>3. Control'
  <2>1. focused \in Seq(Queries) /\ attempts \in Seq(Attempt)
    BY FocusedFacts DEF IInv, TypeOK
  <2>2. Len(attempts) <= Len(focused)
    BY <1>1, <2>1
  <2>3. weak(1)
    <3>1. attempts # <<>>
      BY <1>1
    <3>2. \E i \in Parts : attempts[i] = best
      BY <3>1 DEF IInv, Chosen
    <3> QED BY <1>1, <2>1, <3>2 DEF Parts, weak
  <2> QED BY <1>1, <2>2, <2>3, ScopeKept DEF IInv, Control, weak, is_relevant
<1>4. Evidenced' /\ Chosen'
  BY <1>1, ScopeKept DEF IInv, Evidenced, Chosen, Parts, NotBeaten
<1>5. Outcome'
  BY <1>1 DEF IInv, Outcome
<1> QED BY <1>2, <1>3, <1>4, <1>5 DEF IInv

-----------------------------------------------------------------------------
(* The decision.                                                           *)

\* What has been retrieved when the request is decided upon.
LEMMA DecideFacts ==
  ASSUME IInv, phase = "decide"
  PROVE  /\ attempts # <<>> /\ best \in Attempt
         /\ strategy = "decomposition" => Len(attempts) = Len(queries)
         /\ \A i \in Parts :
              /\ attempts[i] \in Attempt /\ attempts[i].response \in Retrieval
              /\ attempts[i].evidence \in Evidence
              /\ attempts[i].evidence = grade_evidence(attempts[i].response)
              /\ weak(i) <=> ~is_relevant(attempts[i])
              /\ ~weak(i) => cited(attempts[i].response) # {}
<1>1. attempts \in Seq(Attempt) /\ queries \in Seq(Queries)
  BY RequestFacts DEF IInv, TypeOK
<1>2. strategy = "decomposition" => Len(attempts) = Len(queries) /\ Len(queries) >= 2
  BY RequestFacts DEF IInv, Control
<1>3. attempts # <<>>
  BY <1>1, <1>2 DEF IInv, Control
<1>4. ASSUME NEW i \in Parts
      PROVE  /\ attempts[i] \in Attempt /\ attempts[i].response \in Retrieval
             /\ attempts[i].evidence \in Evidence
             /\ attempts[i].evidence = grade_evidence(attempts[i].response)
             /\ weak(i) <=> ~is_relevant(attempts[i])
             /\ ~weak(i) => cited(attempts[i].response) # {}
  <2>1. attempts[i] \in Attempt
    BY <1>1 DEF Parts
  <2>2. attempts[i].response \in Retrieval /\ attempts[i].evidence \in Evidence
    BY <2>1 DEF Attempt
  <2>3. attempts[i].evidence = grade_evidence(attempts[i].response)
    BY DEF IInv, Evidenced
  <2>4. ~weak(i) => cited(attempts[i].response) # {}
    BY <2>2, <2>3, GradeFacts, CitedFacts DEF weak, is_relevant
  <2> QED BY <2>1, <2>2, <2>3, <2>4 DEF weak
<1> QED BY <1>2, <1>3, <1>4 DEF IInv, Control

\* Whatever the response says of the attempts, making it changes nothing else.
LEMMA FinishStep ==
  ASSUME IInv, phase = "decide",
         NEW outcome \in {"answered", "refused"},
         NEW grade \in {"relevant", "ambiguous", "irrelevant"}, NEW reason \in Reasons,
         NEW sources \in SUBSET Sources, NEW labelled \in BOOLEAN,
         Finalize(outcome, grade, reason, sources, labelled),
         strategy # "decomposition" => grade = best.evidence.grade,
         outcome = "answered" =>
           /\ Supported /\ grade = "relevant" /\ sources # {}
           /\ \A s \in sources : \E i \in Parts :
                ~weak(i) /\ s \in cited(attempts[i].response),
         outcome = "refused" =>
           /\ ~Supported /\ grade # "relevant" /\ reason # "none"
           /\ \E i \in Parts : reason = attempts[i].evidence.reason
  PROVE  IInv'
<1>1. /\ phase' = outcome /\ trace' = Append(trace, outcome)
      /\ final' = [outcome |-> outcome, grade |-> grade, reason |-> reason,
                   sources |-> sources, labelled |-> labelled]
      /\ req' = req /\ found' = found /\ attempts' = attempts /\ best' = best
  BY DEF Finalize
<1>2. final' \in Answer
  BY <1>1 DEF Answer
<1>3. TypeOK'
  <2>1. trace' \in Seq(States)
    BY <1>1 DEF IInv, TypeOK, States
  <2> QED BY <1>1, <1>2, <2>1 DEF IInv, TypeOK, Terminal
<1>4. Control'
  <2>1. phase' \notin {"received", "retrieve", "grade", "decide"}
    BY <1>1
  <2>2. /\ weak(1)' <=> weak(1)
    BY <1>1 DEF weak, is_relevant
  <2> QED BY <1>1, <2>1, <2>2, ScopeKept DEF IInv, Control
<1>5. Evidenced' /\ Chosen'
  BY <1>1, ScopeKept DEF IInv, Evidenced, Chosen, Parts, NotBeaten
<1>6. Outcome'
  <2>1. Supported' <=> Supported
    BY <1>1, ScopeKept DEF Supported, Parts, weak, is_relevant
  <2>2. /\ final'.outcome = outcome /\ final'.grade = grade
        /\ final'.reason = reason /\ final'.sources = sources
    BY <1>1
  <2>3. Parts' = Parts /\ \A i : weak(i)' <=> weak(i)
    BY <1>1 DEF Parts, weak, is_relevant
  <2> QED BY <1>1, <1>2, <2>1, <2>2, <2>3, ScopeKept DEF Outcome
<1> QED BY <1>3, <1>4, <1>5, <1>6 DEF IInv

LEMMA AnswerPartsStep ==
  ASSUME IInv, AnswerParts
  PROVE  IInv'
<1> DEFINE sources == UNION {cited(attempts[i].response) : i \in Parts}
<1>1. /\ phase = "decide" /\ strategy = "decomposition"
      /\ \A i \in Parts : is_relevant(attempts[i])
      /\ Finalize("answered", "relevant", "none", sources, FALSE)
  BY DEF AnswerParts
<1>2. \A i \in Parts : ~weak(i) /\ cited(attempts[i].response) # {}
                       /\ cited(attempts[i].response) \subseteq Sources
  BY <1>1, DecideFacts, CitedFacts
<1>3. Supported
  BY <1>1, <1>2, DecideFacts DEF Supported
<1>4. 1 \in Parts
  BY <1>1, DecideFacts DEF Parts, IInv, TypeOK
<1>5. sources \in SUBSET Sources /\ sources # {}
  BY <1>2, <1>4
<1>6. \A s \in sources : \E i \in Parts : ~weak(i) /\ s \in cited(attempts[i].response)
  BY <1>2
<1> HIDE DEF sources
<1> QED BY <1>1, <1>3, <1>5, <1>6, FinishStep DEF Reasons

LEMMA RefusePartsStep ==
  ASSUME IInv, RefuseParts
  PROVE  IInv'
<1> DEFINE grade == IF "ambiguous" \in grades THEN "ambiguous" ELSE "irrelevant"
<1>1. /\ phase = "decide" /\ strategy = "decomposition"
      /\ \E i \in Parts : ~is_relevant(attempts[i])
      /\ Finalize("refused", grade, worst.evidence.reason, cited(worst.response), TRUE)
  BY DEF RefuseParts
<1>2. PICK k \in Parts : /\ worst = attempts[k]
                         /\ \A j \in Parts : grade_rank(attempts[k].evidence)
                                               <= grade_rank(attempts[j].evidence)
  BY <1>1, DecideFacts, WorstFacts DEF IInv, TypeOK
<1>3. PICK j \in Parts : ~is_relevant(attempts[j])
  BY <1>1
<1>4. attempts[k].evidence.grade # "relevant"
  <2>1. attempts[k].evidence \in Evidence /\ attempts[j].evidence \in Evidence
    BY <1>1, DecideFacts
  <2> QED BY <1>2, <1>3, <2>1, RankFacts DEF is_relevant
<1>5. /\ worst.response \in Retrieval /\ worst.evidence = grade_evidence(worst.response)
      /\ worst.evidence.reason = attempts[k].evidence.reason
  BY <1>1, <1>2, DecideFacts
<1>6. worst.evidence.reason \in Reasons \ {"none"}
  BY <1>2, <1>4, <1>5, GradeFacts DEF Evidence
<1>7. ~Supported
  BY <1>1, <1>3, DecideFacts DEF Supported
<1>8. cited(worst.response) \in SUBSET Sources
  BY <1>5, CitedFacts
<1>9. grade \in {"ambiguous", "irrelevant"}
  OBVIOUS
<1> HIDE DEF grade
<1> QED BY <1>1, <1>5, <1>6, <1>7, <1>8, <1>9, FinishStep

LEMMA AnswerBestStep ==
  ASSUME IInv, AnswerBest
  PROVE  IInv'
<1>1. /\ phase = "decide" /\ strategy # "decomposition" /\ is_relevant(best)
      /\ Finalize("answered", "relevant", "none", cited(best.response), TRUE)
  BY DEF AnswerBest
<1>2. PICK k \in Parts : attempts[k] = best
  BY <1>1, DecideFacts DEF IInv, Chosen
<1>3. ~weak(k) /\ best.response \in Retrieval /\ cited(best.response) # {}
  BY <1>1, <1>2, DecideFacts
<1>4. Supported
  BY <1>1, <1>3 DEF Supported
<1>5. cited(best.response) \in SUBSET Sources
  BY <1>3, CitedFacts
<1>6. \A s \in cited(best.response) : \E i \in Parts :
        ~weak(i) /\ s \in cited(attempts[i].response)
  BY <1>2, <1>3
<1> QED BY <1>1, <1>3, <1>4, <1>5, <1>6, FinishStep DEF Reasons, is_relevant

LEMMA RefuseBestStep ==
  ASSUME IInv, RefuseBest
  PROVE  IInv'
<1>1. /\ phase = "decide" /\ strategy # "decomposition" /\ ~is_relevant(best)
      /\ Finalize("refused", best.evidence.grade, best.evidence.reason,
                  cited(best.response), TRUE)
  BY DEF RefuseBest
<1>2. PICK k \in Parts : attempts[k] = best
  BY <1>1, DecideFacts DEF IInv, Chosen
<1>3. /\ best.response \in Retrieval /\ best.evidence \in Evidence
      /\ best.evidence = grade_evidence(best.response) /\ best.evidence.grade # "relevant"
  BY <1>1, <1>2, DecideFacts DEF is_relevant
<1>4. best.evidence.reason \in Reasons \ {"none"}
  BY <1>3, GradeFacts DEF Evidence
<1>5. ASSUME NEW i \in Parts PROVE weak(i)
  <2>1. attempts[i].evidence \in Evidence /\ (weak(i) <=> attempts[i].evidence.grade # "relevant")
    BY <1>1, DecideFacts DEF is_relevant
  <2>2. NotBeaten(attempts[i].evidence, best.evidence)
    BY <1>1, DecideFacts DEF IInv, Chosen
  <2>3. grade_rank(attempts[i].evidence) <= grade_rank(best.evidence)
    BY <1>3, <2>1, <2>2, RankFacts DEF NotBeaten
  <2> QED BY <1>3, <2>1, <2>3, RankFacts
<1>6. ~Supported
  BY <1>1, <1>5 DEF Supported
<1>7. cited(best.response) \in SUBSET Sources
  BY <1>3, CitedFacts
<1>8. best.evidence.grade \in {"relevant", "ambiguous", "irrelevant"}
  BY <1>3 DEF Evidence
<1>9. \E i \in Parts : best.evidence.reason = attempts[i].evidence.reason
  BY <1>2
<1> QED BY <1>1, <1>3, <1>4, <1>6, <1>7, <1>8, <1>9, FinishStep

-----------------------------------------------------------------------------
(* The theorems.                                                           *)

\* Each of the three calls is in the scope of the request: there is a part left to
\* retrieve, a rewrite to start with, or a focused query to retry with.
LEMMA AskStep ==
  ASSUME IInv, RetrievePart \/ RetrieveInitial \/ RetrieveFocused
  PROVE  IInv'
<1>1. TypeOK /\ phase = "retrieve"
  BY DEF IInv, RetrievePart, RetrieveInitial, RetrieveFocused
<1>2. /\ queries \in Seq(Queries) /\ focused \in Seq(Queries) /\ attempts \in Seq(Attempt)
      /\ req.method \in Methods \cup {NoMethod}
  BY <1>1, RequestFacts, FocusedFacts DEF TypeOK
<1>3. IF strategy = "decomposition" THEN Len(attempts) < Len(queries)
      ELSE attempts # <<>> => Len(attempts) <= Len(focused)
  BY <1>1 DEF IInv, Control
<1>4. CASE RetrievePart
  <2>1. Retrieve(part_call) /\ Len(attempts) + 1 \in DOMAIN queries
    BY <1>2, <1>3, <1>4 DEF RetrievePart
  <2>2. part_call \in Call /\ InScope(part_call)
    BY <1>1, <1>2, <2>1, CallFacts DEF part_call, Methods
  <2> QED BY <1>1, <2>1, <2>2, RetrieveStep
<1>5. CASE RetrieveInitial
  <2>1. Retrieve(initial_call)
    BY <1>5 DEF RetrieveInitial
  <2>2. plan(req.query).force => 1 \in DOMAIN queries
    BY <1>1, <1>2, RequestFacts, PlanFacts DEF queries
  <2>3. initial_call \in Call /\ InScope(initial_call)
    BY <1>1, <1>2, <2>2, CallFacts DEF initial_call, Methods
  <2> QED BY <1>1, <2>1, <2>3, RetrieveStep
<1>6. CASE RetrieveFocused
  <2>1. Retrieve(focused_call) /\ Len(attempts) \in 1..Len(focused)
    BY <1>2, <1>3, <1>6 DEF RetrieveFocused
  <2>2. \E i \in DOMAIN queries : focused[Len(attempts)] = queries[i]
    BY <1>1, <1>2, <2>1, FocusedFacts
  <2>3. focused_call \in Call /\ InScope(focused_call)
    BY <1>1, <2>2, CallFacts DEF focused_call, Methods
  <2> QED BY <1>1, <2>1, <2>3, RetrieveStep
<1> QED BY <1>4, <1>5, <1>6

\* The inductive invariant: the call in flight and every attempt are in the scope of
\* the request, and what was graded decides what is answered (control.py:170-383).
THEOREM InductiveInvariant == Steps => []IInv
<1>1. Init => IInv
  BY DEF Init, IInv, TypeOK, Control, Evidenced, Chosen, Outcome, Parts
<1>2. IInv /\ [Next]_vars => IInv'
  <2>1. SUFFICES ASSUME IInv, [Next]_vars PROVE IInv'
    OBVIOUS
  <2>2. CASE Understand
    BY <2>1, <2>2, UnderstandStep
  <2>3. CASE RetrievePart \/ RetrieveInitial \/ RetrieveFocused
    BY <2>1, <2>3, AskStep
  <2>4. CASE Grade
    BY <2>1, <2>4, GradeStep
  <2>5. CASE Retry
    BY <2>1, <2>5, RetryStep
  <2>6. CASE AnswerParts
    BY <2>1, <2>6, AnswerPartsStep
  <2>7. CASE RefuseParts
    BY <2>1, <2>7, RefusePartsStep
  <2>8. CASE AnswerBest
    BY <2>1, <2>8, AnswerBestStep
  <2>9. CASE RefuseBest
    BY <2>1, <2>9, RefuseBestStep
  <2>10. CASE UNCHANGED vars
    <3>1. /\ phase' = phase /\ req' = req /\ found' = found /\ attempts' = attempts
          /\ best' = best /\ trace' = trace /\ final' = final
      BY <2>10 DEF vars
    <3>2. TypeOK' /\ Control'
      BY <2>1, <3>1, ScopeKept DEF IInv, TypeOK, Control, weak, is_relevant
    <3>3. Evidenced' /\ Chosen'
      BY <2>1, <3>1, ScopeKept DEF IInv, Evidenced, Chosen, Parts, NotBeaten
    <3>4. Outcome'
      BY <2>1, <3>1, ScopeKept DEF IInv, Outcome, Supported, Parts, weak, is_relevant
    <3> QED BY <3>2, <3>3, <3>4 DEF IInv
  <2> QED BY <2>1, <2>2, <2>3, <2>4, <2>5, <2>6, <2>7, <2>8, <2>9, <2>10
          DEF Next, Answering, Rest
<1> QED BY <1>1, <1>2, PTL DEF Steps

\* The variables of a request keep their types: whatever is graded is a response to a
\* call that RetrievalRequest could hold.
THEOREM TypeCorrect == Steps => []TypeOK
<1>1. IInv => TypeOK
  BY DEF IInv
<1> QED BY <1>1, InductiveInvariant, PTL

\* Parts and retries are retrieved for the role, the scope and the date of the request,
\* because no part, identifier or rewrite shows a date that the query does not
\* (control.py:181, 203-211, 320-328).
THEOREM ScopeIsKept == Steps => []OneScopePerAnswer
<1>1. IInv => OneScopePerAnswer
  BY DEF IInv, Evidenced, Sound, InScope, OneScopePerAnswer
<1> QED BY <1>1, InductiveInvariant, PTL

\* Answers rest on relevant evidence and cite it; refusals mean that there was none
\* (control.py:57-152, 290-304, 350-383).
THEOREM AnswersAreSupported == Steps => []AnswersRestOnEvidence
<1>1. ASSUME IInv PROVE AnswersRestOnEvidence
  <2>1. final # NoAnswer => (final.outcome = "answered" <=> final.grade = "relevant")
    BY <1>1 DEF IInv, Outcome
  <2>2. /\ phase = "answered" =>
             /\ Supported /\ final.sources # {}
             /\ \A s \in final.sources : \E i \in Parts :
                  ~weak(i) /\ s \in cited(attempts[i].response)
        /\ phase = "refused" => ~Supported /\ final.reason # "none"
    BY <1>1 DEF IInv, Outcome
  <2> QED BY <2>1, <2>2 DEF AnswersRestOnEvidence, Supported
<1> QED BY <1>1, InductiveInvariant, PTL

\* _choose_better_response keeps the best of the attempts, of which there is at most one
\* more than max_retry_attempts (control.py:44-54, 306-348).
THEOREM BestIsChosen == Steps => []BestAttemptDecides
<1>1. ASSUME IInv PROVE BestAttemptDecides
  <2>1. SUFFICES ASSUME phase \in {"answered", "refused"}, strategy # "decomposition"
                 PROVE  /\ Len(attempts) <= 1 + MaxRetries
                        /\ Len(attempts) > 1 => weak(1)
                        /\ \E i \in Parts : attempts[i] = best
                        /\ final.grade = best.evidence.grade
                        /\ \A i \in Parts : NotBeaten(attempts[i].evidence, best.evidence)
    BY DEF BestAttemptDecides, NotBeaten
  <2>2. attempts # <<>> /\ Len(attempts) <= 1 + Len(focused) /\ attempts \in Seq(Attempt)
    BY <1>1, <2>1 DEF IInv, Control, TypeOK
  <2>3. Len(attempts) <= 1 + MaxRetries
    BY <1>1, <2>2, FocusedFacts, AgentAssumption DEF IInv
  <2>4. Len(attempts) > 1 => weak(1)
    BY <1>1, <2>1, <2>2 DEF IInv, Control
  <2>5. /\ \E i \in Parts : attempts[i] = best
        /\ \A i \in Parts : NotBeaten(attempts[i].evidence, best.evidence)
    BY <1>1, <2>2 DEF IInv, Chosen
  <2> QED BY <1>1, <2>1, <2>3, <2>4, <2>5 DEF IInv, Outcome
<1> QED BY <1>1, InductiveInvariant, PTL

\* A refusal names a reason that one of the responses bears out (evidence.py:59-95, 98-141).
THEOREM ReasonsAreHonest == Steps => []HonestReason
<1>1. ASSUME IInv PROVE HonestReason
  <2>1. SUFFICES ASSUME phase = "refused"
                 PROVE  /\ final.reason = "no_authorized_source" =>
                             \E i \in Parts : attempts[i].response.denied > 0
                        /\ final.reason = "outdated_evidence" =>
                             \E i \in Parts : \/ attempts[i].response.filtered > 0
                                              \/ older_than_asked(attempts[i].response)
    BY DEF HonestReason
  <2>2. PICK k \in Parts : final.reason = attempts[k].evidence.reason
    BY <1>1, <2>1 DEF IInv, Outcome
  <2>3. attempts[k] \in Attempt
    BY <1>1 DEF IInv, TypeOK, Parts
  <2>4. /\ attempts[k].response \in Retrieval
        /\ attempts[k].evidence = grade_evidence(attempts[k].response)
    BY <1>1, <2>3 DEF IInv, Evidenced, Attempt
  <2> QED BY <2>2, <2>4, GradeFacts
<1> QED BY <1>1, InductiveInvariant, PTL

\* A stronger first result never lowers the grade that a response is about to get, nor do
\* chunks that the role was denied (evidence.py:98-224).
THEOREM GradingIsMonotone == Steps => []StrongerNeverWorse
<1>1. ASSUME IInv PROVE StrongerNeverWorse
  <2> DEFINE r == found.response
             top == r.results[1].score
             raised(s, n) == [r EXCEPT !.results[1].score = s, !.denied = n]
  <2>1. SUFFICES ASSUME phase = "grade", r.results # <<>>, NEW k \in Kinds, NEW n \in 0..1,
                        NEW s \in {top, Floor[k], Relevant[k], top + Margin, top + Margin + 1},
                        s >= top
                 PROVE  grade_rank(grade_evidence(raised(s, n))) >= grade_rank(grade_evidence(r))
    BY DEF StrongerNeverWorse
  <2>2. found \in [call: Call, response: Retrieval] /\ Sound(found)
    BY <1>1, <2>1 DEF IInv, Control
  <2>3. r \in Retrieval /\ (r.results[1].exact \/ Descending(r.results))
    BY <2>1, <2>2 DEF Sound
  <2>4. r.results[1] \in Result
    BY <2>1, <2>3, KindAndTop
  <2>5. s \in Int /\ n \in Nat
    BY <2>1, <2>4, GradingAssumption DEF Result
  <2> QED BY <2>1, <2>3, <2>5, RaisedNeverWorse
<1> QED BY <1>1, InductiveInvariant, PTL

\* No objection to the evidence is lost on the way to an answer: a retry asks for a
\* citation, so that what is only valid on another date stays refused (evidence.py:98-180,
\* control.py:306-348).
THEOREM ObjectionsAreKept == Steps => []NoObjectionOverlooked
<1>1. ASSUME IInv PROVE NoObjectionOverlooked
  <2> DEFINE asked(a) == [a.response EXCEPT !.query = req.query]
  <2>1. SUFFICES ASSUME phase = "answered", NEW i \in Parts, ~weak(i)
                 PROVE  /\ conflicting(attempts[i].response) => attempts[i].response.results[1].exact
                        /\ \/ older_than_asked(asked(attempts[i]))
                           \/ only_case_law(asked(attempts[i]))
                           => attempts[i].call.query # req.query
                        /\ outside_validity(asked(attempts[i])) => strategy = "decomposition"
    BY DEF NoObjectionOverlooked
  <2> DEFINE a == attempts[i]
             r == a.response
             x == asked(a)
  <2>2. a \in Attempt
    BY <1>1 DEF IInv, TypeOK, Parts
  <2>3. r \in Retrieval /\ a.evidence = grade_evidence(r) /\ Sound(a)
    BY <1>1, <2>2 DEF IInv, Evidenced, Attempt
  <2>4. ~outdated(r) /\ ~only_case_law(r) /\ (conflicting(r) => r.results[1].exact)
    BY <2>1, <2>3, GradeFacts DEF weak, is_relevant
  <2>5. r.query = a.call.query
    BY <2>3 DEF Sound
  <2>6. a.call.query = req.query => x = r
    BY <2>3, <2>5 DEF Retrieval
  <2>7. /\ x.query = req.query /\ x.as_of = r.as_of /\ x.filtered = r.filtered
        /\ x.results = r.results
    BY <2>3 DEF Retrieval
  <2> HIDE DEF a, x, r
  <2>8. (older_than_asked(x) \/ only_case_law(x)) => a.call.query # req.query
    BY <2>4, <2>6 DEF outdated
  <2>9. ASSUME outside_validity(x), strategy # "decomposition" PROVE FALSE
    <3>1. a.call.query \in NamesIdentifier
      BY <2>3, <2>7, <2>9 DEF Sound, InScope, outside_validity
    <3>2. outside_validity(r)
      BY <2>5, <2>7, <2>9, <3>1 DEF outside_validity
    <3> QED BY <2>4, <3>2 DEF outdated
  <2> QED BY <2>4, <2>8, <2>9 DEF a, x, r
<1> QED BY <1>1, InductiveInvariant, PTL
=============================================================================
