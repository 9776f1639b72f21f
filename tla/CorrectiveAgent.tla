-------------------------- MODULE CorrectiveAgent --------------------------
(***************************************************************************)
(* CorrectiveRAGAgent.answer: one request is understood, possibly          *)
(* transformed, retrieved for, graded, and answered, retried once or       *)
(* refused.  A step is one call of the retrieval service, one grading, or  *)
(* one decision.                                                           *)
(*                                                                         *)
(* What transform_query finds in a query is given by Clauses, Identifiers  *)
(* and Rewrites.  The retrieval service answers from Profiles: what a      *)
(* response may hold is left open but for what every retriever guarantees. *)
(***************************************************************************)
EXTENDS EvidenceGrading

CONSTANTS
  Roles, Scopes,  \* a scope: source types, jurisdiction and top_k of the request
  NoMethod,       \* method=None
  DefaultMethod,  \* the service's default_method
  Clauses,        \* _candidate_clauses: the parts of a multi-part query
  Identifiers,    \* _identifier_queries, without the query itself
  Rewrites,       \* _statutory_rewrite_queries
  DateIn,         \* infer_as_of_date: the first ISO date in a query, or NoDate
  Invalid,        \* the queries, roles, dates and scopes RetrievalRequest rejects
  Requests,       \* the requests made in the instance at hand
  Profiles,       \* for each of them the responses to choose from
  MaxRetries,     \* max_retry_attempts
  MaxCitations,   \* max_answer_citations
  NoRetrieval, NoAnswer

Request == [query: Queries, role: Roles, scope: Scopes,
            method: Methods \cup {NoMethod}, as_of: Dates \cup {NoDate}]

Call == [query: Queries, role: Roles, scope: Scopes, method: Methods,
         as_of: Dates \cup {NoDate}]

Profile == [kind: Kinds, results: Seq(Result), denied: Nat, candidates: Nat,
            filtered: Nat]

\* The parts and identifiers of a query are substrings of it and a rewrite holds
\* no date, so none of them shows a date that the query does not.  What is extracted
\* starts with "ecli:", "artikel", "article" or "art", and so does every rewrite.
ASSUME AgentAssumption ==
  /\ MaxRetries \in Nat /\ MaxCitations \in Nat \ {0}
  /\ DefaultMethod \in Methods /\ NoMethod \notin Methods
  /\ Requests \subseteq Request /\ Profiles \in [Requests -> SUBSET Profile]
  /\ DateIn \in [Queries -> Dates \cup {NoDate}]
  /\ {Clauses, Identifiers, Rewrites} \subseteq [Queries -> Seq(Queries)]
  /\ \A q \in Queries : DateIn[q] = NoDate =>
       \A part \in {Clauses[q], Identifiers[q], Rewrites[q]} :
         \A i \in DOMAIN part : DateIn[part[i]] = NoDate
  /\ \A q \in Queries : \A part \in {Identifiers[q], Rewrites[q]} :
       \A i \in DOMAIN part : part[i] \in NamesIdentifier

VARIABLES
  phase,     \* what answer does next
  req,
  found,     \* the retrieval that has not been graded yet
  attempts,  \* what has been retrieved and graded, in order
  best,      \* the better of the initial retrieval and its retries
  trace,     \* state_trace
  final      \* the AgentResponse

vars == <<phase, req, found, attempts, best, trace, final>>

-----------------------------------------------------------------------------
(* The transform plan, a function of the query.                            *)

plan(q) ==
  LET Plan(strategy, queries, force) ==
        [strategy |-> strategy, queries |-> queries, force |-> force]
  IN CASE Len(Clauses[q]) >= 2 -> Plan("decomposition", Clauses[q], FALSE)
       [] Len(Clauses[q]) < 2 /\ Identifiers[q] # <<>> ->
            Plan("structured_identifier", Identifiers[q], FALSE)
       [] Len(Clauses[q]) < 2 /\ Identifiers[q] = <<>> /\ Rewrites[q] # <<>> ->
            Plan("structured_identifier", Rewrites[q], TRUE)
       [] OTHER -> Plan("none", <<>>, FALSE)

strategy == plan(req.query).strategy
queries == plan(req.query).queries
focused == SubSeq(queries, 1, IF Len(queries) < MaxRetries THEN Len(queries) ELSE MaxRetries)

effective_as_of_date == IF req.as_of # NoDate THEN req.as_of ELSE DateIn[req.query]

-----------------------------------------------------------------------------
(* The retrieval service.                                                  *)

\* The request that answer makes, completed by RetrievalService.retrieve.
CallFor(q, method, as_of) ==
  [query |-> q, role |-> req.role, scope |-> req.scope,
   method |-> IF method = NoMethod THEN DefaultMethod ELSE method,
   as_of |-> IF as_of = NoDate THEN DateIn[q] ELSE as_of]

rejected(c) == {c.query, c.role, c.scope, c.as_of} \cap Invalid # {}

Response(c, p) ==
  [query |-> c.query, method |-> c.method, as_of |-> c.as_of, results |-> p.results,
   denied |-> p.denied, candidates |-> p.candidates, filtered |-> p.filtered]

Descending(results) ==
  \A i, j \in DOMAIN results : i < j => results[i].score >= results[j].score

\* What lexical, dense and hybrid retrieval guarantee of a response: results come
\* from candidates, best score first, exact matches alone when there are any.
Possible(c, p) ==
  LET r == Response(c, p)
      exact == {i \in DOMAIN p.results : p.results[i].exact}
  IN /\ p.kind = kind(r)
     /\ p.candidates = 0 => p.results = <<>>
     /\ c.as_of = NoDate => p.filtered = 0
     /\ p.kind = "rrf" => exact \in {{}, DOMAIN p.results}
     /\ (p.kind # "rrf" \/ exact = {}) => Descending(p.results)
     /\ p.kind = "dense" => exact = {}
     /\ p.kind # "rerank" => \A i \in DOMAIN p.results : ~p.results[i].overlap

\* The retrievers are functions of the call: asked twice, they answer the same;
\* and what is denied, filtered and left as candidates is a matter of the role, the
\* scope and the date, whatever the query and the method.
Consistent(c, r) ==
  \A i \in DOMAIN attempts :
    LET past == attempts[i]
        Population(x) == [denied |-> x.denied, candidates |-> x.candidates,
                          filtered |-> x.filtered]
    IN /\ past.call = c => past.response = r
       /\ [past.call EXCEPT !.query = c.query, !.method = c.method] = c
            => Population(past.response) = Population(r)

retrieve(c) ==
  \E p \in Profiles[req] :
    /\ found' = [call |-> c, response |-> Response(c, p)]
    /\ Possible(c, p) /\ Consistent(c, Response(c, p))

\* A slip, for the mutants: the error is swallowed and the call made again.
RetrieveUntilAccepted(c) ==
  IF rejected(c)
    THEN UNCHANGED vars
    ELSE /\ trace' = Append(trace, "retrieved")
         /\ phase' = "grade"
         /\ retrieve(c)
         /\ UNCHANGED <<req, attempts, best, final>>

Retrieve(c) ==
  /\ trace' = Append(trace, "retrieved")
  /\ IF rejected(c)
       THEN phase' = "failed" /\ UNCHANGED found
       ELSE phase' = "grade" /\ retrieve(c)
  /\ UNCHANGED <<req, attempts, best, final>>

-----------------------------------------------------------------------------
Init ==
  /\ phase = "received"
  /\ req \in Requests
  /\ found = NoRetrieval
  /\ attempts = <<>>
  /\ best = NoRetrieval
  /\ trace = <<>>
  /\ final = NoAnswer

\* transform_query raises on a blank query: a QueryTransformPlan has none.
Understand ==
  /\ phase = "received"
  /\ IF req.query \in Invalid
       THEN phase' = "failed" /\ UNCHANGED trace
       ELSE /\ phase' = "retrieve"
            /\ trace' = IF strategy = "none" THEN <<"understood">>
                        ELSE <<"understood", "transformed">>
  /\ UNCHANGED <<req, found, attempts, best, final>>

\* A part of a decomposed query, hybrid unless the request names a method.
part_call ==
  CallFor(queries[Len(attempts) + 1],
          IF req.method = NoMethod THEN "hybrid" ELSE req.method, effective_as_of_date)

\* The query itself, or the statutory citation it was rewritten to.
initial_call ==
  IF plan(req.query).force
    THEN CallFor(queries[1],
                 IF req.method \in {NoMethod, "hybrid"} THEN "lexical" ELSE req.method,
                 effective_as_of_date)
    ELSE CallFor(req.query, req.method, effective_as_of_date)

\* A slip, for the mutants: the retry passes on the date of the request only.
FocusedWithGivenDate == CallFor(focused[Len(attempts)], "lexical", req.as_of)

\* A retry, lexical whatever method was asked for.
focused_call == CallFor(focused[Len(attempts)], "lexical", effective_as_of_date)

RetrievePart ==
  phase = "retrieve" /\ strategy = "decomposition" /\ Retrieve(part_call)

RetrieveInitial ==
  phase = "retrieve" /\ strategy # "decomposition" /\ attempts = <<>> /\ Retrieve(initial_call)

RetrieveFocused ==
  phase = "retrieve" /\ strategy # "decomposition" /\ attempts # <<>> /\ Retrieve(focused_call)

\* Slips, for the mutants: the later of two equal grades wins; the response is
\* returned without the evidence.
LaterOfEqualGrades(left, right) ==
  IF grade_rank(right.evidence) >= grade_rank(left.evidence) THEN right ELSE left

ResponseAlone(left, right) ==
  IF grade_rank(right.evidence) > grade_rank(left.evidence)
    THEN right.response ELSE left.response

\* _choose_better_response
choose_better_response(left, right) ==
  LET l == left.evidence
      r == right.evidence
  IN IF \/ grade_rank(r) > grade_rank(l)
        \/ grade_rank(r) = grade_rank(l) /\ r.top_score > l.top_score
       THEN right ELSE left

Graded == [call |-> found.call, response |-> found.response,
           evidence |-> grade_evidence(found.response)]

\* The calls that remain once n responses have been graded.
CallsLeft(n) == IF strategy = "decomposition" THEN n < Len(queries)
                ELSE n > 1 /\ n <= Len(focused)

Grade ==
  /\ phase = "grade"
  /\ attempts' = Append(attempts, Graded)
  /\ best' = IF attempts = <<>> THEN Graded ELSE choose_better_response(best, Graded)
  /\ found' = NoRetrieval
  /\ trace' = Append(trace, "graded")
  /\ phase' = IF CallsLeft(Len(attempts) + 1) THEN "retrieve" ELSE "decide"
  /\ UNCHANGED <<req, final>>

is_relevant(a) == a.evidence.grade = "relevant"

Retryable == strategy = "structured_identifier" /\ focused # <<>> /\ Len(attempts) = 1

Retry ==
  /\ phase = "decide" /\ Retryable /\ ~is_relevant(best)
  /\ phase' = "retrieve"
  /\ trace' = Append(trace, "retrying")
  /\ UNCHANGED <<req, found, attempts, best, final>>

-----------------------------------------------------------------------------
(* The response.                                                           *)

\* _answer_citations: the first result alone when it matches exactly.
cited(r) ==
  LET limit == IF r.results # <<>> /\ r.results[1].exact THEN 1 ELSE MaxCitations
  IN {r.results[i].source : i \in DOMAIN r.results \cap 1..limit}

Finalize(outcome, grade, reason, sources, labelled) ==
  /\ phase' = outcome
  /\ trace' = Append(trace, outcome)
  /\ final' = [outcome |-> outcome, grade |-> grade, reason |-> reason,
               sources |-> sources, labelled |-> labelled]
  /\ UNCHANGED <<req, found, attempts, best>>

Parts == DOMAIN attempts
grades == {attempts[i].evidence.grade : i \in Parts}

\* A slip, for the mutants: one supported part is enough.
AnswerSomeParts ==
  /\ phase = "decide" /\ strategy = "decomposition"
  /\ \E i \in Parts : is_relevant(attempts[i])
  /\ Finalize("answered", "relevant", "none",
              UNION {cited(attempts[i].response) : i \in Parts}, FALSE)

\* _combine_subquery_answers, which labels no security classification.
AnswerParts ==
  /\ phase = "decide" /\ strategy = "decomposition"
  /\ \A i \in Parts : is_relevant(attempts[i])
  /\ Finalize("answered", "relevant", "none",
              UNION {cited(attempts[i].response) : i \in Parts}, FALSE)

\* The first of the parts with the lowest grade.
worst ==
  LET Rank(i) == grade_rank(attempts[i].evidence)
  IN attempts[CHOOSE i \in Parts : \A j \in Parts :
       Rank(i) <= Rank(j) /\ (j < i => Rank(i) < Rank(j))]

\* _refuse_for_subquery_failure
RefuseParts ==
  /\ phase = "decide" /\ strategy = "decomposition"
  /\ \E i \in Parts : ~is_relevant(attempts[i])
  /\ Finalize("refused", IF "ambiguous" \in grades THEN "ambiguous" ELSE "irrelevant",
              worst.evidence.reason, cited(worst.response), TRUE)

AnswerBest ==
  /\ phase = "decide" /\ strategy # "decomposition"
  /\ is_relevant(best)
  /\ Finalize("answered", "relevant", "none", cited(best.response), TRUE)

RefuseBest ==
  /\ phase = "decide" /\ strategy # "decomposition"
  /\ ~is_relevant(best) /\ ~Retryable
  /\ Finalize("refused", best.evidence.grade, best.evidence.reason,
              cited(best.response), TRUE)

Terminal == {"answered", "refused", "failed"}

Rest == phase \in Terminal /\ UNCHANGED vars

Answering ==
  \/ Understand \/ RetrievePart \/ RetrieveInitial \/ RetrieveFocused \/ Grade
  \/ Retry \/ AnswerParts \/ RefuseParts \/ AnswerBest \/ RefuseBest

Next == Answering \/ Rest

Steps == Init /\ [][Next]_vars

Spec == Steps /\ WF_vars(Answering)

-----------------------------------------------------------------------------
(* Properties.                                                             *)

Attempt == [call: Call, response: Retrieval, evidence: Evidence]

States == {"understood", "transformed", "retrieved", "graded", "retrying",
           "answered", "refused"}

Answer == [outcome: {"answered", "refused"},
           grade: {"relevant", "ambiguous", "irrelevant"}, reason: Reasons,
           sources: SUBSET Sources, labelled: BOOLEAN]

\* The types of the variables.
TypeOK ==
  /\ phase \in {"received", "retrieve", "grade", "decide"} \cup Terminal
  /\ req \in Requests
  /\ found \in [call: Call, response: Retrieval] \cup {NoRetrieval}
  /\ attempts \in Seq(Attempt)
  /\ best \in Attempt \cup {NoRetrieval}
  /\ trace \in Seq(States)
  /\ final \in Answer \cup {NoAnswer}

weak(i) == ~is_relevant(attempts[i])

\* An answer rests on relevant evidence: on every part of a decomposed query, each
\* of them retrieved, or on the one attempt that was relevant; it cites at least
\* one source and only sources of such attempts.  A refusal means that there was
\* none, or a part without (ADR 006, architecture.md:12).
AnswersRestOnEvidence ==
  LET supported == IF strategy = "decomposition"
                     THEN Len(attempts) = Len(queries) /\ \A i \in Parts : ~weak(i)
                     ELSE \E i \in Parts : ~weak(i)
  IN /\ final # NoAnswer =>
          (final.outcome = "answered" <=> final.grade = "relevant")
     /\ phase = "answered" =>
          /\ supported
          /\ final.sources # {}
          /\ \A s \in final.sources : \E i \in Parts :
               ~weak(i) /\ s \in cited(attempts[i].response)
     /\ phase = "refused" => ~supported /\ final.reason # "none"

\* The parts of a query and the retries are retrieved for the role, the scope and
\* the validity date of the whole request: a focused query that shows no date
\* does not fall back to the current law (ADR 012:17, 012:30).
OneScopePerAnswer ==
  \A i \in Parts :
    LET c == attempts[i].call
    IN /\ c.role = req.role /\ c.scope = req.scope
       /\ c.as_of = effective_as_of_date

\* Without decomposition, a first attempt that is not relevant is followed by no more
\* than max_retry_attempts, and the response given is that of an attempt no other
\* attempt beats in grade, or in score at the same grade.
BestAttemptDecides ==
  phase \in {"answered", "refused"} /\ strategy # "decomposition" =>
    /\ Len(attempts) <= 1 + MaxRetries /\ (Len(attempts) > 1 => weak(1))
    /\ \E i \in Parts : attempts[i] = best
    /\ final.grade = best.evidence.grade
    /\ \A i \in Parts :
         LET e == attempts[i].evidence
         IN \/ grade_rank(e) < grade_rank(best.evidence)
            \/ /\ grade_rank(e) = grade_rank(best.evidence)
               /\ e.top_score <= best.evidence.top_score

\* A refusal blames authorization only if something was denied, and dates only if
\* a date excluded evidence or the evidence in front was dated.
HonestReason ==
  phase = "refused" =>
    /\ final.reason = "no_authorized_source" =>
         \E i \in Parts : attempts[i].response.denied > 0
    /\ final.reason = "outdated_evidence" =>
         \E i \in Parts : \/ attempts[i].response.filtered > 0
                          \/ older_than_asked(attempts[i].response)

\* What speaks against the evidence for the question is not forgotten on the way to
\* an answer.  Two sources that conflict are answered from only if the first of them
\* matches exactly; the year and the kind of evidence that the question asks for may be
\* lost only with its words, in a retry or a part; that nothing exact is valid on its
\* date is not lost in a retry either (evidence.py:98-180, control.py:306-348).
NoObjectionOverlooked ==
  phase = "answered" =>
    \A i \in Parts : ~weak(i) =>
      LET a == attempts[i]
          asked == [a.response EXCEPT !.query = req.query]
      IN /\ conflicting(a.response) => a.response.results[1].exact
         /\ older_than_asked(asked) \/ only_case_law(asked) => a.call.query # req.query
         /\ outside_validity(asked) => strategy = "decomposition"

\* A stronger first result never lowers the grade, although it changes which pairs
\* of results conflict; nor does it matter how many chunks the role was denied, which
\* may explain a refusal but never decides one (evidence.py:60, 168).
StrongerNeverWorse ==
  phase = "grade" /\ found.response.results # <<>> =>
    LET r == found.response
        top == r.results[1].score
        raised(s, n) == [r EXCEPT !.results[1].score = s, !.denied = n]
    IN \A k \in Kinds, n \in 0..1 :
         \A s \in {top, Floor[k], Relevant[k], top + Margin, top + Margin + 1} :
           s >= top =>
             grade_rank(grade_evidence(raised(s, n))) >= grade_rank(grade_evidence(r))

\* Every request comes to an answer, a refusal or an error.
Terminates == <>(phase \in Terminal)
=============================================================================
