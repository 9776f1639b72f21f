--------------------------- MODULE AgentOverCorpus ---------------------------
(***************************************************************************)
(* The corrective agent and the retrieval service together: what the agent *)
(* grades is what the retrievers make of a corpus, not a response that is  *)
(* taken as given.  The agent waits while the service works.               *)
(*                                                                         *)
(* The service counts scores in units of its own; Scored brings them to    *)
(* the ten thousandths of the thresholds.                                  *)
(***************************************************************************)
EXTENDS RetrievalService, TLC

CONSTANTS
  DocOf, DecisionYear, YearIn, AsksEligibility, Terse, Relevant, Floor, Margin,
  Clauses, Identifiers, Rewrites, Dates, MaxRetries, MaxCitations,
  NoRetrieval, NoAnswer

\* What the agent finds in a query, as in CorrectiveAgent; the parts are all different
\* (transform.py:44-58).  What a dense rank alone is worth is less than relevant evidence
\* (common/config.py:89).
ASSUME SystemAssumption ==
  /\ MaxRetries \in Nat
  /\ {Clauses, Identifiers, Rewrites} \subseteq [Queries -> Seq(Queries)]
  /\ \A q \in Queries : IsInjective(Clauses[q])
  /\ \A q \in Queries : DateIn[q] = NoDate =>
       \A part \in {Clauses[q], Identifiers[q], Rewrites[q]} :
         \A i \in DOMAIN part : DateIn[part[i]] = NoDate
  /\ Relevant \in [{"rerank", "rrf", "lexical", "dense"} -> Nat]
  /\ RrfScale >= 10000
  /\ (RrfScale \div (RrfK + 1)) \div (RrfScale \div 10000) < Relevant["rrf"]

\* What CorrectiveAgent and EvidenceGrading ask of their constants.
ASSUME GradedAssumption ==
  /\ DocOf \in [DOMAIN Catalogue -> STRING] /\ DecisionYear \in [DOMAIN Catalogue -> Nat]
  /\ \A c \in DOMAIN Catalogue : Catalogue[c].type \in STRING
  /\ YearIn \in [Queries -> Nat] /\ {AsksEligibility, Terse} \subseteq SUBSET Queries
  /\ Floor \in [DOMAIN Relevant -> Nat] /\ \A k \in DOMAIN Relevant : Floor[k] <= Relevant[k]
  /\ Margin \in Nat /\ MaxCitations \in Nat \ {0}
  /\ DateIn \in [Queries -> Dates \cup {NoDate}]
  /\ \A call \in Calls : call.as_of \in Dates \cup {NoDate}
  /\ \A q \in Queries : \A part \in {Identifiers[q], Rewrites[q]} :
       \A i \in DOMAIN part : part[i] \in NamesIdentifier

VARIABLES phase, question, retrieved, attempts, best, trace, final

agent == <<phase, question, retrieved, attempts, best, trace, final>>
service == vars

-----------------------------------------------------------------------------
(* A response of the service, as the agent reads it.  A chunk that shares   *)
(* something with the query has a positive Overlap.                        *)

score_kind(r) == IF r.method # "hybrid" THEN r.method
                 ELSE IF r.query \in NamesIdentifier THEN "rrf" ELSE "rerank"

Scored(score, k) == CASE k = "rerank" -> score
                      [] k = "rrf" -> score \div (RrfScale \div 10000)
                      [] k = "lexical" -> 10000 * score
                      [] k = "dense" -> 100 * score

\* validity_filtered_count: what only the date keeps from the candidates.
expired(held, r) ==
  {c \in DOMAIN filter_authorized_chunks(held, r.role) :
     request_allows_chunk(held[c], [r EXCEPT !.as_of = NoDate]) /\ ~chunk_valid_on(held[c], r.as_of)}

profile(held, r, ranked) ==
  [kind |-> score_kind(r),
   results |-> [i \in DOMAIN ranked |->
     [source |-> ranked[i].chunk, exact |-> ranked[i].exact,
      overlap |-> score_kind(r) = "rerank" /\ Overlap[r.query][ranked[i].source.text] > 0,
      score |-> Scored(ranked[i].score, score_kind(r))]],
   denied |-> Cardinality(DOMAIN held \ DOMAIN filter_authorized_chunks(held, r.role)),
   candidates |-> Cardinality(DOMAIN candidates(held, r)),
   filtered |-> Cardinality(expired(held, r))]

-----------------------------------------------------------------------------
(* What the agent may be asked, and all that the service may tell it then. *)

scope_of(call) == [types |-> call.types, jurisdiction |-> call.jurisdiction, top_k |-> call.top_k]
Questions ==
  {[query |-> call.query, role |-> call.role, method |-> call.method, as_of |-> call.as_of,
    scope |-> scope_of(call)] : call \in Calls}

\* The call that the agent makes for a question, as the service takes it.
service_call(q, query, method, as_of) ==
  [query |-> query, role |-> q.role, method |-> method, as_of |-> as_of,
   types |-> q.scope.types, jurisdiction |-> q.scope.jurisdiction, top_k |-> q.scope.top_k]

Corpora == {Restrict(Catalogue, S) : S \in SUBSET DOMAIN Catalogue}

\* What the agent may ask for: the query, its parts, its identifiers, its rewrites.
Askable(q) ==
  {q.query} \cup Range(Clauses[q.query]) \cup Range(Identifiers[q.query]) \cup Range(Rewrites[q.query])

AskedDate(q) == IF q.as_of = NoDate THEN DateIn[q.query] ELSE q.as_of

requests(q) == {request(service_call(q, text, method, AskedDate(q))) :
                  text \in Askable(q), method \in {q.method, "hybrid", "lexical"}}

profiles(q) ==
  UNION {{profile(held, r, ranked) : ranked \in responses(held, r)} : held \in Corpora, r \in requests(q)}

\* A table, which TLC computes once.
known == {[question |-> q, profiles |-> profiles(q)] : q \in Questions}
Profiles == [q \in Questions |-> (CHOOSE row \in known : row.question = q).profiles]

Agent == INSTANCE CorrectiveAgent WITH
  req <- question, found <- retrieved,
  Sources <- DOMAIN Catalogue, TypeOf <- [c \in DOMAIN Catalogue |-> Catalogue[c].type],
  Roles <- {call.role : call \in Calls}, Scopes <- {scope_of(call) : call \in Calls},
  Invalid <- {}, Requests <- Questions

-----------------------------------------------------------------------------
SystemInit == Init /\ Agent!Init

Understands == Agent!Understand /\ UNCHANGED service

agent_call ==
  IF Agent!strategy = "decomposition" THEN Agent!part_call
  ELSE IF attempts = <<>> THEN Agent!initial_call ELSE Agent!focused_call

Asks ==
  /\ phase = "retrieve"
  /\ Retrieve(service_call(question, agent_call.query, agent_call.method, agent_call.as_of))
  /\ UNCHANGED agent

Serves == Working /\ UNCHANGED agent

Receives ==
  /\ Return
  /\ retrieved' = [call |-> agent_call,
                   response |-> Agent!Response(agent_call, profile(library, req, results))]
  /\ trace' = Append(trace, "retrieved")
  /\ phase' = "grade"
  /\ UNCHANGED <<question, attempts, best, final>>

Grades == Agent!Grade /\ UNCHANGED service
Retries == Agent!Retry /\ UNCHANGED service
Answers == (Agent!AnswerParts \/ Agent!AnswerBest) /\ UNCHANGED service
Refuses == (Agent!RefuseParts \/ Agent!RefuseBest) /\ UNCHANGED service
Rests == Agent!Rest /\ UNCHANGED service

SystemNext ==
  \/ Understands \/ Asks \/ Serves \/ Receives \/ Grades \/ Retries \/ Answers \/ Refuses \/ Rests

SystemSpec == SystemInit /\ [][SystemNext]_<<service, agent>>

-----------------------------------------------------------------------------
(* Properties.                                                             *)

\* The agent over a corpus takes the steps of the agent that takes responses as given:
\* every response that the retrievers make is one that the agent's specification
\* allows, for the same call the same (control.py:170-383).
ImplementsAgent == Agent!Init /\ [][Agent!Next]_agent

\* Whatever was retried or split, what a response cites, a refusal included, is what the
\* role may see and what the question asks for: its source types, its jurisdiction and
\* its date, of which a part or a retry may show none (control.py:200-219, 312-336).
CitesWithinScope ==
  final # NoAnswer =>
    \A c \in final.sources :
      /\ c \in DOMAIN library /\ evaluate_chunk_access(library[c], question.role)
      /\ request_allows_chunk(library[c], [types |-> question.scope.types, as_of |-> AskedDate(question),
                                          jurisdiction |-> question.scope.jurisdiction])

\* A question that names an article or a ruling is answered, from that evidence alone, if
\* the role may see some that is valid on the date, however many other chunks are
\* similar, denied or expired (hybrid.py:135-138, evidence.py:98-165).
ExactEvidenceIsAnswered ==
  LET asked == Agent!initial_call
      held == candidates(library, service_call(question, question.query, "hybrid", AskedDate(question)))
      exact == {c \in DOMAIN held : exact_priority(held[c], question.query) > 0}
  IN (/\ phase \in {"answered", "refused"} /\ exact # {}
      /\ Agent!strategy # "decomposition" /\ asked.query = question.query /\ asked.method # "dense"
      /\ question.query \in NamesIdentifier /\ YearIn[question.query] = 0)
       => phase = "answered" /\ final.sources \subseteq exact

\* No answer leads with a sibling of the paragraph that its question, part or retry asks
\* for, however similar it is: only a dense rank lists it, and what that is worth after
\* fusion, 1/61, is less than the 0.02 of relevant evidence (lexical.py:83-87,
\* common/config.py:89).  Dense retrieval knows no paragraphs.
NoSiblingLeads ==
  phase = "answered" =>
    \A i \in DOMAIN attempts :
      (attempts[i].evidence.grade = "relevant" /\ attempts[i].call.method # "dense") =>
        ~sibling(library[attempts[i].response.results[1].source], Terms[attempts[i].call.query])
=============================================================================
