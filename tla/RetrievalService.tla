-------------------------- MODULE RetrievalService --------------------------
(***************************************************************************)
(* RetrievalService.retrieve without a persistent index: the request is    *)
(* completed, the corpus is scoped, the rankings the method asks for are   *)
(* made, and a response is given.                                          *)
(***************************************************************************)
EXTENDS Retrieval, Sequences

CONSTANTS
  Catalogue,      \* the chunks a library may hold, a function from chunk ids
  Calls,          \* what is asked in the instance at hand
  NoMethod, DefaultMethod, NoCall,
  DateIn          \* infer_as_of_date, NoDate for none

ASSUME ServiceAssumption ==
  /\ DefaultMethod \in Methods /\ NoMethod \notin Methods
  /\ DateIn \in [Queries -> Nat]
  /\ IsFiniteSet(DOMAIN Catalogue) /\ DOMAIN Catalogue \subseteq Int
  /\ \A c \in DOMAIN Catalogue : Catalogue[c].text \in Texts

\* A call, as RetrievalRequest has it; a top_k of 0 stands for none.
IsCall(call) ==
  /\ DOMAIN call = {"query", "role", "method", "top_k", "types", "jurisdiction", "as_of"}
  /\ call.query \in Queries /\ call.method \in Methods \cup {NoMethod} /\ call.top_k \in Nat

ASSUME CallsAssumption == \A call \in Calls : IsCall(call)

VARIABLES library, req, stage, scoped, lexical_list, dense_list, results

vars == <<library, req, stage, scoped, lexical_list, dense_list, results>>

\* The request that the service makes of a call.
request(call) ==
  [call EXCEPT !.top_k = IF call.top_k = 0 THEN FinalTopK ELSE call.top_k,
               !.as_of = IF call.as_of = NoDate THEN DateIn[call.query] ELSE call.as_of,
               !.method = IF call.method = NoMethod THEN DefaultMethod ELSE call.method]

Init ==
  /\ library \in {Restrict(Catalogue, S) : S \in SUBSET DOMAIN Catalogue}
  /\ req = NoCall
  /\ stage = "idle"
  /\ scoped = NothingRanked
  /\ lexical_list = NothingRanked /\ dense_list = NothingRanked
  /\ results = <<>>

Retrieve(call) ==
  /\ stage = "idle"
  /\ req' = request(call)
  /\ stage' = "scope"
  /\ UNCHANGED <<library, scoped, lexical_list, dense_list, results>>

Scope ==
  /\ stage = "scope"
  /\ scoped' = candidates(library, req)
  /\ stage' = IF req.method = "dense" THEN "dense" ELSE "lexical"
  /\ UNCHANGED <<library, req, lexical_list, dense_list, results>>

RankLexical ==
  /\ stage = "lexical"
  /\ lexical_list' = lexical_ranks(scoped, req.query,
                  IF req.method = "hybrid" THEN lexical_limit(req) ELSE req.top_k)
  /\ stage' = IF req.method = "hybrid" THEN "dense" ELSE "respond"
  /\ UNCHANGED <<library, req, scoped, dense_list, results>>

RankDense ==
  /\ stage = "dense"
  /\ LET r == IF req.method = "hybrid" THEN dense_request(req) ELSE req
     IN dense_list' \in dense_rankings(scoped, r, r.top_k)
  /\ stage' = "respond"
  /\ UNCHANGED <<library, req, scoped, lexical_list, results>>

Respond ==
  /\ stage = "respond"
  /\ results' = CASE req.method = "lexical" -> lexical_results(scoped, req, lexical_list)
                  [] req.method = "dense" -> dense_results(scoped, req, dense_list)
                  [] OTHER -> hybrid_results(scoped, scoped, lexical_list, dense_list, req)
  /\ stage' = "done"
  /\ UNCHANGED <<library, req, scoped, lexical_list, dense_list>>

\* The caller has the response.
Return ==
  /\ stage = "done"
  /\ req' = NoCall /\ stage' = "idle"
  /\ scoped' = NothingRanked /\ lexical_list' = NothingRanked /\ dense_list' = NothingRanked
  /\ results' = <<>>
  /\ UNCHANGED library

Working == Scope \/ RankLexical \/ RankDense \/ Respond

Next == Working \/ Return \/ \E call \in Calls : Retrieve(call)

Spec == Init /\ [][Next]_vars

-----------------------------------------------------------------------------
\* A chunk the role may not see has no influence on any response: the response is
\* one that would be given had the chunk never been in the corpus (security/rbac.py).
DeniedHasNoInfluence ==
  stage = "done" =>
    results \in responses(filter_authorized_chunks(library, req.role), req)

exact_evidence ==
  {c \in DOMAIN candidates(library, req) : exact_priority(library[c], req.query) > 0}

\* When there is exact evidence for an identifier, the context of a hybrid response
\* is exact evidence only, the best of it first, and as much as was asked for
\* (retrieval/hybrid.py).
ExactEvidenceAlone ==
  (stage = "done" /\ req.method = "hybrid" /\ req.query \in NamesIdentifier
     /\ exact_evidence # {}) =>
    LET chunks == {results[i].chunk : i \in DOMAIN results}
    IN /\ chunks \subseteq exact_evidence
       /\ Cardinality(chunks) = Smaller(req.top_k, Cardinality(exact_evidence))
       /\ \A c \in chunks, d \in exact_evidence \ chunks :
            exact_priority(library[c], req.query) >= exact_priority(library[d], req.query)
       /\ \A i \in DOMAIN results, d \in chunks :
            exact_priority(library[d], req.query) > exact_priority(library[results[i].chunk], req.query)
              => \E j \in 1..(i - 1) : results[j].chunk = d
=============================================================================
