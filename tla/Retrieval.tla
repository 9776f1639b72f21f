----------------------------- MODULE Retrieval -----------------------------
(***************************************************************************)
(* What the retrievers compute, as operators: access control, request      *)
(* scope, lexical and dense ranking, reciprocal rank fusion and reranking. *)
(*                                                                         *)
(* A corpus maps chunk ids, integers in the order of chunk_id, to chunks;  *)
(* what a Qdrant collection holds has the same shape.  The text of a chunk *)
(* (citation path and body) is opaque: what a query finds in it is given   *)
(* by CitationMatch, Similarity and Overlap.                               *)
(***************************************************************************)
EXTENDS Integers, FiniteSets, Functions
LOCAL INSTANCE TLC

CONSTANTS
  Queries, Texts, NoTerm,
  Clearance,        \* the highest classification rank, by known role
  Terms,            \* _extract_query_terms
  CitationMatch,    \* the query against the citation path: equal, contains, none
  NamesIdentifier,  \* the queries hybrid's _EXACT_IDENTIFIER_PATTERN finds
  Embeddable,       \* the queries whose vector is not zero
  Similarity,       \* the cosine of a query and a text
  Overlap,          \* weighted concept and term overlap
  Bonus,            \* what the concepts of a query add for legislation
  Boost,            \* exact_identifier_boost
  RrfK, RrfScale,   \* rrf_k; RrfScale makes the contributions integers
  LexicalTopK, DenseTopK, RerankTopK, FinalTopK,
  DenseWeight, LexicalWeight, LexicalNorm, RrfWeight, RrfNorm

Methods == {"hybrid", "lexical", "dense"}
NoDate == 0

ASSUME RetrievalAssumption ==
  /\ {NamesIdentifier, Embeddable} \subseteq SUBSET Queries
  /\ Clearance \in [DOMAIN Clearance -> Nat]
  /\ CitationMatch \in [Queries -> [Texts -> {"equal", "contains", "none"}]]
  /\ {Similarity, Overlap} \subseteq [Queries -> [Texts -> Nat]]
  /\ Bonus \in [Queries -> Nat]
  /\ {Boost, RrfScale, LexicalTopK, DenseTopK, RerankTopK, FinalTopK} \subseteq Nat \ {0}
  /\ {RrfK, DenseWeight, LexicalWeight, LexicalNorm, RrfWeight} \subseteq Nat
  /\ RrfNorm \in Nat /\ RrfNorm >= 100
  \* An article or ECLI that is extracted from a query names an identifier.
  /\ \A q \in Queries \ NamesIdentifier : Terms[q].ecli = NoTerm /\ Terms[q].article = NoTerm

\* exact_identifier_boost is 3.0 (common/config.py:40).
ASSUME BoostAssumption == Boost >= 3

Larger(m, n) == IF m > n THEN m ELSE n
Smaller(m, n) == IF m < n THEN m ELSE n
Points(earned, n) == IF earned THEN n ELSE 0

-----------------------------------------------------------------------------
(* Who may see a chunk, and which chunks a request is about.               *)

evaluate_chunk_access(c, role) ==
  role \in DOMAIN Clearance /\ role \in c.roles /\ c.class <= Clearance[role]

filter_authorized_chunks(corpus, role) ==
  Restrict(corpus, {c \in DOMAIN corpus : evaluate_chunk_access(corpus[c], role)})

chunk_valid_on(c, as_of) ==
  as_of = NoDate \/
    (/\ c.valid_from = NoDate \/ c.valid_from <= as_of
     /\ c.valid_to = NoDate \/ as_of <= c.valid_to)

request_allows_chunk(c, r) ==
  /\ r.types = {} \/ c.type \in r.types
  /\ r.jurisdiction = NoTerm \/ c.jurisdiction = r.jurisdiction
  /\ chunk_valid_on(c, r.as_of)

scope_chunks_for_request(chunks, r) ==
  Restrict(chunks, {c \in DOMAIN chunks : request_allows_chunk(chunks[c], r)})

\* A slip, for the mutants: the role is left to the filter of the vector store.
ScopedOnly(corpus, r) == scope_chunks_for_request(corpus, r)

candidates(corpus, r) ==
  scope_chunks_for_request(filter_authorized_chunks(corpus, r.role), r)

-----------------------------------------------------------------------------
(* Ranking.  A key is a pair: the higher first component comes first, then *)
(* the higher second component, then the lower id.                         *)

ahead(key, c, d) ==
  \/ key[c][1] > key[d][1]
  \/ key[c][1] = key[d][1] /\ key[c][2] > key[d][2]
  \/ key[c] = key[d] /\ c < d

place(key, c) == 1 + Cardinality({d \in DOMAIN key : ahead(key, d, c)})

\* The first k, each with its rank.
top(key, k) ==
  [c \in {c \in DOMAIN key : place(key, c) <= k} |-> place(key, c)]

listed(ranks) ==
  [i \in 1..Cardinality(DOMAIN ranks) |-> CHOOSE c \in DOMAIN ranks : ranks[c] = i]

-----------------------------------------------------------------------------
(* Lexical ranking.                                                        *)

names_article(c, t) == t.article # NoTerm /\ c.article = t.article

\* Another paragraph or subparagraph of the article asked for.
sibling(c, t) ==
  /\ names_article(c, t)
  /\ \/ t.paragraph # NoTerm /\ c.paragraph # t.paragraph
     \/ t.subparagraph # NoTerm /\ c.subparagraph # t.subparagraph

\* A slip, for the mutants: a sibling earns no points for its paragraph, but it stays.
ScoreOfSiblingToo(c, q) ==
  LET t == Terms[q]
  IN Points(t.ecli # NoTerm /\ c.ecli = t.ecli, 100 * Boost)
     + Points(names_article(c, t), 40 * Boost)
     + Points(CitationMatch[q][c.text] = "equal", 95)

\* The part of the lexical score that exact matches earn.
exact_priority(c, q) ==
  LET t == Terms[q]
  IN IF sibling(c, t) THEN 0
     ELSE Points(t.ecli # NoTerm /\ c.ecli = t.ecli, 100 * Boost)
          + Points(names_article(c, t), 40 * Boost + Points(t.paragraph # NoTerm, 20)
                                                   + Points(t.subparagraph # NoTerm, 10))
          + Points(CitationMatch[q][c.text] = "equal", 95)

lexical_score(c, q) ==
  exact_priority(c, q)
  + Points(CitationMatch[q][c.text] = "contains" /\ ~sibling(c, Terms[q]), 55)

\* A chunk that earns nothing is no result.
lexical_ranks(found, q, k) ==
  LET scored == {c \in DOMAIN found : lexical_score(found[c], q) > 0}
  IN top([c \in scored |-> <<lexical_score(found[c], q), 0>>], k)

-----------------------------------------------------------------------------
(* Dense ranking of the points of a collection.                            *)

\* A slip, for the mutants: the end of validity is not sent along.
FilterWithoutExpiry(c, r) ==
  /\ r.role \in c.roles /\ c.class <= Clearance[r.role]
  /\ r.types # {} => c.type \in r.types
  /\ r.jurisdiction # NoTerm => c.jurisdiction = r.jurisdiction
  /\ r.as_of # NoDate => c.valid_from = NoDate \/ c.valid_from <= r.as_of

\* _query_filter: the conditions on the payload that are sent along with a query.
passes_filter(c, r) ==
  /\ r.role \in c.roles /\ c.class <= Clearance[r.role]
  /\ r.types # {} => c.type \in r.types
  /\ r.jurisdiction # NoTerm => c.jurisdiction = r.jurisdiction
  /\ r.as_of # NoDate => /\ c.valid_from = NoDate \/ c.valid_from <= r.as_of
                         /\ c.valid_to = NoDate \/ c.valid_to >= r.as_of

\* The orders in which equal points may come.
ties(S) == Permutations(S) \cap [S -> S]

\* The store returns the most similar points, equal ones in any order.
query_points(points, r, k) ==
  LET passed == {c \in DOMAIN points : passes_filter(points[c], r)}
  IN {top([c \in passed |-> <<Similarity[r.query][points[c].text], tie[c]>>], k) :
        tie \in ties(passed)}

NothingRanked == [c \in {} |-> 0]

asks_store(found, r) ==
  DOMAIN found # {} /\ r.query \in Embeddable /\ r.role \in DOMAIN Clearance

\* The rankings of retrieval without a persistent index, which uploads exactly the
\* candidates.
dense_rankings(found, r, k) ==
  IF asks_store(found, r) THEN query_points(found, r, k) ELSE {NothingRanked}

-----------------------------------------------------------------------------
(* Hybrid retrieval: the requests to its two parts, fusion, reranking.     *)

\* Both parts are asked for more than the caller, the dense part without the date.
lexical_limit(r) == Larger(r.top_k, LexicalTopK)
dense_request(r) == [r EXCEPT !.top_k = Larger(r.top_k, DenseTopK), !.as_of = NoDate]

rrf_contribution(ranks, c) ==
  IF c \in DOMAIN ranks THEN RrfScale \div (RrfK + ranks[c]) ELSE 0

rrf_score(lexical, dense, c) == rrf_contribution(lexical, c) + rrf_contribution(dense, c)

\* The exact metrics of a fused entry come from its lexical result.
fused_priority(found, lexical, q, c) ==
  IF c \in DOMAIN lexical THEN exact_priority(found[c], q) ELSE 0

\* Exact evidence for an identifier stands alone.
kept(found, lexical, dense, q) ==
  LET all == DOMAIN lexical \cup DOMAIN dense
      exact == {c \in all : fused_priority(found, lexical, q, c) > 0}
  IN IF q \in NamesIdentifier /\ exact # {} THEN exact ELSE all

\* A slip, for the mutants: exact matches have no precedence.
FuseByRank(found, lexical, dense, r) ==
  top([c \in kept(found, lexical, dense, r.query) |-> <<rrf_score(lexical, dense, c), 0>>],
      Larger(r.top_k, RerankTopK))

fused(found, lexical, dense, r) ==
  LET q == r.query
      Key(c) == <<IF q \in NamesIdentifier THEN fused_priority(found, lexical, q, c) ELSE 0,
                  rrf_score(lexical, dense, c)>>
  IN top([c \in kept(found, lexical, dense, q) |-> Key(c)], Larger(r.top_k, RerankTopK))

\* _generic_rule_bonus
source_bonus(c, q) == Points(q \notin NamesIdentifier /\ c.type = "legislation", Bonus[q])

rerank_score(found, points, lexical, dense, q, c) ==
  LET source == IF c \in DOMAIN lexical THEN found[c] ELSE points[c]
  IN Overlap[q][source.text] + source_bonus(source, q)
     + DenseWeight * (IF c \in DOMAIN dense THEN Similarity[q][points[c].text] ELSE 0)
     + LexicalWeight * (IF c \in DOMAIN lexical
                          THEN Smaller(lexical_score(found[c], q), LexicalNorm) ELSE 0)
     + (RrfWeight * (Smaller(rrf_score(lexical, dense, c), RrfNorm) \div (RrfNorm \div 100)))

\* A slip, for the mutants: the reranker scores without sorting again.
ScoredUnsorted(found, points, lexical, dense, r) ==
  LET pool == fused(found, lexical, dense, r)
  IN Restrict(pool, {c \in DOMAIN pool : pool[c] <= r.top_k})

hybrid_ranks(found, points, lexical, dense, r) ==
  LET pool == fused(found, lexical, dense, r)
      Reranked(c) == <<rerank_score(found, points, lexical, dense, r.query, c), 0>>
  IN IF r.query \in NamesIdentifier
       THEN Restrict(pool, {c \in DOMAIN pool : pool[c] <= r.top_k})
       ELSE top([c \in DOMAIN pool |-> Reranked(c)], r.top_k)

-----------------------------------------------------------------------------
(* The results of a response, best first.                                  *)

Results(ranks, result) ==
  LET order == listed(ranks) IN [i \in DOMAIN order |-> result[order[i]]]

lexical_results(found, r, ranks) ==
  Results(ranks, [c \in DOMAIN ranks |->
    [chunk |-> c, source |-> found[c], score |-> lexical_score(found[c], r.query),
     exact |-> exact_priority(found[c], r.query) > 0]])

dense_results(points, r, ranks) ==
  Results(ranks, [c \in DOMAIN ranks |->
    [chunk |-> c, source |-> points[c], score |-> Similarity[r.query][points[c].text],
     exact |-> FALSE]])

\* A chunk that both parts found is taken from the lexical part.
hybrid_results(found, points, lexical, dense, r) ==
  LET ranks == hybrid_ranks(found, points, lexical, dense, r)
  IN Results(ranks, [c \in DOMAIN ranks |->
       [chunk |-> c,
        source |-> IF c \in DOMAIN lexical THEN found[c] ELSE points[c],
        score |-> IF r.query \in NamesIdentifier
                    THEN rrf_score(lexical, dense, c)
                    ELSE rerank_score(found, points, lexical, dense, r.query, c),
        exact |-> fused_priority(found, lexical, r.query, c) > 0]])

\* Every response that may be given over a corpus without a persistent index.
responses(corpus, r) ==
  LET found == candidates(corpus, r)
      q == r.query
  IN CASE r.method = "lexical" -> {lexical_results(found, r, lexical_ranks(found, q, r.top_k))}
       [] r.method = "dense" ->
            {dense_results(found, r, ranks) : ranks \in dense_rankings(found, r, r.top_k)}
       [] OTHER ->
            {hybrid_results(found, found, lexical_ranks(found, q, lexical_limit(r)), dense, r) :
               dense \in dense_rankings(found, dense_request(r), dense_request(r).top_k)}
=============================================================================
