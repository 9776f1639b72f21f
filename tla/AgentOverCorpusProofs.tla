----------------------- MODULE AgentOverCorpusProofs -----------------------
(***************************************************************************)
(* What retrieval and the agent over it may show a role, for every corpus, *)
(* query, score and limit.                                                 *)
(***************************************************************************)
EXTENDS AgentOverCorpus, FiniteSetTheorems, WellFoundedInduction, TLAPS

-----------------------------------------------------------------------------
(* Ranking.                                                                *)

\* What top ranks: finitely many chunks, by a pair of integers and then by their ids.
IsKey(key) ==
  /\ IsFiniteSet(DOMAIN key) /\ DOMAIN key \subseteq Int
  /\ \A c \in DOMAIN key : key[c] \in Int \X Int

\* A ranking numbers its chunks from 1 on.
Numbers(ranks, S, n) == ranks \in [S -> 1..n] /\ ranks \in Injection(S, 1..n) /\ ranks \in Surjection(S, 1..n)
IsRanking(ranks) ==
  /\ IsFiniteSet(DOMAIN ranks)
  /\ Numbers(ranks, DOMAIN ranks, Cardinality(DOMAIN ranks))

\* To be ahead is a strict total order of the chunks.
LEMMA AheadFacts ==
  ASSUME NEW key, IsKey(key), NEW c \in DOMAIN key, NEW d \in DOMAIN key
  PROVE  /\ ~ahead(key, c, c)
         /\ c # d => ahead(key, c, d) \/ ahead(key, d, c)
         /\ \A e \in DOMAIN key : ahead(key, c, d) /\ ahead(key, d, e) => ahead(key, c, e)
<1>1. \A e \in DOMAIN key : key[e] = <<key[e][1], key[e][2]>> /\ key[e][1] \in Int /\ key[e][2] \in Int /\ e \in Int
  BY DEF IsKey
<1> QED BY <1>1 DEF ahead

\* No two chunks have one place, and a chunk that is ahead has the lower one.
LEMMA PlaceFacts ==
  ASSUME NEW key, IsKey(key), NEW c \in DOMAIN key, NEW d \in DOMAIN key
  PROVE  /\ place(key, c) \in 1..Cardinality(DOMAIN key)
         /\ ahead(key, c, d) => place(key, c) < place(key, d)
         /\ place(key, c) = place(key, d) => c = d
<1> DEFINE Before(x) == {e \in DOMAIN key : ahead(key, e, x)}
<1>1. ASSUME NEW x \in DOMAIN key
      PROVE  /\ IsFiniteSet(Before(x)) /\ Cardinality(Before(x)) \in Nat
             /\ Cardinality(Before(x)) + 1 <= Cardinality(DOMAIN key)
  <2>1. Before(x) \subseteq DOMAIN key /\ x \notin Before(x)
    BY AheadFacts
  <2>2. IsFiniteSet(Before(x)) /\ Cardinality(Before(x)) \in Nat
    BY <2>1, FS_Subset, FS_CardinalityType DEF IsKey
  <2>3. Cardinality(Before(x) \cup {x}) = Cardinality(Before(x)) + 1
    BY <2>1, <2>2, FS_AddElement
  <2>4. Cardinality(Before(x) \cup {x}) <= Cardinality(DOMAIN key)
    BY <2>1, FS_Subset DEF IsKey
  <2> QED BY <2>2, <2>3, <2>4
<1>2. ASSUME NEW x \in DOMAIN key, NEW y \in DOMAIN key, ahead(key, x, y)
      PROVE  Cardinality(Before(x)) < Cardinality(Before(y))
  <2>1. Before(x) \subseteq Before(y)
    BY <1>2, AheadFacts
  <2>2. x \in Before(y) /\ x \notin Before(x)
    BY <1>2, AheadFacts
  <2>3. /\ Cardinality(Before(x)) <= Cardinality(Before(y))
        /\ Cardinality(Before(x)) # Cardinality(Before(y))
    BY <1>1, <2>1, <2>2, FS_Subset
  <2>4. Cardinality(Before(x)) \in Nat /\ Cardinality(Before(y)) \in Nat
    BY <1>1
  <2> HIDE DEF Before
  <2> QED BY <2>3, <2>4
<1>3. \A x : place(key, x) = 1 + Cardinality(Before(x))
  BY DEF place
<1> HIDE DEF Before
<1>4. place(key, c) \in 1..Cardinality(DOMAIN key)
  BY <1>1, <1>3, FS_CardinalityType DEF IsKey
<1>5. ahead(key, c, d) => place(key, c) < place(key, d)
  BY <1>1, <1>2, <1>3
<1>6. ahead(key, d, c) => place(key, d) < place(key, c)
  BY <1>1, <1>2, <1>3
<1> QED BY <1>1, <1>3, <1>4, <1>5, <1>6, AheadFacts

\* The first k of a ranking are a ranking.
LEMMA CutIsRanking ==
  ASSUME NEW ranks, NEW S, IsFiniteSet(S), NEW n \in Nat, Numbers(ranks, S, n), NEW k \in Nat
  PROVE  LET T == {c \in S : ranks[c] <= k}
         IN IsRanking([c \in T |-> ranks[c]]) /\ Cardinality(T) = Smaller(k, n)
<1> DEFINE T == {c \in S : ranks[c] <= k}
           cut == [c \in T |-> ranks[c]]
           m == Smaller(k, n)
<1>1. m \in Nat /\ (\A i : i \in 1..m <=> i \in 1..n /\ i <= k)
  BY DEF Smaller
<1>2. cut \in [T -> 1..m]
  BY <1>1 DEF Numbers
<1>3. cut \in Injection(T, 1..m)
  BY <1>2 DEF Numbers, Injection, IsInjective
<1>4. cut \in Surjection(T, 1..m)
  <2>1. ASSUME NEW i \in 1..m PROVE \E c \in T : cut[c] = i
    <3>1. i \in 1..n /\ i <= k
      BY <1>1
    <3>2. PICK c \in S : ranks[c] = i
      BY <3>1 DEF Numbers, Surjection
    <3> QED BY <3>1, <3>2
  <2> QED BY <1>2, <2>1 DEF Surjection
<1>5. IsFiniteSet(T) /\ Cardinality(T) = m
  <2>1. IsFiniteSet(T)
    BY FS_Subset
  <2>2. IsFiniteSet(1..m) /\ Cardinality(1..m) = m
    BY <1>1, FS_Interval
  <2> QED BY <1>3, <1>4, <2>1, <2>2, FS_Injection
<1> HIDE DEF m
<1>6. IsRanking(cut)
  BY <1>2, <1>3, <1>4, <1>5 DEF IsRanking, Numbers
<1> QED BY <1>5, <1>6 DEF m

\* top is a ranking of the chunks that it is given.
LEMMA TopIsRanking ==
  ASSUME NEW key, IsKey(key), NEW k \in Nat
  PROVE  /\ IsRanking(top(key, k)) /\ DOMAIN top(key, k) \subseteq DOMAIN key
         /\ Cardinality(DOMAIN top(key, k)) = Smaller(k, Cardinality(DOMAIN key))
<1> DEFINE S == DOMAIN key
           n == Cardinality(S)
           places == [c \in S |-> place(key, c)]
<1>1. n \in Nat /\ IsFiniteSet(S)
  BY FS_CardinalityType DEF IsKey
<1>2. places \in [S -> 1..n] /\ places \in Injection(S, 1..n)
  BY PlaceFacts DEF Injection, IsInjective
<1>3. places \in Surjection(S, 1..n)
  BY <1>1, <1>2, FS_Injection, FS_Interval
<1>4. Numbers(places, S, n)
  BY <1>2, <1>3 DEF Numbers
<1>5. top(key, k) = [c \in {c \in S : places[c] <= k} |-> places[c]]
  BY DEF top
<1> HIDE DEF places, n
<1>6. IsRanking(top(key, k)) /\ Cardinality({c \in S : places[c] <= k}) = Smaller(k, n)
  BY <1>1, <1>4, <1>5, CutIsRanking
<1>7. DOMAIN top(key, k) = {c \in S : places[c] <= k}
  BY <1>5
<1> QED BY <1>6, <1>7 DEF n

\* The rank that top gives goes down with the key.
LEMMA TopOrder ==
  ASSUME NEW key, IsKey(key), NEW k \in Nat, NEW c \in DOMAIN top(key, k), NEW d \in DOMAIN top(key, k),
         top(key, k)[c] < top(key, k)[d]
  PROVE  /\ key[c][1] >= key[d][1]
         /\ key[c][1] = key[d][1] => key[c][2] >= key[d][2]
<1>1. c \in DOMAIN key /\ d \in DOMAIN key /\ place(key, c) < place(key, d)
  BY DEF top
<1>2. place(key, c) \in Int /\ place(key, d) \in Int
  BY <1>1, PlaceFacts, FS_CardinalityType DEF IsKey
<1>3. ahead(key, c, d)
  BY <1>1, <1>2, PlaceFacts, AheadFacts
<1>4. key[c] = <<key[c][1], key[c][2]>> /\ key[c][1] \in Int /\ key[c][2] \in Int
      /\ key[d] = <<key[d][1], key[d][2]>> /\ key[d][1] \in Int /\ key[d][2] \in Int
  BY <1>1 DEF IsKey
<1> QED BY <1>3, <1>4 DEF ahead

\* A response lists what was ranked, each chunk at its rank.
LEMMA ResultsFacts ==
  ASSUME NEW ranks, IsRanking(ranks), NEW result
  PROVE  /\ Cardinality(DOMAIN ranks) \in Nat
         /\ DOMAIN Results(ranks, result) = 1..Cardinality(DOMAIN ranks)
         /\ \A i \in DOMAIN Results(ranks, result) :
              \E c \in DOMAIN ranks : ranks[c] = i /\ Results(ranks, result)[i] = result[c]
<1> DEFINE n == Cardinality(DOMAIN ranks)
           order == listed(ranks)
<1>1. n \in Nat
  BY FS_CardinalityType DEF IsRanking
<1>2. DOMAIN order = 1..n /\ \A i \in 1..n : order[i] = CHOOSE c \in DOMAIN ranks : ranks[c] = i
  BY DEF listed
<1>3. \A i \in 1..n : order[i] \in DOMAIN ranks /\ ranks[order[i]] = i
  <2> TAKE i \in 1..n
  <2>1. \E c \in DOMAIN ranks : ranks[c] = i
    BY DEF IsRanking, Numbers, Surjection
  <2> QED BY <1>2, <2>1
<1> HIDE DEF order
<1>4. Results(ranks, result) = [i \in DOMAIN order |-> result[order[i]]]
  BY DEF Results, order
<1> QED BY <1>1, <1>2, <1>3, <1>4

-----------------------------------------------------------------------------
(* What the retrievers rank.                                               *)

\* A corpus, or a part of one.
IsFound(found) ==
  /\ IsFiniteSet(DOMAIN found) /\ DOMAIN found \subseteq Int
  /\ \A c \in DOMAIN found : found[c].text \in Texts

\* A ranking of chunks of a corpus.
Ranks(ranks, found) == IsRanking(ranks) /\ DOMAIN ranks \subseteq DOMAIN found

\* Scores are natural numbers.
LEMMA LexicalScores ==
  ASSUME NEW c, NEW q
  PROVE  exact_priority(c, q) \in Nat /\ lexical_score(c, q) \in Nat
<1>1. Boost \in Nat
  BY RetrievalAssumption
<1>2. exact_priority(c, q) \in Nat
  BY <1>1 DEF exact_priority, Points
<1> HIDE DEF exact_priority
<1> QED BY <1>2 DEF lexical_score, Points

LEMMA RrfScores ==
  ASSUME NEW lexical, NEW dense, IsRanking(lexical), IsRanking(dense), NEW c
  PROVE  rrf_score(lexical, dense, c) \in Nat
<1>1. ASSUME NEW ranks, IsRanking(ranks) PROVE rrf_contribution(ranks, c) \in Nat
  <2>1. RrfScale \in Nat /\ RrfK \in Nat
    BY RetrievalAssumption
  <2>2. CASE c \in DOMAIN ranks
    <3>1. ranks[c] \in 1..Cardinality(DOMAIN ranks) /\ Cardinality(DOMAIN ranks) \in Nat
      BY <1>1, <2>2, FS_CardinalityType DEF IsRanking, Numbers
    <3>2. RrfK + ranks[c] \in Nat \ {0}
      BY <2>1, <3>1
    <3>3. rrf_contribution(ranks, c) = RrfScale \div (RrfK + ranks[c])
      BY <2>2 DEF rrf_contribution
    <3> QED BY <2>1, <3>2, <3>3
  <2>3. CASE c \notin DOMAIN ranks
    BY <2>3 DEF rrf_contribution
  <2> QED BY <2>2, <2>3
<1>2. rrf_contribution(lexical, c) \in Nat /\ rrf_contribution(dense, c) \in Nat
  BY <1>1
<1> QED BY <1>2 DEF rrf_score

\* The lexical ranking.
LEMMA LexicalRanksFacts ==
  ASSUME NEW found, IsFound(found), NEW q, NEW k \in Nat
  PROVE  Ranks(lexical_ranks(found, q, k), found)
<1> DEFINE S == {c \in DOMAIN found : lexical_score(found[c], q) > 0}
           key == [c \in S |-> <<lexical_score(found[c], q), 0>>]
<1>1. IsFiniteSet(S) /\ S \subseteq Int
  BY FS_Subset DEF IsFound
<1>2. \A c \in S : key[c] \in Int \X Int
  BY LexicalScores
<1>3. DOMAIN key = S
  OBVIOUS
<1>4. IsKey(key)
  <2> HIDE DEF key, S
  <2> QED BY <1>1, <1>2, <1>3 DEF IsKey
<1>5. lexical_ranks(found, q, k) = top(key, k)
  BY DEF lexical_ranks
<1> HIDE DEF key
<1> QED BY <1>3, <1>4, <1>5, TopIsRanking DEF Ranks

\* Every dense ranking.
LEMMA DenseRankingFacts ==
  ASSUME NEW found, IsFound(found), NEW r, r.query \in Queries, NEW k \in Nat,
         NEW ranks \in dense_rankings(found, r, k)
  PROVE  Ranks(ranks, found)
<1>1. Ranks(NothingRanked, found)
  <2>1. DOMAIN NothingRanked = {} /\ NothingRanked = <<>>
    BY DEF NothingRanked
  <2>2. IsFiniteSet(DOMAIN NothingRanked) /\ Cardinality(DOMAIN NothingRanked) = 0
    BY <2>1, FS_EmptySet
  <2>3. NothingRanked \in [{} -> 1..0]
    BY DEF NothingRanked
  <2> QED BY <2>1, <2>2, <2>3 DEF Ranks, IsRanking, Numbers, Injection, Surjection, IsInjective
<1>2. ASSUME ranks \in query_points(found, r, k) PROVE Ranks(ranks, found)
  <2> DEFINE S == {c \in DOMAIN found : passes_filter(found[c], r)}
             Key(tie) == [c \in S |-> <<Similarity[r.query][found[c].text], tie[c]>>]
  <2>1. query_points(found, r, k) = {top(Key(tie), k) : tie \in ties(S)}
    BY DEF query_points
  <2>2. PICK tie \in ties(S) : ranks = top(Key(tie), k)
    BY <1>2, <2>1
  <2>3. IsFiniteSet(S) /\ S \subseteq Int
    BY FS_Subset DEF IsFound
  <2>4. tie \in [S -> S]
    BY DEF ties
  <2>5. \A c \in S : Similarity[r.query][found[c].text] \in Nat
    BY RetrievalAssumption DEF IsFound
  <2>6. \A c \in S : Key(tie)[c] \in Int \X Int
    BY <2>3, <2>4, <2>5
  <2>7. DOMAIN Key(tie) = S
    OBVIOUS
  <2>8. IsKey(Key(tie))
    <3> HIDE DEF Key, S
    <3> QED BY <2>3, <2>6, <2>7 DEF IsKey
  <2> HIDE DEF Key
  <2> QED BY <2>2, <2>7, <2>8, TopIsRanking DEF Ranks
<1> QED BY <1>1, <1>2 DEF dense_rankings

\* Reciprocal rank fusion ranks what its two parts have ranked and it keeps; what does not
\* match exactly, by the fused score.
LEMMA FusedFacts ==
  ASSUME NEW found, IsFound(found), NEW r, r.top_k \in Nat, NEW lexical, NEW dense,
         Ranks(lexical, found), Ranks(dense, found)
  PROVE  LET pool == fused(found, lexical, dense, r)
             exact(c) == fused_priority(found, lexical, r.query, c) > 0
         IN /\ Ranks(pool, found) /\ DOMAIN pool \subseteq kept(found, lexical, dense, r.query)
            /\ \A c, d \in DOMAIN pool :
                 (pool[c] < pool[d] /\ ~exact(c) /\ ~exact(d)) =>
                   rrf_score(lexical, dense, c) >= rrf_score(lexical, dense, d)
<1> DEFINE q == r.query
           S == kept(found, lexical, dense, q)
           Key(c) == <<IF q \in NamesIdentifier THEN fused_priority(found, lexical, q, c) ELSE 0,
                       rrf_score(lexical, dense, c)>>
           key == [c \in S |-> Key(c)]
           k == Larger(r.top_k, RerankTopK)
<1>1. S \subseteq DOMAIN found
  BY DEF kept, Ranks
<1>2. IsFiniteSet(S) /\ S \subseteq Int
  BY <1>1, FS_Subset DEF IsFound
<1>3. \A c \in S : fused_priority(found, lexical, q, c) \in Nat /\ rrf_score(lexical, dense, c) \in Nat
  BY LexicalScores, RrfScores DEF fused_priority, Ranks
<1>4. \A c \in S : key[c] \in Int \X Int
  BY <1>3
<1>5. DOMAIN key = S
  OBVIOUS
<1>6. k \in Nat
  BY RetrievalAssumption DEF Larger
<1>7. fused(found, lexical, dense, r) = top(key, k)
  BY DEF fused
<1>8. \A c \in S : key[c][1] = Key(c)[1] /\ key[c][2] = rrf_score(lexical, dense, c)
  OBVIOUS
<1>9. ASSUME NEW c \in S, NEW d \in S, ~(fused_priority(found, lexical, q, c) > 0),
             ~(fused_priority(found, lexical, q, d) > 0)
      PROVE  key[c][1] = key[d][1]
  BY <1>3, <1>8, <1>9
<1> HIDE DEF key, S, k
<1>10. IsKey(key)
  BY <1>2, <1>4, <1>5 DEF IsKey
<1>11. DOMAIN top(key, k) \subseteq S /\ IsRanking(top(key, k))
  BY <1>5, <1>6, <1>10, TopIsRanking
<1>12. ASSUME NEW c \in DOMAIN top(key, k), NEW d \in DOMAIN top(key, k), top(key, k)[c] < top(key, k)[d],
              ~(fused_priority(found, lexical, q, c) > 0), ~(fused_priority(found, lexical, q, d) > 0)
       PROVE  rrf_score(lexical, dense, c) >= rrf_score(lexical, dense, d)
  BY <1>6, <1>8, <1>9, <1>10, <1>11, <1>12, TopOrder
<1> QED BY <1>1, <1>7, <1>11, <1>12 DEF Ranks, S

\* Reranking ranks what was fused.
LEMMA RerankScores ==
  ASSUME NEW found, IsFound(found), NEW lexical, NEW dense, NEW q \in Queries,
         Ranks(lexical, found), Ranks(dense, found), NEW c \in DOMAIN found
  PROVE  rerank_score(found, found, lexical, dense, q, c) \in Int
<1>1. found[c].text \in Texts
  BY DEF IsFound
<1>2. /\ Overlap[q][found[c].text] \in Nat /\ Similarity[q][found[c].text] \in Nat
      /\ source_bonus(found[c], q) \in Nat
  BY <1>1, RetrievalAssumption DEF source_bonus, Points
<1>3. lexical_score(found[c], q) \in Nat /\ rrf_score(lexical, dense, c) \in Nat
  BY LexicalScores, RrfScores DEF Ranks
<1>4. /\ DenseWeight \in Nat /\ LexicalWeight \in Nat /\ LexicalNorm \in Nat /\ RrfWeight \in Nat
      /\ RrfNorm \in Nat /\ RrfNorm >= 100
  BY RetrievalAssumption
<1> DEFINE d == IF c \in DOMAIN dense THEN Similarity[q][found[c].text] ELSE 0
           l == IF c \in DOMAIN lexical THEN Smaller(lexical_score(found[c], q), LexicalNorm) ELSE 0
           f == Smaller(rrf_score(lexical, dense, c), RrfNorm) \div (RrfNorm \div 100)
<1>5. d \in Nat /\ l \in Nat
  BY <1>2, <1>3, <1>4 DEF Smaller
<1>6. f \in Nat
  <2>1. RrfNorm \div 100 \in Nat \ {0}
    BY <1>4
  <2>2. Smaller(rrf_score(lexical, dense, c), RrfNorm) \in Nat
    BY <1>3, <1>4 DEF Smaller
  <2> QED BY <2>1, <2>2
<1>7. rerank_score(found, found, lexical, dense, q, c)
        = Overlap[q][found[c].text] + source_bonus(found[c], q)
            + DenseWeight * d + LexicalWeight * l + RrfWeight * f
  BY Zenon DEF rerank_score
<1> HIDE DEF d, l, f
<1>8. \A m, n \in Nat : m * n \in Nat
  OBVIOUS
<1>9. DenseWeight * d \in Nat /\ LexicalWeight * l \in Nat /\ RrfWeight * f \in Nat
  BY <1>4, <1>5, <1>6, <1>8
<1> QED BY <1>2, <1>7, <1>9

\* Hybrid retrieval ranks some of that, by the score of reranking where it reranks.
LEMMA HybridRanksFacts ==
  ASSUME NEW found, IsFound(found), NEW r, r.top_k \in Nat, r.query \in Queries,
         NEW lexical, NEW dense, Ranks(lexical, found), Ranks(dense, found)
  PROVE  LET ranks == hybrid_ranks(found, found, lexical, dense, r)
             exact(c) == fused_priority(found, lexical, r.query, c) > 0
             Score(c) == rerank_score(found, found, lexical, dense, r.query, c)
         IN /\ Ranks(ranks, found) /\ DOMAIN ranks \subseteq kept(found, lexical, dense, r.query)
            /\ \A c, d \in DOMAIN ranks : ranks[c] < ranks[d] =>
                 IF r.query \in NamesIdentifier
                   THEN ~exact(c) /\ ~exact(d) =>
                          rrf_score(lexical, dense, c) >= rrf_score(lexical, dense, d)
                   ELSE Score(c) >= Score(d)
<1> DEFINE pool == fused(found, lexical, dense, r)
           ranks == hybrid_ranks(found, found, lexical, dense, r)
           key == [c \in DOMAIN pool |-> <<rerank_score(found, found, lexical, dense, r.query, c), 0>>]
<1>1. Ranks(pool, found) /\ DOMAIN pool \subseteq kept(found, lexical, dense, r.query)
  BY FusedFacts
<1> DEFINE exact(c) == fused_priority(found, lexical, r.query, c) > 0
           Score(c) == rerank_score(found, found, lexical, dense, r.query, c)
           Lower(c, d) == rrf_score(lexical, dense, c) >= rrf_score(lexical, dense, d)
<1>4. \A c, d \in DOMAIN pool : pool[c] < pool[d] /\ ~exact(c) /\ ~exact(d) => Lower(c, d)
  BY FusedFacts
<1>2. CASE r.query \in NamesIdentifier
  <2>1. ranks = [c \in {c \in DOMAIN pool : pool[c] <= r.top_k} |-> pool[c]]
    BY <1>2 DEF hybrid_ranks, Restrict
  <2>2. IsRanking(ranks) /\ DOMAIN ranks \subseteq DOMAIN pool
    <3> HIDE DEF pool, ranks
    <3> QED BY <1>1, <2>1, CutIsRanking, FS_CardinalityType DEF Ranks, IsRanking
  <2>3. Ranks(ranks, found) /\ DOMAIN ranks \subseteq kept(found, lexical, dense, r.query)
    <3> HIDE DEF pool, ranks
    <3> QED BY <1>1, <2>2 DEF Ranks
  <2>4. \A c \in DOMAIN ranks : c \in DOMAIN pool /\ ranks[c] = pool[c]
    <3> HIDE DEF pool, ranks
    <3> QED BY <2>1
  <2>5. \A c, d \in DOMAIN ranks : ranks[c] < ranks[d] => (~exact(c) /\ ~exact(d) => Lower(c, d))
    <3> HIDE DEF pool, ranks, exact, Lower
    <3> QED BY <1>4, <2>4
  <2> QED BY <1>2, <2>3, <2>5
<1>3. CASE r.query \notin NamesIdentifier
  <2>1. ranks = top(key, r.top_k)
    BY <1>3 DEF hybrid_ranks
  <2>2. DOMAIN key = DOMAIN pool
    OBVIOUS
  <2>3. \A c \in DOMAIN key : key[c] \in Int \X Int
    BY <1>1, RerankScores DEF Ranks
  <2>4. IsKey(key)
    <3> HIDE DEF key, pool
    <3> QED BY <1>1, <2>2, <2>3 DEF IsKey, IsFound, Ranks, IsRanking
  <2>5. Ranks(ranks, found) /\ DOMAIN ranks \subseteq kept(found, lexical, dense, r.query)
    <3> HIDE DEF key, ranks
    <3> QED BY <1>1, <2>1, <2>2, <2>4, TopIsRanking DEF Ranks
  <2>6. \A c \in DOMAIN ranks : c \in DOMAIN key
    <3> HIDE DEF key, ranks
    <3> QED BY <2>1, <2>4, TopIsRanking
  <2>7. \A c \in DOMAIN key : key[c][1] = Score(c)
    OBVIOUS
  <2>8. \A c, d \in DOMAIN ranks : ranks[c] < ranks[d] => Score(c) >= Score(d)
    <3> HIDE DEF key, ranks, Score
    <3> QED BY <2>1, <2>4, <2>6, <2>7, TopOrder
  <2> QED BY <1>3, <2>5, <2>8
<1> QED BY <1>2, <1>3

-----------------------------------------------------------------------------
(* The service.                                                            *)

LEMMA RestrictFacts ==
  ASSUME NEW f, NEW S, S \subseteq DOMAIN f
  PROVE  /\ DOMAIN Restrict(f, S) = S
         /\ \A c \in S : Restrict(f, S)[c] = f[c]
         /\ \A T \in SUBSET S : Restrict(Restrict(f, S), T) = Restrict(f, T)
BY DEF Restrict

\* The candidates are the chunks that the role may see and the request is about, as they
\* are in the corpus.
LEMMA CandidateFacts ==
  ASSUME NEW corpus, NEW r
  PROVE  LET S == {c \in DOMAIN corpus : /\ evaluate_chunk_access(corpus[c], r.role)
                                         /\ request_allows_chunk(corpus[c], r)}
         IN candidates(corpus, r) = Restrict(corpus, S)
<1> DEFINE A == {c \in DOMAIN corpus : evaluate_chunk_access(corpus[c], r.role)}
           seen == Restrict(corpus, A)
           B == {c \in DOMAIN seen : request_allows_chunk(seen[c], r)}
<1>1. candidates(corpus, r) = Restrict(seen, B)
  BY DEF candidates, scope_chunks_for_request, filter_authorized_chunks
<1>2. DOMAIN seen = A /\ \A c \in A : seen[c] = corpus[c]
  BY RestrictFacts
<1>3. B = {c \in DOMAIN corpus : /\ evaluate_chunk_access(corpus[c], r.role)
                                 /\ request_allows_chunk(corpus[c], r)}
  BY <1>2
<1>4. B \in SUBSET A
  BY <1>2
<1> HIDE DEF B
<1>5. Restrict(seen, B) = Restrict(corpus, B)
  BY <1>4, RestrictFacts
<1> QED BY <1>1, <1>3, <1>5

\* A library without what the role may not see has the same candidates, and so the same
\* responses.
LEMMA DeniedAdditionsIgnored ==
  ASSUME NEW corpus, NEW r
  PROVE  responses(filter_authorized_chunks(corpus, r.role), r) = responses(corpus, r)
<1> DEFINE A == {c \in DOMAIN corpus : evaluate_chunk_access(corpus[c], r.role)}
           seen == Restrict(corpus, A)
           S == {c \in DOMAIN corpus : /\ evaluate_chunk_access(corpus[c], r.role)
                                       /\ request_allows_chunk(corpus[c], r)}
           T == {c \in DOMAIN seen : /\ evaluate_chunk_access(seen[c], r.role)
                                     /\ request_allows_chunk(seen[c], r)}
<1>1. candidates(corpus, r) = Restrict(corpus, S) /\ candidates(seen, r) = Restrict(seen, T)
  BY CandidateFacts
<1>2. DOMAIN seen = A /\ \A c \in A : seen[c] = corpus[c]
  BY RestrictFacts
<1>3. T = S /\ S \in SUBSET A
  BY <1>2
<1>4. Restrict(seen, S) = Restrict(corpus, S)
  <2> HIDE DEF S
  <2> QED BY <1>3, RestrictFacts
<1>5. candidates(seen, r) = candidates(corpus, r)
  <2> HIDE DEF S, T, seen
  <2> QED BY <1>1, <1>3, <1>4
<1>6. filter_authorized_chunks(corpus, r.role) = seen
  BY DEF filter_authorized_chunks
<1> HIDE DEF seen
<1> QED BY <1>5, <1>6 DEF responses

\* A request as the service completes it.
IsRequest(r) ==
  /\ DOMAIN r = {"query", "role", "method", "top_k", "types", "jurisdiction", "as_of"}
  /\ r.query \in Queries /\ r.method \in Methods /\ r.top_k \in Nat

lexical_answer(found, r) ==
  lexical_ranks(found, r.query, IF r.method = "hybrid" THEN lexical_limit(r) ELSE r.top_k)
dense_part(r) == IF r.method = "hybrid" THEN dense_request(r) ELSE r

\* What each stage has made of the library and the request.
ServiceInv ==
  /\ library \in Corpora
  /\ stage \in {"idle", "scope", "lexical", "dense", "respond", "done"}
  /\ stage # "idle" => IsRequest(req)
  /\ stage \in {"lexical", "dense", "respond", "done"} => scoped = candidates(library, req)
  /\ stage = "lexical" => req.method # "dense"
  /\ stage = "dense" => req.method # "lexical"
  /\ (stage \in {"dense", "respond", "done"} /\ req.method # "dense") =>
       lexical_list = lexical_answer(candidates(library, req), req)
  /\ (stage \in {"respond", "done"} /\ req.method # "lexical") =>
       dense_list \in dense_rankings(candidates(library, req), dense_part(req), dense_part(req).top_k)
  /\ stage = "done" => results \in responses(library, req)

LEMMA RequestFacts ==
  ASSUME NEW call, IsCall(call)
  PROVE  /\ IsRequest(request(call)) /\ request(call).query = call.query
         /\ request(call).role = call.role /\ request(call).types = call.types
         /\ request(call).jurisdiction = call.jurisdiction
         /\ request(call).as_of = IF call.as_of = NoDate THEN DateIn[call.query] ELSE call.as_of
         /\ request(call).method = IF call.method = NoMethod THEN DefaultMethod ELSE call.method
         /\ request(call).top_k = IF call.top_k = 0 THEN FinalTopK ELSE call.top_k
<1>1. FinalTopK \in Nat /\ DefaultMethod \in Methods
  BY RetrievalAssumption, ServiceAssumption
<1> QED BY <1>1 DEF IsCall, request, IsRequest

\* A call that IsCall admits, and every step after it, keeps the service in order.
LEMMA RetrieveKeeps ==
  ASSUME ServiceInv, NEW call, IsCall(call), Retrieve(call)
  PROVE  ServiceInv'
<1>1. IsRequest(req')
  BY RequestFacts DEF Retrieve
<1>2. stage' = "scope" /\ library' = library
  BY DEF Retrieve
<1> QED BY <1>1, <1>2 DEF ServiceInv

LEMMA WorkingKeeps ==
  ASSUME ServiceInv, Working
  PROVE  ServiceInv' /\ UNCHANGED <<library, req>>
<1>1. CASE Scope
  <2>1. stage = "scope" /\ IsRequest(req)
    BY <1>1 DEF Scope, ServiceInv
  <2>2. UNCHANGED <<library, req>> /\ scoped' = candidates(library, req)
    BY <1>1 DEF Scope
  <2>3. stage' = IF req.method = "dense" THEN "dense" ELSE "lexical"
    BY <1>1 DEF Scope
  <2> QED BY <2>1, <2>2, <2>3 DEF ServiceInv
<1>2. CASE RankLexical
  <2>1. stage = "lexical" /\ IsRequest(req) /\ req.method # "dense" /\ scoped = candidates(library, req)
    BY <1>2 DEF RankLexical, ServiceInv
  <2>2. UNCHANGED <<library, req, scoped>>
    BY <1>2 DEF RankLexical
  <2>3. lexical_list' = lexical_answer(candidates(library, req), req)
    BY <1>2, <2>1 DEF RankLexical, lexical_answer
  <2>4. stage' = IF req.method = "hybrid" THEN "dense" ELSE "respond"
    BY <1>2 DEF RankLexical
  <2>5. req.method \in {"hybrid", "lexical"}
    BY <2>1 DEF IsRequest, Methods
  <2> QED BY <2>1, <2>2, <2>3, <2>4, <2>5 DEF ServiceInv
<1>3. CASE RankDense
  <2>1. stage = "dense" /\ IsRequest(req) /\ req.method # "lexical" /\ scoped = candidates(library, req)
    BY <1>3 DEF RankDense, ServiceInv
  <2>2. UNCHANGED <<library, req, scoped, lexical_list>> /\ stage' = "respond"
    BY <1>3 DEF RankDense
  <2>3. dense_list' \in dense_rankings(candidates(library, req), dense_part(req), dense_part(req).top_k)
    BY <1>3, <2>1 DEF RankDense, dense_part
  <2> QED BY <2>1, <2>2, <2>3 DEF ServiceInv
<1>4. CASE Respond
  <2>1. stage = "respond" /\ IsRequest(req) /\ scoped = candidates(library, req)
    BY <1>4 DEF Respond, ServiceInv
  <2>2. UNCHANGED <<library, req, scoped, lexical_list, dense_list>> /\ stage' = "done"
    BY <1>4 DEF Respond
  <2>3. results' \in responses(library, req)
    <3> DEFINE found == candidates(library, req)
    <3>1. CASE req.method = "lexical"
      <4>1. lexical_list = lexical_ranks(found, req.query, req.top_k)
        BY <2>1, <3>1 DEF ServiceInv, lexical_answer
      <4>2. results' = lexical_results(found, req, lexical_list)
        BY <1>4, <2>1, <3>1 DEF Respond
      <4>3. responses(library, req) = {lexical_results(found, req, lexical_ranks(found, req.query, req.top_k))}
        BY <3>1 DEF responses
      <4> HIDE DEF found
      <4> QED BY <4>1, <4>2, <4>3
    <3>2. CASE req.method = "dense"
      <4>1. dense_list \in dense_rankings(found, req, req.top_k)
        BY <2>1, <3>2 DEF ServiceInv, dense_part
      <4>2. results' = dense_results(found, req, dense_list)
        BY <1>4, <2>1, <3>2 DEF Respond
      <4>3. responses(library, req) = {dense_results(found, req, ranks) : ranks \in dense_rankings(found, req, req.top_k)}
        BY <3>2 DEF responses
      <4> HIDE DEF found
      <4> QED BY <4>1, <4>2, <4>3
    <3>3. CASE req.method = "hybrid"
      <4> DEFINE r == dense_request(req)
                 lexical == lexical_ranks(found, req.query, lexical_limit(req))
      <4>1. dense_list \in dense_rankings(found, r, r.top_k) /\ lexical_list = lexical
        BY <2>1, <3>3 DEF ServiceInv, dense_part, lexical_answer
      <4>2. results' = hybrid_results(found, found, lexical_list, dense_list, req)
        BY <1>4, <2>1, <3>3 DEF Respond
      <4>3. responses(library, req) = {hybrid_results(found, found, lexical, dense, req) : dense \in dense_rankings(found, r, r.top_k)}
        BY <3>3 DEF responses
      <4> HIDE DEF found, lexical, r
      <4> QED BY <4>1, <4>2, <4>3
    <3> QED BY <2>1, <3>1, <3>2, <3>3 DEF IsRequest, Methods
  <2> QED BY <2>1, <2>2, <2>3 DEF ServiceInv
<1> QED BY <1>1, <1>2, <1>3, <1>4 DEF Working, Scope, RankLexical, RankDense, Respond

LEMMA ReturnKeeps ==
  ASSUME ServiceInv, Return
  PROVE  ServiceInv'
BY DEF ServiceInv, Return

LEMMA ServiceInit ==
  ASSUME Init
  PROVE  ServiceInv
BY DEF Init, ServiceInv, Corpora

LEMMA ServiceStutters ==
  ASSUME ServiceInv, UNCHANGED vars
  PROVE  ServiceInv'
BY DEF ServiceInv, vars

LEMMA InvisibleWhenInOrder ==
  ASSUME ServiceInv
  PROVE  DeniedHasNoInfluence
BY DeniedAdditionsIgnored DEF ServiceInv, DeniedHasNoInfluence

\* Whatever is asked, the service makes of the library and the request what its stage
\* stands for (retrieval/service.py:40-110).
THEOREM ServiceInvariant == Spec => []ServiceInv
<1>1. Init => ServiceInv
  BY ServiceInit
<1>2. ServiceInv /\ [Next]_vars => ServiceInv'
  BY CallsAssumption, RetrieveKeeps, WorkingKeeps, ReturnKeeps, ServiceStutters DEF Next
<1> QED BY <1>1, <1>2, PTL DEF Spec

\* A chunk that the role may not see has no influence on a response, whatever is in the
\* library and whatever is asked (security/rbac.py, retrieval/service.py).
THEOREM DeniedIsInvisible == Spec => []DeniedHasNoInfluence
BY ServiceInvariant, InvisibleWhenInOrder, PTL

-----------------------------------------------------------------------------
(* What every response is like.                                            *)

LEMMA DivMonotone ==
  ASSUME NEW a \in Int, NEW b \in Int, a <= b, NEW d \in Nat \ {0}
  PROVE  a \div d <= b \div d
<1> DEFINE m == a \div d
           n == b \div d
<1>1. m \in Int /\ n \in Int /\ d * m <= a /\ b < d * n + d
  OBVIOUS
<1>2. ASSUME n + 1 <= m PROVE FALSE
  <2>1. d * (n + 1) <= d * m
    BY <1>1, <1>2
  <2>2. d * (n + 1) = d * n + d /\ d * n \in Int /\ d * m \in Int
    BY <1>1
  <2> QED BY <1>1, <2>1, <2>2
<1> HIDE DEF m, n
<1>3. m <= n
  BY <1>1, <1>2
<1> QED BY <1>3 DEF m, n

LEMMA DivAntitone ==
  ASSUME NEW a \in Nat, NEW d \in Nat \ {0}, NEW e \in Nat \ {0}, d <= e
  PROVE  a \div e <= a \div d /\ a \div e \in Nat
<1> DEFINE m == a \div e
           n == a \div d
<1>1. m \in Nat /\ n \in Nat /\ e * m <= a /\ a < d * n + d
  OBVIOUS
<1>2. ASSUME n + 1 <= m PROVE FALSE
  <2>1. d * m <= e * m /\ d * (n + 1) <= d * m
    BY <1>1, <1>2
  <2>2. d * (n + 1) = d * n + d /\ d * n \in Int /\ d * m \in Int /\ e * m \in Int
    BY <1>1
  <2> QED BY <1>1, <2>1, <2>2
<1> HIDE DEF m, n
<1>3. m <= n
  BY <1>1, <1>2
<1> QED BY <1>1, <1>3 DEF m, n

\* What the agent relies on in a list of results: it lists candidates; exact matches stand
\* alone in it; without them it is in the order of its scores; and in what is not the
\* outcome of dense retrieval alone, a sibling has no more than a dense rank.
Listing(found, r, ranked) ==
  /\ \E n \in Nat : DOMAIN ranked = 1..n
  /\ \A i \in DOMAIN ranked : ranked[i].chunk \in DOMAIN found /\ ranked[i].score \in Int
                           /\ ranked[i].exact \in BOOLEAN
  /\ score_kind(r) = "rrf" =>
       (\A i \in DOMAIN ranked : ranked[i].exact) \/ (\A i \in DOMAIN ranked : ~ranked[i].exact)
  /\ (score_kind(r) # "rrf" \/ \A i \in DOMAIN ranked : ~ranked[i].exact) =>
       \A i, j \in DOMAIN ranked : i < j => ranked[i].score >= ranked[j].score
  /\ score_kind(r) = "dense" => \A i \in DOMAIN ranked : ~ranked[i].exact
  /\ \A i \in DOMAIN ranked :
       (sibling(found[ranked[i].chunk], Terms[r.query]) /\ r.method # "dense") =>
         score_kind(r) = "rrf" /\ ~ranked[i].exact /\ ranked[i].score <= RrfScale \div (RrfK + 1)

\* What is listed at two places was ranked at those places.
LEMMA ListedOrder ==
  ASSUME NEW key, IsKey(key), NEW k \in Nat, NEW result,
         NEW i \in DOMAIN Results(top(key, k), result), NEW j \in DOMAIN Results(top(key, k), result), i < j
  PROVE  \E c, d \in DOMAIN top(key, k) :
           /\ Results(top(key, k), result)[i] = result[c] /\ Results(top(key, k), result)[j] = result[d]
           /\ key[c][1] >= key[d][1]
           /\ key[c][1] = key[d][1] => key[c][2] >= key[d][2]
<1> DEFINE ranks == top(key, k)
<1>1. IsRanking(ranks)
  BY TopIsRanking
<1>2. PICK c \in DOMAIN ranks : ranks[c] = i /\ Results(ranks, result)[i] = result[c]
  BY <1>1, ResultsFacts
<1>3. PICK d \in DOMAIN ranks : ranks[d] = j /\ Results(ranks, result)[j] = result[d]
  BY <1>1, ResultsFacts
<1>4. ranks[c] < ranks[d]
  BY <1>2, <1>3
<1> QED BY <1>2, <1>3, <1>4, TopOrder

\* A sibling of the paragraph asked for earns nothing.
LEMMA SiblingEarnsNothing ==
  ASSUME NEW c, NEW q, sibling(c, Terms[q])
  PROVE  exact_priority(c, q) = 0 /\ lexical_score(c, q) = 0
<1>1. exact_priority(c, q) = 0
  BY DEF exact_priority
<1> QED BY <1>1 DEF lexical_score, Points

LEMMA LexicalListing ==
  ASSUME NEW found, IsFound(found), NEW r, IsRequest(r), r.method = "lexical"
  PROVE  Listing(found, r, lexical_results(found, r, lexical_ranks(found, r.query, r.top_k)))
<1> DEFINE q == r.query
           S == {c \in DOMAIN found : lexical_score(found[c], q) > 0}
           key == [c \in S |-> <<lexical_score(found[c], q), 0>>]
           ranks == lexical_ranks(found, q, r.top_k)
           result == [c \in DOMAIN ranks |->
             [chunk |-> c, source |-> found[c], score |-> lexical_score(found[c], q),
              exact |-> exact_priority(found[c], q) > 0]]
           ranked == Results(ranks, result)
<1>1. lexical_results(found, r, ranks) = ranked
  BY DEF lexical_results
<1>2. ranks = top(key, r.top_k) /\ r.top_k \in Nat
  BY DEF lexical_ranks, IsRequest
<1>3. IsKey(key)
  <2>1. IsFiniteSet(S) /\ S \subseteq Int
    BY FS_Subset DEF IsFound
  <2>2. \A c \in S : key[c] \in Int \X Int
    BY LexicalScores
  <2>3. DOMAIN key = S
    OBVIOUS
  <2> HIDE DEF key, S
  <2> QED BY <2>1, <2>2, <2>3 DEF IsKey
<1>4. IsRanking(ranks) /\ DOMAIN ranks \subseteq S
  <2>1. DOMAIN key = S
    OBVIOUS
  <2> HIDE DEF key, S, ranks
  <2> QED BY <1>2, <1>3, <2>1, TopIsRanking
<1>5. score_kind(r) = "lexical"
  BY DEF score_kind
<1>6. \A c \in DOMAIN ranks :
        /\ result[c].chunk = c /\ result[c].score = lexical_score(found[c], q)
        /\ result[c].exact \in BOOLEAN
        /\ lexical_score(found[c], q) \in Nat /\ lexical_score(found[c], q) > 0
        /\ c \in DOMAIN found
  <2>1. \A c \in DOMAIN ranks :
          /\ lexical_score(found[c], q) \in Nat /\ lexical_score(found[c], q) > 0
          /\ c \in DOMAIN found
    BY <1>4, LexicalScores
  <2>2. \A c \in DOMAIN ranks : (exact_priority(found[c], q) > 0) \in BOOLEAN
    OBVIOUS
  <2> HIDE DEF ranks
  <2> QED BY <2>1, <2>2
<1>7. \A c \in S : key[c][1] = lexical_score(found[c], q)
  OBVIOUS
<1> HIDE DEF result, key, ranks, S
<1>8. /\ Cardinality(DOMAIN ranks) \in Nat /\ DOMAIN ranked = 1..Cardinality(DOMAIN ranks)
      /\ \A i \in DOMAIN ranked : \E c \in DOMAIN ranks : ranked[i] = result[c]
  BY <1>4, ResultsFacts
<1>9. ASSUME NEW i \in DOMAIN ranked, NEW j \in DOMAIN ranked, i < j
      PROVE  ranked[i].score >= ranked[j].score
  <2>1. PICK c, d \in DOMAIN ranks :
          ranked[i] = result[c] /\ ranked[j] = result[d] /\ key[c][1] >= key[d][1]
    BY <1>2, <1>3, <1>9, ListedOrder
  <2> QED BY <1>4, <1>6, <1>7, <2>1
<1>10. ASSUME NEW i \in DOMAIN ranked
       PROVE  /\ ranked[i].chunk \in DOMAIN found /\ ranked[i].score \in Int
              /\ ranked[i].exact \in BOOLEAN
              /\ ~sibling(found[ranked[i].chunk], Terms[q])
  <2>1. PICK c \in DOMAIN ranks : ranked[i] = result[c]
    BY <1>8
  <2>2. ~sibling(found[c], Terms[q])
    BY <1>6, SiblingEarnsNothing
  <2> QED BY <1>6, <2>1, <2>2
<1> HIDE DEF ranked
<1>11. Listing(found, r, ranked)
  BY <1>5, <1>8, <1>9, <1>10 DEF Listing
<1> QED BY <1>1, <1>11 DEF ranks

LEMMA DenseListing ==
  ASSUME NEW found, IsFound(found), NEW r, IsRequest(r), r.method = "dense",
         NEW ranks \in dense_rankings(found, r, r.top_k)
  PROVE  Listing(found, r, dense_results(found, r, ranks))
<1> DEFINE result == [c \in DOMAIN ranks |->
             [chunk |-> c, source |-> found[c], score |-> Similarity[r.query][found[c].text],
              exact |-> FALSE]]
           ranked == Results(ranks, result)
<1>1. dense_results(found, r, ranks) = ranked
  BY DEF dense_results
<1>2. IsRanking(ranks) /\ DOMAIN ranks \subseteq DOMAIN found
  BY DenseRankingFacts DEF IsRequest, Ranks
<1>3. \A c \in DOMAIN ranks :
        /\ result[c].chunk = c /\ result[c].score = Similarity[r.query][found[c].text]
        /\ result[c].exact = FALSE /\ Similarity[r.query][found[c].text] \in Nat
  BY <1>2, RetrievalAssumption DEF IsFound, IsRequest
<1>4. score_kind(r) = "dense"
  BY DEF score_kind
<1> HIDE DEF result
<1>5. /\ Cardinality(DOMAIN ranks) \in Nat /\ DOMAIN ranked = 1..Cardinality(DOMAIN ranks)
      /\ \A i \in DOMAIN ranked : \E c \in DOMAIN ranks : ranked[i] = result[c]
  BY <1>2, ResultsFacts
<1>6. ASSUME NEW i \in DOMAIN ranked, NEW j \in DOMAIN ranked, i < j
      PROVE  ranked[i].score >= ranked[j].score
  <2>1. CASE ranks = NothingRanked
    <3>1. DOMAIN ranks = {}
      BY <2>1 DEF NothingRanked
    <3> QED BY <1>5, <3>1
  <2>2. CASE ranks \in query_points(found, r, r.top_k)
    <3> DEFINE S == {c \in DOMAIN found : passes_filter(found[c], r)}
               Key(tie) == [c \in S |-> <<Similarity[r.query][found[c].text], tie[c]>>]
    <3>1. query_points(found, r, r.top_k) = {top(Key(tie), r.top_k) : tie \in ties(S)}
      BY DEF query_points
    <3>2. PICK tie \in ties(S) : ranks = top(Key(tie), r.top_k)
      BY <2>2, <3>1
    <3>3. IsFiniteSet(S) /\ S \subseteq Int
      BY FS_Subset DEF IsFound
    <3>4. tie \in [S -> S]
      BY DEF ties
    <3>5. \A c \in S : Similarity[r.query][found[c].text] \in Nat
      BY RetrievalAssumption DEF IsFound, IsRequest
    <3>6. \A c \in S : Key(tie)[c] \in Int \X Int
      BY <3>3, <3>4, <3>5
    <3>7. DOMAIN Key(tie) = S /\ \A c \in S : Key(tie)[c][1] = Similarity[r.query][found[c].text]
      OBVIOUS
    <3>8. IsKey(Key(tie))
      <4> HIDE DEF Key, S
      <4> QED BY <3>3, <3>6, <3>7 DEF IsKey
    <3> HIDE DEF Key
    <3>9. DOMAIN ranks \subseteq S /\ r.top_k \in Nat
      <4> HIDE DEF S
      <4> QED BY <3>2, <3>7, <3>8, TopIsRanking DEF IsRequest
    <3>10. PICK c, d \in DOMAIN ranks :
             /\ ranked[i] = result[c] /\ ranked[j] = result[d]
             /\ Key(tie)[c][1] >= Key(tie)[d][1]
      BY <1>6, <3>2, <3>8, <3>9, ListedOrder
    <3> QED BY <1>3, <3>7, <3>9, <3>10
  <2> QED BY <2>1, <2>2 DEF dense_rankings
<1>7. ASSUME NEW i \in DOMAIN ranked
      PROVE  /\ ranked[i].chunk \in DOMAIN found /\ ranked[i].score \in Int
             /\ ranked[i].exact = FALSE
  <2>1. PICK c \in DOMAIN ranks : ranked[i] = result[c]
    BY <1>5
  <2> QED BY <1>2, <1>3, <2>1
<1> HIDE DEF ranked
<1>8. Listing(found, r, ranked)
  BY <1>4, <1>5, <1>6, <1>7 DEF Listing
<1> QED BY <1>1, <1>8

\* What only the dense part ranks scores no more than its first place.
LEMMA DenseRankAlone ==
  ASSUME NEW lexical, NEW dense, IsRanking(dense), NEW c, c \notin DOMAIN lexical
  PROVE  rrf_score(lexical, dense, c) <= RrfScale \div (RrfK + 1)
<1>1. RrfScale \in Nat /\ RrfK \in Nat
  BY RetrievalAssumption
<1>2. rrf_contribution(lexical, c) = 0 /\ RrfScale \div (RrfK + 1) \in Nat
  BY <1>1 DEF rrf_contribution
<1>3. rrf_contribution(dense, c) \in Nat /\ rrf_contribution(dense, c) <= RrfScale \div (RrfK + 1)
  <2>1. CASE c \in DOMAIN dense
    <3>1. dense[c] \in 1..Cardinality(DOMAIN dense) /\ Cardinality(DOMAIN dense) \in Nat
      BY <2>1, FS_CardinalityType DEF IsRanking, Numbers
    <3>2. RrfK + 1 \in Nat \ {0} /\ RrfK + dense[c] \in Nat \ {0} /\ RrfK + 1 <= RrfK + dense[c]
      BY <1>1, <3>1
    <3>3. rrf_contribution(dense, c) = RrfScale \div (RrfK + dense[c])
      BY <2>1 DEF rrf_contribution
    <3>4. ASSUME NEW m \in Nat \ {0}, NEW n \in Nat \ {0}, m <= n
          PROVE  RrfScale \div n <= RrfScale \div m /\ RrfScale \div n \in Nat
      BY <1>1, <3>4, DivAntitone
    <3>5. /\ RrfScale \div (RrfK + dense[c]) <= RrfScale \div (RrfK + 1)
          /\ RrfScale \div (RrfK + dense[c]) \in Nat
      BY <3>2, <3>4
    <3> QED BY <3>3, <3>5
  <2>2. CASE c \notin DOMAIN dense
    BY <1>2, <2>2 DEF rrf_contribution
  <2> QED BY <2>1, <2>2
<1> QED BY <1>2, <1>3 DEF rrf_score

LEMMA HybridListing ==
  ASSUME NEW found, IsFound(found), NEW r, IsRequest(r), r.method = "hybrid",
         NEW lexical, lexical = lexical_ranks(found, r.query, lexical_limit(r)),
         NEW dense \in dense_rankings(found, dense_request(r), dense_request(r).top_k)
  PROVE  Listing(found, r, hybrid_results(found, found, lexical, dense, r))
<1> DEFINE q == r.query
           ranks == hybrid_ranks(found, found, lexical, dense, r)
           Priority(c) == fused_priority(found, lexical, q, c)
           Fused(c) == rrf_score(lexical, dense, c)
           Reranked(c) == rerank_score(found, found, lexical, dense, q, c)
           Sibling(c) == sibling(found[c], Terms[q])
           result == [c \in DOMAIN ranks |->
             [chunk |-> c,
              source |-> IF c \in DOMAIN lexical THEN found[c] ELSE found[c],
              score |-> IF q \in NamesIdentifier THEN Fused(c) ELSE Reranked(c),
              exact |-> Priority(c) > 0]]
           ranked == Results(ranks, result)
<1>1. hybrid_results(found, found, lexical, dense, r) = ranked
  BY DEF hybrid_results
<1>2. Ranks(lexical, found) /\ Ranks(dense, found)
  <2>1. lexical_limit(r) \in Nat
    BY RetrievalAssumption DEF lexical_limit, Larger, IsRequest
  <2>2. dense_request(r).query = r.query /\ dense_request(r).top_k \in Nat
    BY RetrievalAssumption DEF dense_request, Larger, IsRequest
  <2> QED BY <2>1, <2>2, LexicalRanksFacts, DenseRankingFacts DEF IsRequest
<1>3. /\ Ranks(ranks, found) /\ DOMAIN ranks \subseteq kept(found, lexical, dense, q)
      /\ \A c, d \in DOMAIN ranks : ranks[c] < ranks[d] =>
           IF q \in NamesIdentifier
             THEN ~(Priority(c) > 0) /\ ~(Priority(d) > 0) => Fused(c) >= Fused(d)
             ELSE Reranked(c) >= Reranked(d)
  BY <1>2, HybridRanksFacts DEF IsRequest
<1>4. q \in NamesIdentifier =>
        \/ \A c \in DOMAIN ranks : Priority(c) > 0
        \/ \A c \in DOMAIN ranks : ~(Priority(c) > 0)
  <2> HIDE DEF ranks
  <2> QED BY <1>3 DEF kept
<1>5. score_kind(r) = IF q \in NamesIdentifier THEN "rrf" ELSE "rerank"
  BY DEF score_kind
<1>6. \A c \in DOMAIN ranks : c \in DOMAIN found /\ Fused(c) \in Int /\ Reranked(c) \in Int
  BY <1>2, <1>3, RrfScores, RerankScores DEF Ranks, IsRequest
<1>7. ASSUME NEW c, Sibling(c)
      PROVE  ~(Priority(c) > 0) /\ Fused(c) <= RrfScale \div (RrfK + 1) /\ q \in NamesIdentifier
  <2>1. exact_priority(found[c], q) = 0 /\ lexical_score(found[c], q) = 0
    BY <1>7, SiblingEarnsNothing
  <2>2. DOMAIN lexical \subseteq {d \in DOMAIN found : lexical_score(found[d], q) > 0}
    <3> DEFINE S == {d \in DOMAIN found : lexical_score(found[d], q) > 0}
    <3>1. lexical = top([d \in S |-> <<lexical_score(found[d], q), 0>>], lexical_limit(r))
      BY DEF lexical_ranks
    <3>2. DOMAIN lexical \subseteq S
      <4> HIDE DEF S
      <4> QED BY <3>1 DEF top
    <3> QED BY <3>2
  <2>3. c \notin DOMAIN lexical
    BY <2>1, <2>2
  <2>4. q \in Queries /\ q \in NamesIdentifier
    BY <1>7, RetrievalAssumption DEF sibling, names_article, IsRequest
  <2> QED BY <1>2, <2>1, <2>3, <2>4, DenseRankAlone DEF fused_priority, Ranks
<1>8. \A c \in DOMAIN ranks :
        /\ result[c].chunk = c
        /\ result[c].score = IF q \in NamesIdentifier THEN Fused(c) ELSE Reranked(c)
        /\ result[c].exact \in BOOLEAN /\ (result[c].exact <=> Priority(c) > 0)
  <2>1. \A c : (Priority(c) > 0) \in BOOLEAN
    OBVIOUS
  <2> HIDE DEF ranks, Priority, Fused, Reranked
  <2> QED BY <2>1
<1> HIDE DEF result, ranks, Priority, Fused, Reranked, Sibling
<1>9. /\ Cardinality(DOMAIN ranks) \in Nat /\ DOMAIN ranked = 1..Cardinality(DOMAIN ranks)
      /\ \A i \in DOMAIN ranked : \E c \in DOMAIN ranks : ranks[c] = i /\ ranked[i] = result[c]
  BY <1>3, ResultsFacts DEF Ranks
<1>10. ASSUME NEW i \in DOMAIN ranked
       PROVE  /\ ranked[i].chunk \in DOMAIN found /\ ranked[i].score \in Int
              /\ ranked[i].exact \in BOOLEAN
              /\ Sibling(ranked[i].chunk) =>
                   q \in NamesIdentifier /\ ~ranked[i].exact /\ ranked[i].score <= RrfScale \div (RrfK + 1)
  <2>1. PICK c \in DOMAIN ranks : ranked[i] = result[c]
    BY <1>9
  <2> QED BY <1>6, <1>7, <1>8, <2>1
<1>11. q \in NamesIdentifier =>
         (\A i \in DOMAIN ranked : ranked[i].exact) \/ (\A i \in DOMAIN ranked : ~ranked[i].exact)
  BY <1>4, <1>8, <1>9
<1>12. ASSUME q \notin NamesIdentifier \/ \A i \in DOMAIN ranked : ~ranked[i].exact,
              NEW i \in DOMAIN ranked, NEW j \in DOMAIN ranked, i < j
       PROVE  ranked[i].score >= ranked[j].score
  <2>1. PICK c \in DOMAIN ranks : ranks[c] = i /\ ranked[i] = result[c]
    BY <1>9
  <2>2. PICK d \in DOMAIN ranks : ranks[d] = j /\ ranked[j] = result[d]
    BY <1>9
  <2>3. ranks[c] < ranks[d]
    BY <1>12, <2>1, <2>2
  <2>4. CASE q \in NamesIdentifier
    <3>1. ~(Priority(c) > 0) /\ ~(Priority(d) > 0)
      BY <1>8, <1>12, <2>1, <2>2, <2>4
    <3> QED BY <1>3, <1>8, <2>1, <2>2, <2>3, <2>4, <3>1
  <2>5. CASE q \notin NamesIdentifier
    BY <1>3, <1>8, <2>1, <2>2, <2>3, <2>5
  <2> QED BY <2>4, <2>5
<1> HIDE DEF ranked
<1>13. \A i \in DOMAIN ranked : sibling(found[ranked[i].chunk], Terms[q]) => Sibling(ranked[i].chunk)
  BY DEF Sibling
<1>14. Listing(found, r, ranked)
  BY <1>5, <1>9, <1>10, <1>11, <1>12, <1>13 DEF Listing
<1> QED BY <1>1, <1>14 DEF Priority, Fused, Reranked

\* The candidates are a part of the corpus, as they are in it.
LEMMA CandidatesFound ==
  ASSUME NEW held \in Corpora, NEW r
  PROVE  /\ IsFound(candidates(held, r)) /\ DOMAIN candidates(held, r) \subseteq DOMAIN held
         /\ \A c \in DOMAIN candidates(held, r) : candidates(held, r)[c] = held[c]
<1> DEFINE found == candidates(held, r)
           T == {c \in DOMAIN held : /\ evaluate_chunk_access(held[c], r.role)
                                    /\ request_allows_chunk(held[c], r)}
<1>1. PICK S \in SUBSET DOMAIN Catalogue : held = Restrict(Catalogue, S)
  BY DEF Corpora
<1>2. DOMAIN held = S /\ \A c \in S : held[c] = Catalogue[c]
  BY <1>1, RestrictFacts
<1>3. found = Restrict(held, T)
  BY CandidateFacts
<1>4. T \subseteq S
  BY <1>2
<1> HIDE DEF T
<1>5. DOMAIN found = T /\ \A c \in T : found[c] = held[c]
  <2> HIDE DEF found
  <2> QED BY <1>2, <1>3, <1>4, RestrictFacts
<1>6. IsFiniteSet(T)
  BY <1>4, FS_Subset, ServiceAssumption
<1> HIDE DEF found
<1>7. IsFound(found) /\ DOMAIN found \subseteq DOMAIN held /\ \A c \in DOMAIN found : found[c] = held[c]
  BY <1>2, <1>4, <1>5, <1>6, ServiceAssumption DEF IsFound
<1> QED BY <1>7 DEF found

\* Every response is such a list of candidates.
LEMMA ResponseFacts ==
  ASSUME NEW held \in Corpora, NEW r, IsRequest(r), NEW ranked \in responses(held, r)
  PROVE  Listing(candidates(held, r), r, ranked)
<1> DEFINE found == candidates(held, r)
<1>1. IsFound(found)
  BY CandidatesFound
<1>2. CASE r.method = "lexical"
  <2>1. ranked = lexical_results(found, r, lexical_ranks(found, r.query, r.top_k))
    BY <1>2 DEF responses
  <2> HIDE DEF found
  <2>2. Listing(found, r, ranked)
    BY <1>1, <1>2, <2>1, LexicalListing
  <2> QED BY <2>2 DEF found
<1>3. CASE r.method = "dense"
  <2>1. PICK ranks \in dense_rankings(found, r, r.top_k) : ranked = dense_results(found, r, ranks)
    BY <1>3 DEF responses
  <2> HIDE DEF found
  <2>2. Listing(found, r, ranked)
    BY <1>1, <1>3, <2>1, DenseListing
  <2> QED BY <2>2 DEF found
<1>4. CASE r.method = "hybrid"
  <2> DEFINE lexical == lexical_ranks(found, r.query, lexical_limit(r))
  <2>1. PICK dense \in dense_rankings(found, dense_request(r), dense_request(r).top_k) :
          ranked = hybrid_results(found, found, lexical, dense, r)
    BY <1>4 DEF responses
  <2> HIDE DEF found
  <2>2. Listing(found, r, ranked)
    BY <1>1, <1>4, <2>1, HybridListing
  <2> QED BY <2>2 DEF found
<1> QED BY <1>2, <1>3, <1>4 DEF IsRequest, Methods

-----------------------------------------------------------------------------
(* The agent over the service.                                             *)

\* What transform_query makes of a query.
LEMMA PlanFacts ==
  ASSUME NEW q \in Queries
  PROVE  /\ Agent!plan(q).queries \in Seq(Queries)
         /\ Agent!plan(q).force \in BOOLEAN
         /\ Agent!plan(q).force => Agent!plan(q).queries # <<>>
         /\ Agent!plan(q).strategy = "decomposition" =>
              /\ Len(Agent!plan(q).queries) >= 2 /\ ~Agent!plan(q).force
              /\ IsInjective(Agent!plan(q).queries)
         /\ \A i \in DOMAIN Agent!plan(q).queries :
              /\ Agent!plan(q).queries[i] \in Range(Clauses[q]) \cup Range(Identifiers[q]) \cup Range(Rewrites[q])
              /\ DateIn[q] = NoDate => DateIn[Agent!plan(q).queries[i]] = NoDate
<1>1. /\ Clauses[q] \in Seq(Queries) /\ Identifiers[q] \in Seq(Queries)
      /\ Rewrites[q] \in Seq(Queries) /\ IsInjective(Clauses[q])
  BY SystemAssumption
<1>2. DateIn[q] = NoDate =>
        /\ \A i \in DOMAIN Clauses[q] : DateIn[Clauses[q][i]] = NoDate
        /\ \A i \in DOMAIN Identifiers[q] : DateIn[Identifiers[q][i]] = NoDate
        /\ \A i \in DOMAIN Rewrites[q] : DateIn[Rewrites[q][i]] = NoDate
  BY SystemAssumption
<1>3. \A f : \A i \in DOMAIN f : f[i] \in Range(f)
  BY DEF Range
<1>4. CASE Len(Clauses[q]) >= 2
  <2>1. Agent!plan(q) = [strategy |-> "decomposition", queries |-> Clauses[q], force |-> FALSE]
    BY <1>1, <1>4 DEF Agent!plan
  <2> QED BY <1>1, <1>2, <1>3, <1>4, <2>1
<1>5. CASE Len(Clauses[q]) < 2 /\ Identifiers[q] # <<>>
  <2>1. Agent!plan(q) = [strategy |-> "structured_identifier", queries |-> Identifiers[q], force |-> FALSE]
    BY <1>1, <1>5 DEF Agent!plan
  <2> QED BY <1>1, <1>2, <1>3, <2>1
<1>6. CASE Len(Clauses[q]) < 2 /\ Identifiers[q] = <<>> /\ Rewrites[q] # <<>>
  <2>1. Agent!plan(q) = [strategy |-> "structured_identifier", queries |-> Rewrites[q], force |-> TRUE]
    BY <1>1, <1>6 DEF Agent!plan
  <2> QED BY <1>1, <1>2, <1>3, <1>6, <2>1
<1>7. CASE Len(Clauses[q]) < 2 /\ Identifiers[q] = <<>> /\ Rewrites[q] = <<>>
  <2>1. Agent!plan(q) = [strategy |-> "none", queries |-> <<>>, force |-> FALSE]
    BY <1>1, <1>7 DEF Agent!plan
  <2> QED BY <2>1
<1> QED BY <1>1, <1>4, <1>5, <1>6, <1>7

LEMMA QuestionFacts ==
  ASSUME NEW q \in Questions
  PROVE  /\ q.query \in Queries /\ q.method \in Methods \cup {NoMethod} /\ q.scope.top_k \in Nat
         /\ DateIn[q.query] \in Nat
<1>1. PICK call \in Calls :
        q = [query |-> call.query, role |-> call.role, method |-> call.method, as_of |-> call.as_of,
             scope |-> scope_of(call)]
  BY DEF Questions
<1>2. IsCall(call)
  BY CallsAssumption
<1> QED BY <1>1, <1>2, ServiceAssumption DEF IsCall, scope_of

\* A call for question q: its role, its scope and its date.
ForQuestion(q, c) ==
  /\ c.query \in Queries \cap Askable(q) /\ c.method \in Methods
  /\ c.method \in {q.method, "hybrid", "lexical"} \/ (q.method = NoMethod /\ c.method = DefaultMethod)
  /\ c.role = q.role /\ c.scope = q.scope /\ c.as_of = AskedDate(q)
  /\ AskedDate(q) = NoDate => DateIn[c.query] = NoDate

\* What the service makes of a call.
served_request(q, c) == request(service_call(q, c.query, c.method, c.as_of))

\* The response to a call is one that the service may give.
Served(held, q, x) ==
  /\ ForQuestion(q, x.call)
  /\ \E ranked \in responses(held, served_request(q, x.call)) :
       x.response = Agent!Response(x.call, profile(held, served_request(q, x.call), ranked))

\* The parts of a decomposed query are retrieved in turn.
InTurn(q, c, n) ==
  Agent!plan(q.query).strategy = "decomposition" => c.query = Agent!plan(q.query).queries[n]

\* There is a call to make after n.
CallsFor(q, n) ==
  LET many == Len(Agent!plan(q.query).queries)
  IN IF Agent!plan(q.query).strategy = "decomposition" THEN n < many
     ELSE n > 0 => n <= Smaller(many, MaxRetries)

\* The service works on the call that the agent waits for.
Asking == stage # "idle" => phase = "retrieve" /\ req = served_request(question, agent_call)

\* What is graded, decided and cited is what the service has served.
AgentInv ==
  /\ question \in Questions
  /\ \E S : attempts \in Seq(S)
  /\ phase = "received" => attempts = <<>>
  /\ phase \in {"retrieve", "grade"} => CallsFor(question, Len(attempts))
  /\ phase = "decide" => attempts # <<>>
  /\ phase = "grade" => Served(library, question, retrieved) /\ InTurn(question, retrieved.call, Len(attempts) + 1)
  /\ \A i \in DOMAIN attempts :
       /\ Served(library, question, attempts[i]) /\ InTurn(question, attempts[i].call, i)
       /\ attempts[i].evidence = Agent!grade_evidence(attempts[i].response)
  /\ attempts # <<>> => \E i \in DOMAIN attempts : best = attempts[i]
  /\ final # NoAnswer =>
       \A c \in final.sources : \E i \in DOMAIN attempts : c \in Agent!cited(attempts[i].response)

SystemInv == ServiceInv /\ Asking /\ AgentInv

LEMMA AppendFacts ==
  ASSUME NEW S, NEW s \in Seq(S), NEW e
  PROVE  /\ Append(s, e) \in Seq(S \cup {e}) /\ Append(s, e) # <<>>
         /\ Len(s) \in Nat /\ Len(Append(s, e)) = Len(s) + 1
         /\ DOMAIN s = 1..Len(s) /\ DOMAIN Append(s, e) = 1..(Len(s) + 1)
         /\ \A i \in DOMAIN s : Append(s, e)[i] = s[i]
         /\ Append(s, e)[Len(s) + 1] = e
<1>1. s \in Seq(S \cup {e})
  OBVIOUS
<1> QED BY <1>1

\* The calls that the agent makes.
LEMMA CallForFacts ==
  ASSUME question \in Questions, NEW text \in Queries \cap Askable(question),
         NEW method \in {question.method, "hybrid", "lexical"},
         AskedDate(question) = NoDate => DateIn[text] = NoDate
  PROVE  /\ ForQuestion(question, Agent!CallFor(text, method, Agent!effective_as_of_date))
         /\ Agent!CallFor(text, method, Agent!effective_as_of_date).query = text
         /\ method # NoMethod => Agent!CallFor(text, method, Agent!effective_as_of_date).method = method
<1> DEFINE c == Agent!CallFor(text, method, Agent!effective_as_of_date)
<1>1. Agent!effective_as_of_date = AskedDate(question)
  BY DEF Agent!effective_as_of_date, AskedDate, NoDate
<1>2. c = [query |-> text, role |-> question.role, scope |-> question.scope,
           method |-> IF method = NoMethod THEN DefaultMethod ELSE method,
           as_of |-> IF AskedDate(question) = NoDate THEN DateIn[text] ELSE AskedDate(question)]
  BY <1>1 DEF Agent!CallFor
<1>3. c.as_of = AskedDate(question)
  BY <1>2
<1>4. /\ method \in Methods \cup {NoMethod} /\ DefaultMethod \in Methods
      /\ method = NoMethod => question.method = NoMethod
  BY QuestionFacts, ServiceAssumption DEF Methods
<1> HIDE DEF c
<1>5. ForQuestion(question, c)
  BY <1>2, <1>3, <1>4 DEF ForQuestion
<1> QED BY <1>2, <1>5 DEF c

LEMMA AgentCallFacts ==
  ASSUME AgentInv, phase = "retrieve"
  PROVE  /\ ForQuestion(question, agent_call) /\ InTurn(question, agent_call, Len(attempts) + 1)
         /\ (Agent!strategy # "decomposition" /\ attempts # <<>>) => agent_call.method = "lexical"
<1> DEFINE plan == Agent!plan(question.query)
           n == Len(attempts)
<1>1. /\ question \in Questions /\ question.query \in Queries
      /\ question.method \in Methods \cup {NoMethod} /\ NoMethod \notin Methods
  BY QuestionFacts, ServiceAssumption DEF AgentInv
<1>2. /\ plan.queries \in Seq(Queries) /\ plan.force \in BOOLEAN
      /\ plan.force => plan.queries # <<>>
      /\ \A i \in DOMAIN plan.queries :
              /\ plan.queries[i] \in Range(Clauses[question.query]) \cup Range(Identifiers[question.query])
                                       \cup Range(Rewrites[question.query])
              /\ DateIn[question.query] = NoDate => DateIn[plan.queries[i]] = NoDate
  BY <1>1, PlanFacts
<1>3. AskedDate(question) = NoDate => DateIn[question.query] = NoDate
  BY DEF AskedDate
<1>4. \A i \in DOMAIN plan.queries : /\ plan.queries[i] \in Queries \cap Askable(question)
                                     /\ AskedDate(question) = NoDate => DateIn[plan.queries[i]] = NoDate
  BY <1>2, <1>3 DEF Askable
<1>5. Agent!strategy = plan.strategy /\ Agent!queries = plan.queries
  BY DEF Agent!strategy, Agent!queries
<1>6. n \in Nat /\ (n = 0 <=> attempts = <<>>)
  BY DEF AgentInv
<1>7. CallsFor(question, n)
  BY DEF AgentInv
<1> HIDE DEF n, plan
<1>8. CASE Agent!strategy = "decomposition"
  <2> DEFINE method == IF question.method = NoMethod THEN "hybrid" ELSE question.method
  <2>1. n + 1 \in DOMAIN plan.queries
    BY <1>2, <1>5, <1>6, <1>7, <1>8 DEF CallsFor, plan
  <2>2. agent_call = Agent!CallFor(plan.queries[n + 1], method, Agent!effective_as_of_date)
    BY <1>5, <1>8 DEF agent_call, Agent!part_call, n
  <2>3. method \in {question.method, "hybrid", "lexical"}
    OBVIOUS
  <2> HIDE DEF method
  <2>4. ForQuestion(question, agent_call) /\ agent_call.query = plan.queries[n + 1]
    BY <1>1, <1>4, <2>1, <2>2, <2>3, CallForFacts
  <2> QED BY <1>8, <2>4 DEF InTurn, plan, n
<1>9. CASE Agent!strategy # "decomposition" /\ attempts = <<>>
  <2>1. InTurn(question, agent_call, n + 1)
    BY <1>5, <1>9 DEF InTurn, plan
  <2>2. agent_call = Agent!initial_call
    BY <1>9 DEF agent_call
  <2>3. CASE plan.force
    <3> DEFINE method == IF question.method \in {NoMethod, "hybrid"} THEN "lexical" ELSE question.method
    <3>1. agent_call = Agent!CallFor(plan.queries[1], method, Agent!effective_as_of_date)
      BY <1>5, <2>2, <2>3 DEF Agent!initial_call, plan
    <3>2. 1 \in DOMAIN plan.queries
      BY <1>2, <2>3
    <3>3. method \in {question.method, "hybrid", "lexical"}
      OBVIOUS
    <3> HIDE DEF method
    <3>4. ForQuestion(question, agent_call)
      BY <1>1, <1>4, <3>1, <3>2, <3>3, CallForFacts
    <3> QED BY <1>9, <2>1, <3>4 DEF n
  <2>4. CASE ~plan.force
    <3>1. agent_call = Agent!CallFor(question.query, question.method, Agent!effective_as_of_date)
      BY <2>2, <2>4 DEF Agent!initial_call, plan
    <3>2. question.query \in Queries \cap Askable(question)
      BY <1>1 DEF Askable
    <3>3. ForQuestion(question, agent_call)
      BY <1>1, <1>3, <3>1, <3>2, CallForFacts
    <3> QED BY <1>9, <2>1, <3>3 DEF n
  <2> QED BY <2>3, <2>4
<1>10. CASE Agent!strategy # "decomposition" /\ attempts # <<>>
  <2>1. InTurn(question, agent_call, n + 1)
    BY <1>5, <1>10 DEF InTurn, plan
  <2>2. agent_call = Agent!CallFor(Agent!focused[n], "lexical", Agent!effective_as_of_date)
    BY <1>10 DEF agent_call, Agent!focused_call, n
  <2>3. n \in 1..Len(plan.queries) /\ n <= MaxRetries
    BY <1>2, <1>5, <1>6, <1>7, <1>10, SystemAssumption DEF CallsFor, Smaller, plan
  <2>4. Agent!focused = SubSeq(plan.queries, 1, IF Len(plan.queries) < MaxRetries THEN Len(plan.queries) ELSE MaxRetries)
    BY <1>5 DEF Agent!focused
  <2>5. Agent!focused[n] = plan.queries[n] /\ n \in DOMAIN plan.queries
    BY <1>2, <2>3, <2>4, SystemAssumption
  <2>6. ForQuestion(question, agent_call) /\ agent_call.method = "lexical"
    <3>1. "lexical" # NoMethod
      BY <1>1 DEF Methods
    <3> QED BY <1>1, <1>4, <2>2, <2>5, <3>1, CallForFacts
  <2> QED BY <2>1, <2>6 DEF n
<1> QED BY <1>8, <1>9, <1>10

\* The call is one that the service takes.
LEMMA ServiceCallFacts ==
  ASSUME NEW q \in Questions, NEW c, ForQuestion(q, c)
  PROVE  /\ IsCall(service_call(q, c.query, c.method, c.as_of))
         /\ IsRequest(served_request(q, c))
         /\ served_request(q, c).query = c.query /\ served_request(q, c).method = c.method
         /\ served_request(q, c).role = q.role /\ served_request(q, c).types = q.scope.types
         /\ served_request(q, c).jurisdiction = q.scope.jurisdiction
         /\ served_request(q, c).as_of = AskedDate(q)
<1> DEFINE call == service_call(q, c.query, c.method, c.as_of)
<1>1. /\ call.query = c.query /\ call.method = c.method /\ call.as_of = c.as_of /\ call.role = q.role
      /\ call.types = q.scope.types /\ call.jurisdiction = q.scope.jurisdiction
      /\ call.top_k = q.scope.top_k
      /\ DOMAIN call = {"query", "role", "method", "top_k", "types", "jurisdiction", "as_of"}
  BY DEF service_call
<1>2. /\ c.query \in Queries /\ c.method \in Methods /\ c.method # NoMethod /\ c.as_of = AskedDate(q)
      /\ AskedDate(q) = NoDate => DateIn[c.query] = NoDate
  BY ServiceAssumption DEF ForQuestion
<1> HIDE DEF call
<1>3. IsCall(call)
  BY <1>1, <1>2, QuestionFacts DEF IsCall
<1>4. /\ IsRequest(request(call)) /\ request(call).query = call.query
      /\ request(call).role = call.role /\ request(call).types = call.types
      /\ request(call).jurisdiction = call.jurisdiction
      /\ request(call).as_of = IF call.as_of = NoDate THEN DateIn[call.query] ELSE call.as_of
      /\ request(call).method = IF call.method = NoMethod THEN DefaultMethod ELSE call.method
  BY <1>3, RequestFacts
<1>5. served_request(q, c) = request(call)
  BY DEF served_request, call
<1>6. request(call).as_of = AskedDate(q)
  BY <1>1, <1>2, <1>4
<1> QED BY <1>1, <1>2, <1>3, <1>4, <1>5, <1>6 DEF call

-----------------------------------------------------------------------------
(* The steps of the system.                                                *)

LEMMA AgentStutters ==
  ASSUME AgentInv, UNCHANGED agent, library' = library
  PROVE  AgentInv' /\ agent_call' = agent_call
<1>1. UNCHANGED <<phase, question, retrieved, attempts, best, final>>
  BY DEF agent
<1>2. agent_call' = agent_call
  BY <1>1 DEF agent_call, Agent!strategy, Agent!part_call, Agent!initial_call, Agent!focused_call,
              Agent!CallFor, Agent!queries, Agent!focused, Agent!effective_as_of_date
<1> QED BY <1>1, <1>2 DEF AgentInv

LEMMA InitStep ==
  ASSUME SystemInit
  PROVE  SystemInv
<1>1. ServiceInv /\ stage = "idle"
  BY ServiceInit DEF SystemInit, Init
<1>2. /\ phase = "received" /\ question \in Questions /\ attempts = <<>> /\ final = NoAnswer
  BY DEF SystemInit, Agent!Init
<1>3. attempts \in Seq({})
  BY <1>2
<1> QED BY <1>1, <1>2, <1>3 DEF SystemInv, Asking, AgentInv

LEMMA AsksStep ==
  ASSUME SystemInv, Asks
  PROVE  SystemInv'
<1>1. AgentInv /\ phase = "retrieve" /\ ServiceInv
  BY DEF SystemInv, Asks
<1>2. UNCHANGED agent /\ library' = library
  BY DEF Asks, Retrieve
<1>3. AgentInv' /\ agent_call' = agent_call /\ phase' = phase /\ question' = question
  BY <1>1, <1>2, AgentStutters DEF agent
<1>4. ForQuestion(question, agent_call) /\ question \in Questions
  BY <1>1, AgentCallFacts DEF AgentInv
<1>5. IsCall(service_call(question, agent_call.query, agent_call.method, agent_call.as_of))
  BY <1>4, ServiceCallFacts
<1>6. ServiceInv'
  BY <1>1, <1>5, RetrieveKeeps DEF Asks
<1>7. req' = served_request(question, agent_call)
  BY DEF Asks, Retrieve, served_request
<1> QED BY <1>1, <1>3, <1>6, <1>7 DEF SystemInv, Asking

LEMMA ServesStep ==
  ASSUME SystemInv, Serves
  PROVE  SystemInv'
<1>1. AgentInv /\ Asking /\ ServiceInv /\ Working /\ UNCHANGED agent
  BY DEF SystemInv, Serves
<1>2. ServiceInv' /\ library' = library /\ req' = req
  BY <1>1, WorkingKeeps
<1>3. AgentInv' /\ agent_call' = agent_call /\ phase' = phase /\ question' = question
  BY <1>1, <1>2, AgentStutters DEF agent
<1>4. stage # "idle"
  BY <1>1 DEF Working, Scope, RankLexical, RankDense, Respond
<1> QED BY <1>1, <1>2, <1>3, <1>4 DEF SystemInv, Asking

LEMMA StutterStep ==
  ASSUME SystemInv, UNCHANGED <<service, agent>>
  PROVE  SystemInv'
<1>1. AgentInv /\ Asking /\ ServiceInv /\ UNCHANGED vars /\ UNCHANGED agent
  BY DEF SystemInv, service
<1>2. ServiceInv' /\ library' = library /\ req' = req /\ stage' = stage
  BY <1>1, ServiceStutters DEF vars
<1>3. AgentInv' /\ agent_call' = agent_call /\ phase' = phase /\ question' = question
  BY <1>1, <1>2, AgentStutters DEF agent
<1> QED BY <1>1, <1>2, <1>3 DEF SystemInv, Asking

\* While the agent is not waiting, the service rests.
LEMMA ServiceRests ==
  ASSUME SystemInv, phase # "retrieve", UNCHANGED service
  PROVE  ServiceInv' /\ library' = library /\ Asking'
BY ServiceStutters DEF SystemInv, Asking, service, vars

LEMMA UnderstandsStep ==
  ASSUME SystemInv, Understands
  PROVE  SystemInv'
<1>1. phase = "received" /\ AgentInv /\ attempts = <<>> /\ UNCHANGED service
  BY DEF SystemInv, AgentInv, Understands, Agent!Understand
<1>2. ServiceInv' /\ library' = library /\ Asking'
  BY <1>1, ServiceRests
<1>3. phase' = "retrieve" /\ UNCHANGED <<question, retrieved, attempts, best, final>>
  BY DEF Understands, Agent!Understand
<1>4. CallsFor(question, Len(attempts))
  <2>1. /\ Agent!plan(question.query).queries \in Seq(Queries)
        /\ Agent!plan(question.query).strategy = "decomposition" =>
             Len(Agent!plan(question.query).queries) >= 2
    BY <1>1, PlanFacts, QuestionFacts DEF AgentInv
  <2>2. Len(attempts) = 0
    BY <1>1
  <2> QED BY <2>1, <2>2 DEF CallsFor
<1>5. AgentInv'
  BY <1>1, <1>2, <1>3, <1>4 DEF AgentInv
<1> QED BY <1>2, <1>5 DEF SystemInv

LEMMA ReceivesStep ==
  ASSUME SystemInv, Receives
  PROVE  SystemInv'
<1>1. /\ ServiceInv /\ Asking /\ AgentInv /\ Return /\ stage = "done"
  BY DEF SystemInv, Receives, Return
<1>2. /\ phase = "retrieve" /\ req = served_request(question, agent_call)
      /\ results \in responses(library, req)
  BY <1>1 DEF Asking, ServiceInv
<1>3. /\ retrieved' = [call |-> agent_call,
                       response |-> Agent!Response(agent_call, profile(library, req, results))]
      /\ phase' = "grade" /\ UNCHANGED <<question, attempts, best, final>>
  BY DEF Receives
<1>4. library' = library /\ stage' = "idle" /\ ServiceInv'
  BY <1>1, ReturnKeeps DEF Return
<1>5. ForQuestion(question, agent_call) /\ InTurn(question, agent_call, Len(attempts) + 1)
  BY <1>1, <1>2, AgentCallFacts
<1>6. /\ retrieved'.call = agent_call
      /\ retrieved'.response = Agent!Response(agent_call, profile(library, req, results))
  BY <1>3
<1>7. Served(library, question, retrieved')
  BY <1>2, <1>5, <1>6 DEF Served
<1>8. AgentInv'
  BY <1>1, <1>2, <1>3, <1>4, <1>5, <1>6, <1>7 DEF AgentInv
<1> QED BY <1>4, <1>8 DEF SystemInv, Asking

LEMMA GradesStep ==
  ASSUME SystemInv, Grades
  PROVE  SystemInv'
<1> DEFINE new == Agent!Graded
           n == Len(attempts)
<1>1. phase = "grade" /\ AgentInv /\ UNCHANGED service
  BY DEF SystemInv, Grades, Agent!Grade
<1>2. ServiceInv' /\ library' = library /\ Asking'
  BY <1>1, ServiceRests
<1>3. /\ attempts' = Append(attempts, new)
      /\ best' = IF attempts = <<>> THEN new ELSE Agent!choose_better_response(best, new)
      /\ phase' = IF Agent!CallsLeft(n + 1) THEN "retrieve" ELSE "decide"
      /\ UNCHANGED <<question, final>>
  BY DEF Grades, Agent!Grade
<1>4. PICK S : attempts \in Seq(S)
  BY <1>1 DEF AgentInv
<1>5. new.call = retrieved.call /\ new.response = retrieved.response
      /\ new.evidence = Agent!grade_evidence(new.response)
  BY DEF Agent!Graded
<1>6. Served(library, question, new) /\ InTurn(question, new.call, n + 1)
  BY <1>1, <1>5 DEF AgentInv, Served
<1>7. best' \in {best, new} /\ (attempts = <<>> => best' = new)
  BY <1>3 DEF Agent!choose_better_response
<1> HIDE DEF new
<1>8. /\ attempts' \in Seq(S \cup {new}) /\ attempts' # <<>> /\ n \in Nat /\ Len(attempts') = n + 1
      /\ DOMAIN attempts = 1..n /\ DOMAIN attempts' = 1..(n + 1)
      /\ \A i \in DOMAIN attempts : attempts'[i] = attempts[i]
      /\ attempts'[n + 1] = new
  BY <1>3, <1>4, AppendFacts
<1>9. \A i \in DOMAIN attempts' : \/ i \in DOMAIN attempts /\ attempts'[i] = attempts[i]
                                  \/ i = n + 1 /\ attempts'[i] = new
  BY <1>8
<1>10. phase' = "retrieve" => CallsFor(question, n + 1)
  <2>1. Agent!plan(question.query).queries \in Seq(Queries)
    BY <1>1, PlanFacts, QuestionFacts DEF AgentInv
  <2>2. ASSUME Agent!CallsLeft(n + 1), Agent!strategy # "decomposition"
        PROVE  n + 1 <= Smaller(Len(Agent!plan(question.query).queries), MaxRetries)
    <3> DEFINE many == Len(Agent!plan(question.query).queries)
    <3>1. Agent!focused = SubSeq(Agent!plan(question.query).queries, 1, IF many < MaxRetries THEN many ELSE MaxRetries)
      BY DEF Agent!focused, Agent!queries
    <3>2. Len(Agent!focused) = Smaller(many, MaxRetries)
      BY <2>1, <3>1, SystemAssumption DEF Smaller
    <3> QED BY <2>2, <3>2 DEF Agent!CallsLeft
  <2> QED BY <1>3, <2>2 DEF CallsFor, Agent!CallsLeft, Agent!strategy, Agent!queries
<1>11. \E i \in DOMAIN attempts' : best' = attempts'[i]
  <2>1. n + 1 \in DOMAIN attempts'
    BY <1>8
  <2>2. CASE best' = new
    BY <1>8, <2>1, <2>2
  <2>3. CASE best' = best /\ attempts # <<>>
    <3>1. PICK i \in DOMAIN attempts : best = attempts[i]
      BY <1>1, <2>3 DEF AgentInv
    <3> QED BY <1>8, <2>3, <3>1
  <2> QED BY <1>7, <2>2, <2>3
<1>12. final # NoAnswer =>
         \A c \in final.sources : \E i \in DOMAIN attempts' : c \in Agent!cited(attempts'[i].response)
  <2>1. final # NoAnswer =>
          \A c \in final.sources : \E i \in DOMAIN attempts : c \in Agent!cited(attempts[i].response)
    BY <1>1 DEF AgentInv
  <2>2. \A i \in DOMAIN attempts : i \in DOMAIN attempts' /\ attempts'[i] = attempts[i]
    BY <1>8
  <2> QED BY <2>1, <2>2
<1>13. AgentInv'
  <2>1. \A i \in DOMAIN attempts' :
          /\ Served(library, question, attempts'[i]) /\ InTurn(question, attempts'[i].call, i)
          /\ attempts'[i].evidence = Agent!grade_evidence(attempts'[i].response)
    BY <1>1, <1>5, <1>6, <1>9 DEF AgentInv
  <2>2. question' \in Questions /\ phase' \in {"retrieve", "decide"}
    BY <1>1, <1>3 DEF AgentInv
  <2>3. \E T : attempts' \in Seq(T)
    BY <1>8
  <2> HIDE DEF n
  <2> QED BY <1>2, <1>3, <1>8, <1>10, <1>11, <1>12, <2>1, <2>2, <2>3 DEF AgentInv
<1> QED BY <1>2, <1>13 DEF SystemInv

LEMMA RetriesStep ==
  ASSUME SystemInv, Retries
  PROVE  SystemInv'
<1> DEFINE n == Len(attempts)
<1>1. phase = "decide" /\ AgentInv /\ UNCHANGED service
  BY DEF SystemInv, Retries, Agent!Retry
<1>2. ServiceInv' /\ library' = library /\ Asking'
  BY <1>1, ServiceRests
<1>3. phase' = "retrieve" /\ UNCHANGED <<question, retrieved, attempts, best, final>>
  BY DEF Retries, Agent!Retry
<1>4. CallsFor(question, n)
  <2> DEFINE queries == Agent!plan(question.query).queries
             many == Len(queries)
  <2>1. queries \in Seq(Queries)
    BY <1>1, PlanFacts, QuestionFacts DEF AgentInv
  <2>2. /\ Agent!plan(question.query).strategy = "structured_identifier" /\ n = 1
        /\ Agent!focused # <<>>
    BY DEF Retries, Agent!Retry, Agent!Retryable, Agent!strategy
  <2>3. Agent!focused = SubSeq(queries, 1, IF many < MaxRetries THEN many ELSE MaxRetries)
    BY DEF Agent!focused, Agent!queries
  <2> HIDE DEF n, queries
  <2>4. many > 0 /\ MaxRetries > 0 /\ many \in Nat
    <3> DEFINE k == IF many < MaxRetries THEN many ELSE MaxRetries
    <3>1. many \in Nat /\ MaxRetries \in Nat
      BY <2>1, SystemAssumption
    <3>2. k \in 0..many
      BY <3>1
    <3>3. ASSUME k = 0 PROVE SubSeq(queries, 1, k) = <<>>
      BY <2>1, <3>3
    <3>4. k > 0
      <4> HIDE DEF k, many
      <4> QED BY <2>2, <2>3, <3>1, <3>2, <3>3 DEF k
    <3> QED BY <3>1, <3>4
  <2>5. 1 <= Smaller(many, MaxRetries)
    BY <2>4, SystemAssumption DEF Smaller
  <2> QED BY <2>2, <2>5 DEF CallsFor, queries
<1>5. AgentInv'
  BY <1>1, <1>2, <1>3, <1>4 DEF AgentInv
<1> QED BY <1>2, <1>5 DEF SystemInv

LEMMA FinishStep ==
  ASSUME SystemInv, phase = "decide", UNCHANGED service,
         NEW outcome \in {"answered", "refused"}, NEW grade, NEW reason, NEW sources, NEW labelled,
         Agent!Finalize(outcome, grade, reason, sources, labelled),
         \A c \in sources : \E i \in DOMAIN attempts : c \in Agent!cited(attempts[i].response)
  PROVE  SystemInv'
<1>1. AgentInv /\ ServiceInv' /\ library' = library /\ Asking'
  BY ServiceRests DEF SystemInv
<1>2. phase' = outcome /\ final'.sources = sources /\ UNCHANGED <<question, retrieved, attempts, best>>
  BY DEF Agent!Finalize
<1>3. AgentInv'
  BY <1>1, <1>2 DEF AgentInv
<1> QED BY <1>1, <1>3 DEF SystemInv

LEMMA AnswersStep ==
  ASSUME SystemInv, Answers
  PROVE  SystemInv'
<1>1. phase = "decide" /\ AgentInv /\ UNCHANGED service /\ attempts # <<>>
  BY DEF SystemInv, AgentInv, Answers, Agent!AnswerParts, Agent!AnswerBest
<1>2. CASE Agent!AnswerParts
  <2> DEFINE sources == UNION {Agent!cited(attempts[i].response) : i \in Agent!Parts}
  <2>1. Agent!Finalize("answered", "relevant", "none", sources, FALSE)
    BY <1>2 DEF Agent!AnswerParts
  <2>2. \A c \in sources : \E i \in DOMAIN attempts : c \in Agent!cited(attempts[i].response)
    BY DEF Agent!Parts
  <2> HIDE DEF sources
  <2> QED BY <1>1, <2>1, <2>2, FinishStep
<1>3. CASE Agent!AnswerBest
  <2> DEFINE sources == Agent!cited(best.response)
  <2>1. Agent!Finalize("answered", "relevant", "none", sources, TRUE)
    BY <1>3 DEF Agent!AnswerBest
  <2>2. \A c \in sources : \E i \in DOMAIN attempts : c \in Agent!cited(attempts[i].response)
    BY <1>1 DEF AgentInv
  <2> HIDE DEF sources
  <2> QED BY <1>1, <2>1, <2>2, FinishStep
<1> QED BY <1>2, <1>3 DEF Answers

\* A set of natural numbers has a smallest one.
LEMMA LeastNatural ==
  ASSUME NEW S, S \subseteq Nat, S # {}
  PROVE  \E n \in S : \A m \in S : n <= m
<1> DEFINE R == {x \in Nat \X Nat : x[1] < x[2]}
<1>1. IsWellFoundedOn(R, Nat)
  BY NatLessThanWellFounded DEF OpToRel
<1>2. PICK n \in S : \A m \in S : ~(<<m, n>> \in R)
  BY <1>1, WFMin
<1>3. \A m \in S : ~(m < n)
  BY <1>2
<1> QED BY <1>3

\* Every grade is one of three.
LEMMA GradeFacts ==
  ASSUME NEW r
  PROVE  Agent!grade_rank(Agent!grade_evidence(r)) \in Nat
<1> DEFINE e == Agent!grade_evidence(r)
<1>1. e.grade \in {"relevant", "ambiguous", "irrelevant"}
  BY DEF Agent!grade_evidence
<1> HIDE DEF e
<1>2. Agent!grade_rank(e) \in Nat
  BY <1>1 DEF Agent!grade_rank
<1> QED BY <1>2 DEF e

\* The worst part is one of the parts.
LEMMA WorstIsPart ==
  ASSUME AgentInv, attempts # <<>>
  PROVE  \E i \in DOMAIN attempts : Agent!worst = attempts[i]
<1> DEFINE Rank(i) == Agent!grade_rank(attempts[i].evidence)
           P == DOMAIN attempts
           Lowest(i) == \A j \in P : Rank(i) <= Rank(j)
           First(i) == \A j \in P : Rank(i) <= Rank(j) /\ (j < i => Rank(i) < Rank(j))
<1>1. P \subseteq Nat /\ P # {}
  BY DEF AgentInv
<1>2. \A i \in P : Rank(i) \in Nat
  BY GradeFacts DEF AgentInv
<1> HIDE DEF Rank, P
<1>3. PICK n \in {Rank(i) : i \in P} : \A m \in {Rank(i) : i \in P} : n <= m
  BY <1>1, <1>2, LeastNatural
<1>4. {i \in P : Lowest(i)} \subseteq Nat /\ {i \in P : Lowest(i)} # {}
  <2>1. PICK i \in P : n = Rank(i)
    BY <1>3
  <2>2. Lowest(i)
    BY <1>3, <2>1
  <2> QED BY <1>1, <2>2
<1>5. PICK k \in {i \in P : Lowest(i)} : \A i \in {i \in P : Lowest(i)} : k <= i
  BY <1>4, LeastNatural
<1>6. ASSUME NEW j \in P PROVE Rank(k) <= Rank(j) /\ (j < k => Rank(k) < Rank(j))
  <2>1. CASE Lowest(j)
    BY <1>1, <1>5, <2>1
  <2>2. CASE ~Lowest(j)
    <3>1. PICK i \in P : ~(Rank(j) <= Rank(i))
      BY <2>2
    <3> QED BY <1>2, <1>5, <3>1
  <2> QED BY <2>1, <2>2
<1>7. k \in P /\ First(k)
  BY <1>5, <1>6
<1>8. Agent!worst = attempts[CHOOSE i \in P : First(i)]
  BY Zenon DEF Agent!worst, Agent!Parts, Rank, P
<1>9. (CHOOSE i \in P : First(i)) \in P
  BY <1>7
<1> QED BY <1>8, <1>9 DEF P

LEMMA RefusesStep ==
  ASSUME SystemInv, Refuses
  PROVE  SystemInv'
<1>1. phase = "decide" /\ AgentInv /\ UNCHANGED service /\ attempts # <<>>
  BY DEF SystemInv, AgentInv, Refuses, Agent!RefuseParts, Agent!RefuseBest
<1>2. CASE Agent!RefuseParts
  <2> DEFINE sources == Agent!cited(Agent!worst.response)
             grade == IF "ambiguous" \in Agent!grades THEN "ambiguous" ELSE "irrelevant"
  <2>1. Agent!Finalize("refused", grade, Agent!worst.evidence.reason, sources, TRUE)
    BY <1>2 DEF Agent!RefuseParts
  <2>2. \A c \in sources : \E i \in DOMAIN attempts : c \in Agent!cited(attempts[i].response)
    BY <1>1, WorstIsPart
  <2> HIDE DEF sources, grade
  <2> QED BY <1>1, <2>1, <2>2, FinishStep
<1>3. CASE Agent!RefuseBest
  <2> DEFINE sources == Agent!cited(best.response)
  <2>1. Agent!Finalize("refused", best.evidence.grade, best.evidence.reason, sources, TRUE)
    BY <1>3 DEF Agent!RefuseBest
  <2>2. \A c \in sources : \E i \in DOMAIN attempts : c \in Agent!cited(attempts[i].response)
    BY <1>1 DEF AgentInv
  <2> HIDE DEF sources
  <2> QED BY <1>1, <2>1, <2>2, FinishStep
<1> QED BY <1>2, <1>3 DEF Refuses

\* The inductive invariant of the agent over the service.
THEOREM SystemInvariant == SystemSpec => []SystemInv
<1>1. SystemInit => SystemInv
  BY InitStep
<1>2. SystemInv /\ [SystemNext]_<<service, agent>> => SystemInv'
  <2> SUFFICES ASSUME SystemInv, [SystemNext]_<<service, agent>>
               PROVE  SystemInv'
    OBVIOUS
  <2>1. ASSUME Rests PROVE UNCHANGED <<service, agent>>
    BY <2>1 DEF Rests, Agent!Rest, Agent!vars, agent
  <2> QED BY <2>1, UnderstandsStep, AsksStep, ServesStep, ReceivesStep, GradesStep, RetriesStep,
             AnswersStep, RefusesStep, StutterStep DEF SystemNext
<1> QED BY <1>1, <1>2, PTL DEF SystemSpec

-----------------------------------------------------------------------------
(* The theorems.                                                           *)

\* How the agent reads what the service answers to call c.
Reads(x, p, held, r, ranked, c) ==
  /\ x.query = c.query /\ x.method = c.method /\ x.as_of = c.as_of
  /\ DOMAIN x.results = DOMAIN ranked /\ x.results = [i \in DOMAIN ranked |-> x.results[i]]
  /\ \A i \in DOMAIN ranked :
       /\ x.results[i].source = ranked[i].chunk /\ x.results[i].exact = ranked[i].exact
       /\ x.results[i].score = Scored(ranked[i].score, score_kind(r))
       /\ x.results[i].overlap => score_kind(r) = "rerank"
  /\ x.denied = Cardinality(DOMAIN held \ DOMAIN filter_authorized_chunks(held, r.role))
  /\ x.candidates = Cardinality(DOMAIN candidates(held, r))
  /\ x.filtered = Cardinality(expired(held, r))
  /\ p.kind = score_kind(r) /\ p.results = x.results
  /\ p.candidates = x.candidates /\ p.filtered = x.filtered

LEMMA ProfileFacts ==
  ASSUME NEW held, NEW r, NEW ranked, NEW c
  PROVE  Reads(Agent!Response(c, profile(held, r, ranked)), profile(held, r, ranked), held, r, ranked, c)
<1> DEFINE p == profile(held, r, ranked)
           x == Agent!Response(c, p)
           results_read == [i \in DOMAIN ranked |->
             [source |-> ranked[i].chunk, exact |-> ranked[i].exact,
              overlap |-> score_kind(r) = "rerank" /\ Overlap[r.query][ranked[i].source.text] > 0,
              score |-> Scored(ranked[i].score, score_kind(r))]]
<1>1. p = [kind |-> score_kind(r), results |-> results_read,
           denied |-> Cardinality(DOMAIN held \ DOMAIN filter_authorized_chunks(held, r.role)),
           candidates |-> Cardinality(DOMAIN candidates(held, r)),
           filtered |-> Cardinality(expired(held, r))]
  BY DEF profile
<1>2. x = [query |-> c.query, method |-> c.method, as_of |-> c.as_of, results |-> p.results,
           denied |-> p.denied, candidates |-> p.candidates, filtered |-> p.filtered]
  BY DEF Agent!Response
<1>3. /\ DOMAIN results_read = DOMAIN ranked /\ results_read = [i \in DOMAIN ranked |-> results_read[i]]
      /\ \A i \in DOMAIN ranked :
           /\ results_read[i].source = ranked[i].chunk /\ results_read[i].exact = ranked[i].exact
           /\ results_read[i].score = Scored(ranked[i].score, score_kind(r))
           /\ results_read[i].overlap => score_kind(r) = "rerank"
  OBVIOUS
<1> HIDE DEF results_read, p, x
<1>4. Reads(x, p, held, r, ranked, c)
  BY <1>1, <1>2, <1>3 DEF Reads
<1> QED BY <1>4 DEF x, p

\* What was served for a question is what its role may see and what it asks for.
LEMMA ServedFacts ==
  ASSUME NEW held \in Corpora, NEW q \in Questions, NEW x, Served(held, q, x)
  PROVE  \A i \in DOMAIN x.response.results :
           LET c == x.response.results[i].source
           IN /\ c \in DOMAIN held /\ evaluate_chunk_access(held[c], q.role)
              /\ request_allows_chunk(held[c], [types |-> q.scope.types, as_of |-> AskedDate(q),
                                               jurisdiction |-> q.scope.jurisdiction])
<1> DEFINE r == served_request(q, x.call)
           asked == [types |-> q.scope.types, as_of |-> AskedDate(q), jurisdiction |-> q.scope.jurisdiction]
<1>1. ForQuestion(q, x.call)
  BY DEF Served
<1>2. /\ IsRequest(r) /\ r.role = q.role /\ r.types = asked.types /\ r.jurisdiction = asked.jurisdiction
      /\ r.as_of = asked.as_of
  BY <1>1, ServiceCallFacts
<1>3. PICK ranked \in responses(held, r) : x.response = Agent!Response(x.call, profile(held, r, ranked))
  BY DEF Served
<1> HIDE DEF r, asked
<1>4. Listing(candidates(held, r), r, ranked)
  BY <1>2, ResponseFacts
<1>5. TAKE i \in DOMAIN x.response.results
<1>6. x.response.results[i].source \in DOMAIN candidates(held, r)
  <2>1. Reads(x.response, profile(held, r, ranked), held, r, ranked, x.call)
    BY <1>3, ProfileFacts
  <2> QED BY <1>4, <1>5, <2>1 DEF Listing, Reads
<1>7. \A c \in DOMAIN candidates(held, r) :
        c \in DOMAIN held /\ evaluate_chunk_access(held[c], r.role) /\ request_allows_chunk(held[c], r)
  <2> DEFINE S == {c \in DOMAIN held : evaluate_chunk_access(held[c], r.role) /\ request_allows_chunk(held[c], r)}
  <2>1. candidates(held, r) = Restrict(held, S)
    BY CandidateFacts
  <2>2. DOMAIN candidates(held, r) = S
    <3>1. S \subseteq DOMAIN held
      OBVIOUS
    <3> HIDE DEF S
    <3> QED BY <2>1, <3>1, RestrictFacts
  <2> QED BY <2>2
<1>8. \A c : request_allows_chunk(c, r) => request_allows_chunk(c, asked)
  BY <1>2 DEF request_allows_chunk
<1> QED BY <1>2, <1>6, <1>7, <1>8 DEF asked

\* What the agent shows never depends on what the role may not see: the service that it
\* asks shows none of it (security/rbac.py, control.py:170-383).
THEOREM DeniedIsInvisibleToAgent == SystemSpec => []DeniedHasNoInfluence
<1>1. SystemInv => DeniedHasNoInfluence
  BY InvisibleWhenInOrder DEF SystemInv
<1> QED BY <1>1, SystemInvariant, PTL

\* Whatever was retried or split, a response cites what the role may see and the question
\* asks for (control.py:200-219, 312-336).
THEOREM CitationsAreInScope == SystemSpec => []CitesWithinScope
<1>1. SystemInv => CitesWithinScope
  <2> SUFFICES ASSUME SystemInv, final # NoAnswer, NEW c \in final.sources
               PROVE  /\ c \in DOMAIN library /\ evaluate_chunk_access(library[c], question.role)
                      /\ request_allows_chunk(library[c],
                           [types |-> question.scope.types, as_of |-> AskedDate(question),
                            jurisdiction |-> question.scope.jurisdiction])
    BY DEF CitesWithinScope
  <2>1. library \in Corpora /\ question \in Questions
    BY DEF SystemInv, ServiceInv, AgentInv
  <2>2. PICK i \in DOMAIN attempts : c \in Agent!cited(attempts[i].response)
    BY DEF SystemInv, AgentInv
  <2>3. Served(library, question, attempts[i])
    BY DEF SystemInv, AgentInv
  <2>4. PICK j \in DOMAIN attempts[i].response.results : c = attempts[i].response.results[j].source
    BY <2>2 DEF Agent!cited
  <2> QED BY <2>1, <2>3, <2>4, ServedFacts
<1> QED BY <1>1, SystemInvariant, PTL

\* Relevant evidence leads with an exact match or with a score of some weight.
LEMMA RelevantFacts ==
  ASSUME NEW r, Agent!grade_evidence(r).grade = "relevant"
  PROVE  /\ r.results # <<>>
         /\ r.results[1].exact \/ r.results[1].score >= Relevant[Agent!kind(r)]
<1>1. r.results # <<>>
  BY DEF Agent!grade_evidence
<1>2. ASSUME ~r.results[1].exact, ~Agent!is_relevant_score(r, r.results[1].score) PROVE FALSE
  BY <1>1, <1>2 DEF Agent!grade_evidence
<1> QED BY <1>1, <1>2 DEF Agent!is_relevant_score

\* No answer of lexical or hybrid retrieval leads with a sibling of the paragraph that its
\* query names (lexical.py:83-87, hybrid.py:135-138, common/config.py:89).
THEOREM SiblingsDoNotLead == SystemSpec => []NoSiblingLeads
<1>1. SystemInv => NoSiblingLeads
  <2> SUFFICES ASSUME SystemInv, NEW i \in DOMAIN attempts, attempts[i].evidence.grade = "relevant",
                      attempts[i].call.method # "dense",
                      sibling(library[attempts[i].response.results[1].source], Terms[attempts[i].call.query])
               PROVE  FALSE
    BY DEF NoSiblingLeads
  <2> DEFINE x == attempts[i]
             c == x.call
             r == served_request(question, c)
             found == candidates(library, r)
  <2>1. /\ library \in Corpora /\ question \in Questions /\ Served(library, question, x)
        /\ x.evidence = Agent!grade_evidence(x.response)
    BY DEF SystemInv, ServiceInv, AgentInv
  <2>2. /\ IsRequest(r) /\ r.query = c.query /\ r.method = c.method
    BY <2>1, ServiceCallFacts DEF Served
  <2>3. PICK ranked \in responses(library, r) : x.response = Agent!Response(c, profile(library, r, ranked))
    BY <2>1 DEF Served
  <2>4. Listing(found, r, ranked)
    BY <2>1, <2>2, ResponseFacts
  <2>5. /\ x.response.results # <<>>
        /\ x.response.results[1].exact \/ x.response.results[1].score >= Relevant[Agent!kind(x.response)]
    BY <2>1, RelevantFacts
  <2>6. /\ DOMAIN x.response.results = DOMAIN ranked
        /\ x.response.query = c.query /\ x.response.method = c.method
        /\ \A j \in DOMAIN ranked :
             /\ x.response.results[j].source = ranked[j].chunk /\ x.response.results[j].exact = ranked[j].exact
             /\ x.response.results[j].score = Scored(ranked[j].score, score_kind(r))
    <3>1. Reads(x.response, profile(library, r, ranked), library, r, ranked, c)
      BY <2>3, ProfileFacts
    <3> HIDE DEF c, r, x
    <3> QED BY <3>1 DEF Reads
  <2>7. 1 \in DOMAIN ranked
    <3>1. PICK n \in Nat : DOMAIN ranked = 1..n
      BY <2>4 DEF Listing
    <3>2. x.response.results = [j \in DOMAIN ranked |-> x.response.results[j]]
      <4>1. Reads(x.response, profile(library, r, ranked), library, r, ranked, c)
        BY <2>3, ProfileFacts
      <4> HIDE DEF c, r, x
      <4> QED BY <4>1 DEF Reads
    <3>3. n # 0
      BY <2>5, <3>1, <3>2
    <3> QED BY <3>1, <3>3
  <2>8. library[ranked[1].chunk] = found[ranked[1].chunk]
    <3> DEFINE S == {d \in DOMAIN library : evaluate_chunk_access(library[d], r.role) /\ request_allows_chunk(library[d], r)}
    <3>1. found = Restrict(library, S)
      BY CandidateFacts
    <3>2. S \subseteq DOMAIN library
      OBVIOUS
    <3> HIDE DEF S, found, r
    <3> QED BY <2>4, <2>7, <3>1, <3>2, RestrictFacts DEF Listing
  <2>9. Agent!kind(x.response) = score_kind(r)
    BY <2>2, <2>6 DEF Agent!kind, score_kind
  <2>10. sibling(found[ranked[1].chunk], Terms[r.query]) /\ r.method # "dense"
    BY <2>2, <2>6, <2>7, <2>8
  <2> HIDE DEF found, r, c, x
  <2>11. /\ score_kind(r) = "rrf" /\ ~ranked[1].exact /\ ranked[1].score <= RrfScale \div (RrfK + 1)
         /\ ranked[1].score \in Int
    BY <2>4, <2>7, <2>10 DEF Listing
  <2>12. Scored(ranked[1].score, "rrf") >= Relevant["rrf"]
    BY <2>5, <2>6, <2>7, <2>9, <2>11
  <2>13. Scored(ranked[1].score, "rrf") < Relevant["rrf"]
    <3> DEFINE unit == RrfScale \div 10000
               first == RrfScale \div (RrfK + 1)
               score == ranked[1].score
    <3>1. RrfScale \in Nat /\ RrfK \in Nat /\ RrfScale >= 10000 /\ Relevant["rrf"] \in Nat
      BY RetrievalAssumption, SystemAssumption
    <3>2. unit \in Nat \ {0} /\ first \in Int
      BY <3>1
    <3>3. Scored(score, "rrf") = score \div unit
      BY DEF Scored
    <3>4. first \div unit < Relevant["rrf"]
      BY SystemAssumption
    <3>5. score \in Int /\ score <= first
      BY <2>11
    <3> HIDE DEF unit, first, score
    <3>6. score \div unit <= first \div unit
      BY <3>2, <3>5, DivMonotone
    <3>7. score \div unit \in Int /\ first \div unit \in Int
      BY <3>2, <3>5
    <3> QED BY <3>1, <3>3, <3>4, <3>6, <3>7 DEF score
  <2>14. Scored(ranked[1].score, "rrf") \in Int /\ Relevant["rrf"] \in Int
    <3>1. RrfScale \div 10000 \in Nat \ {0} /\ Relevant["rrf"] \in Int
      BY RetrievalAssumption, SystemAssumption
    <3> QED BY <2>11, <3>1 DEF Scored
  <2> QED BY <2>12, <2>13, <2>14
<1> QED BY <1>1, SystemInvariant, PTL

-----------------------------------------------------------------------------
(* The agent over the service implements the agent.                        *)

\* The agent compares whole numbers.
LEMMA ScoredInt ==
  ASSUME NEW a \in Int, NEW k \in {"rerank", "rrf", "lexical", "dense"}
  PROVE  Scored(a, k) \in Int
<1>1. CASE k = "rrf"
  <2> DEFINE unit == RrfScale \div 10000
  <2>1. unit \in Nat \ {0}
    <3>1. RrfScale \in Nat /\ RrfScale >= 10000
      BY RetrievalAssumption, SystemAssumption
    <3> QED BY <3>1
  <2>2. Scored(a, k) = a \div unit
    BY <1>1 DEF Scored
  <2> HIDE DEF unit
  <2> QED BY <2>1, <2>2
<1>2. CASE k # "rrf"
  BY <1>2 DEF Scored
<1> QED BY <1>1, <1>2

\* The scales of the thresholds keep the order of the scores.
LEMMA ScoredMonotone ==
  ASSUME NEW a \in Int, NEW b \in Int, a <= b, NEW k \in {"rerank", "rrf", "lexical", "dense"}
  PROVE  Scored(a, k) <= Scored(b, k)
<1>1. CASE k = "rrf"
  <2> DEFINE unit == RrfScale \div 10000
  <2>1. unit \in Nat \ {0}
    <3>1. RrfScale \in Nat /\ RrfScale >= 10000
      BY RetrievalAssumption, SystemAssumption
    <3> QED BY <3>1
  <2>2. Scored(a, k) = a \div unit /\ Scored(b, k) = b \div unit
    BY <1>1 DEF Scored
  <2> HIDE DEF unit
  <2> QED BY <2>1, <2>2, DivMonotone
<1>2. CASE k # "rrf"
  BY <1>2 DEF Scored
<1> QED BY <1>1, <1>2

\* What is denied, left and expired is a matter of the role, the scope and the date.
LEMMA PopulationFacts ==
  ASSUME NEW held, NEW r, IsRequest(r), NEW s, IsRequest(s), r.role = s.role, r.types = s.types,
         r.jurisdiction = s.jurisdiction, r.as_of = s.as_of
  PROVE  /\ DOMAIN candidates(held, r) = DOMAIN candidates(held, s)
         /\ expired(held, r) = expired(held, s)
<1>1. \A c : request_allows_chunk(c, r) <=> request_allows_chunk(c, s)
  BY DEF request_allows_chunk
<1>2. DOMAIN candidates(held, r) = DOMAIN candidates(held, s)
  BY <1>1 DEF candidates, scope_chunks_for_request
<1>3. /\ [r EXCEPT !.as_of = NoDate].types = [s EXCEPT !.as_of = NoDate].types
      /\ [r EXCEPT !.as_of = NoDate].jurisdiction = [s EXCEPT !.as_of = NoDate].jurisdiction
      /\ [r EXCEPT !.as_of = NoDate].as_of = [s EXCEPT !.as_of = NoDate].as_of
  BY DEF IsRequest
<1>4. \A c : request_allows_chunk(c, [r EXCEPT !.as_of = NoDate])
               <=> request_allows_chunk(c, [s EXCEPT !.as_of = NoDate])
  BY <1>3 DEF request_allows_chunk
<1>5. expired(held, r) = expired(held, s)
  BY <1>4 DEF expired
<1> QED BY <1>2, <1>5

\* The table holds the profiles of each question.
LEMMA ProfilesFacts ==
  ASSUME NEW q \in Questions
  PROVE  Profiles[q] = profiles(q)
<1>1. [question |-> q, profiles |-> profiles(q)] \in known
  BY DEF known
<1>2. ASSUME NEW row \in known, row.question = q PROVE row.profiles = profiles(q)
  BY <1>2 DEF known
<1>3. \E row \in known : row.question = q
  BY <1>1
<1>4. (CHOOSE row \in known : row.question = q).profiles = profiles(q)
  BY <1>2, <1>3
<1> QED BY <1>4 DEF Profiles

\* The agent's specification knows every response that the service may give.
LEMMA ProfileKnown ==
  ASSUME NEW held \in Corpora, NEW q \in Questions, NEW c, ForQuestion(q, c),
         NEW ranked \in responses(held, served_request(q, c))
  PROVE  profile(held, served_request(q, c), ranked) \in Profiles[q]
<1> DEFINE r == served_request(q, c)
           Made(text, method) == request(service_call(q, text, method, AskedDate(q)))
<1>1. Profiles[q] = profiles(q)
  BY ProfilesFacts
<1>2. r \in requests(q)
  <2>1. r = Made(c.query, c.method) /\ c.query \in Askable(q)
    BY DEF served_request, ForQuestion
  <2>2. CASE c.method \in {q.method, "hybrid", "lexical"}
    BY <2>1, <2>2 DEF requests
  <2>3. CASE q.method = NoMethod /\ c.method = DefaultMethod
    <3>1. DefaultMethod # NoMethod
      BY ServiceAssumption
    <3>2. ASSUME NEW m PROVE
            Made(c.query, m) =
              [query |-> c.query, role |-> q.role, method |-> IF m = NoMethod THEN DefaultMethod ELSE m,
               as_of |-> IF AskedDate(q) = NoDate THEN DateIn[c.query] ELSE AskedDate(q),
               types |-> q.scope.types, jurisdiction |-> q.scope.jurisdiction,
               top_k |-> IF q.scope.top_k = 0 THEN FinalTopK ELSE q.scope.top_k]
      <4> DEFINE call == service_call(q, c.query, m, AskedDate(q))
                 D == {"query", "role", "method", "top_k", "types", "jurisdiction", "as_of"}
                 y == [query |-> c.query, role |-> q.role, method |-> IF m = NoMethod THEN DefaultMethod ELSE m,
                       as_of |-> IF AskedDate(q) = NoDate THEN DateIn[c.query] ELSE AskedDate(q),
                       types |-> q.scope.types, jurisdiction |-> q.scope.jurisdiction,
                       top_k |-> IF q.scope.top_k = 0 THEN FinalTopK ELSE q.scope.top_k]
      <4>1. /\ DOMAIN call = D /\ call.query = c.query /\ call.role = q.role /\ call.method = m
            /\ call.as_of = AskedDate(q) /\ call.types = q.scope.types
            /\ call.jurisdiction = q.scope.jurisdiction /\ call.top_k = q.scope.top_k
        BY DEF service_call
      <4> HIDE DEF call
      <4>2. DOMAIN request(call) = D /\ request(call) = [f \in D |-> request(call)[f]]
        BY <4>1 DEF request
      <4>3. /\ request(call).query = y.query /\ request(call).role = y.role
            /\ request(call).method = y.method /\ request(call).as_of = y.as_of
            /\ request(call).types = y.types /\ request(call).jurisdiction = y.jurisdiction
            /\ request(call).top_k = y.top_k
        BY <4>1 DEF request
      <4>4. DOMAIN y = D /\ y = [f \in D |-> y[f]]
        OBVIOUS
      <4> HIDE DEF y
      <4>5. request(call) = y
        BY <4>2, <4>3, <4>4
      <4> QED BY <4>5 DEF call, y
    <3> HIDE DEF Made
    <3>3. r = Made(c.query, NoMethod)
      BY <2>1, <2>3, <3>1, <3>2
    <3> QED BY <2>1, <2>3, <3>3 DEF requests, Made
  <2> QED BY <2>2, <2>3 DEF ForQuestion
<1> HIDE DEF r
<1>3. profile(held, r, ranked) \in {profile(held, r, x) : x \in responses(held, r)}
  BY DEF r
<1>4. profile(held, r, ranked) \in profiles(q)
  <2> DEFINE Given(l, s) == {profile(l, s, x) : x \in responses(l, s)}
  <2>1. profiles(q) = UNION {Given(l, s) : l \in Corpora, s \in requests(q)}
    BY DEF profiles
  <2>2. profile(held, r, ranked) \in Given(held, r)
    BY <1>3
  <2> HIDE DEF Given
  <2>3. Given(held, r) \in {Given(l, s) : l \in Corpora, s \in requests(q)}
    BY <1>2
  <2> QED BY <2>1, <2>2, <2>3
<1> QED BY <1>1, <1>4 DEF r

\* The retrievers guarantee what the agent's specification takes for granted.
LEMMA ResponseIsPossible ==
  ASSUME NEW held \in Corpora, NEW q \in Questions, NEW c, ForQuestion(q, c),
         NEW ranked \in responses(held, served_request(q, c))
  PROVE  Agent!Possible(c, profile(held, served_request(q, c), ranked))
<1> DEFINE r == served_request(q, c)
           p == profile(held, r, ranked)
           x == Agent!Response(c, p)
           found == candidates(held, r)
           exact == {i \in DOMAIN p.results : p.results[i].exact}
<1>1. /\ IsRequest(r) /\ r.query = c.query /\ r.method = c.method /\ r.as_of = c.as_of
      /\ r.method \in Methods
  BY ServiceCallFacts DEF ForQuestion, IsRequest
<1>2. Listing(found, r, ranked)
  BY <1>1, ResponseFacts
<1>3. Reads(x, p, held, r, ranked, c)
  BY ProfileFacts
<1>4. score_kind(r) \in {"rerank", "rrf", "lexical", "dense"}
  BY <1>1 DEF score_kind, Methods
<1>5. Agent!kind(x) = score_kind(r)
  <2> HIDE DEF x, r
  <2> QED BY <1>1, <1>3 DEF Agent!kind, score_kind, Reads
<1>6. p.candidates = 0 => p.results = <<>>
  <2> SUFFICES ASSUME p.candidates = 0 PROVE p.results = <<>>
    OBVIOUS
  <2>1. IsFiniteSet(DOMAIN found)
    <3>1. PICK S \in SUBSET DOMAIN Catalogue : held = Restrict(Catalogue, S)
      BY DEF Corpora
    <3>2. DOMAIN found \subseteq DOMAIN held
      BY DEF candidates, scope_chunks_for_request, filter_authorized_chunks, Restrict
    <3>3. DOMAIN held \subseteq DOMAIN Catalogue
      BY <3>1 DEF Restrict
    <3> HIDE DEF found
    <3> QED BY <3>2, <3>3, FS_Subset, ServiceAssumption
  <2> HIDE DEF p, x, r, found
  <2>2. Cardinality(DOMAIN found) = 0
    BY <1>3 DEF Reads, found
  <2>3. DOMAIN found = {}
    BY <2>1, <2>2, FS_EmptySet
  <2>4. DOMAIN ranked = {}
    BY <1>2, <2>3 DEF Listing
  <2>5. p.results = [i \in {} |-> x.results[i]]
    BY <1>3, <2>4 DEF Reads
  <2> QED BY <2>5
<1>7. c.as_of = NoDate => p.filtered = 0
  <2>1. r.as_of = NoDate => expired(held, r) = {}
    BY DEF expired, chunk_valid_on
  <2>2. p.filtered = Cardinality(expired(held, r))
    <3> HIDE DEF p, x, r
    <3> QED BY <1>3 DEF Reads
  <2> HIDE DEF p, x, r
  <2> QED BY <1>1, <2>1, <2>2, FS_EmptySet
<1>8. /\ p.kind = score_kind(r) /\ DOMAIN p.results = DOMAIN ranked
      /\ \A i \in DOMAIN ranked :
           /\ p.results[i].exact = ranked[i].exact
           /\ p.results[i].score = Scored(ranked[i].score, score_kind(r))
           /\ p.results[i].overlap => score_kind(r) = "rerank"
  <2> HIDE DEF p, x, r
  <2> QED BY <1>3 DEF Reads
<1> HIDE DEF p, r, found
<1>9. p.kind = "rrf" => exact \in {{}, DOMAIN p.results}
  BY <1>2, <1>8 DEF Listing
<1>10. ASSUME p.kind # "rrf" \/ exact = {} PROVE Agent!Descending(p.results)
  <2>1. score_kind(r) # "rrf" \/ \A i \in DOMAIN ranked : ~ranked[i].exact
    BY <1>8, <1>10
  <2>2. \A i, j \in DOMAIN ranked : i < j => ranked[i].score >= ranked[j].score
    BY <1>2, <2>1 DEF Listing
  <2>3. \A i \in DOMAIN ranked : ranked[i].score \in Int
    BY <1>2 DEF Listing
  <2>4. ASSUME NEW i \in DOMAIN ranked, NEW j \in DOMAIN ranked, i < j
        PROVE  p.results[i].score >= p.results[j].score
    <3>1. ranked[i].score \in Int /\ ranked[j].score \in Int /\ ranked[j].score <= ranked[i].score
      BY <2>2, <2>3, <2>4
    <3>2. Scored(ranked[j].score, score_kind(r)) <= Scored(ranked[i].score, score_kind(r))
      BY <1>4, <3>1, ScoredMonotone
    <3>3. /\ p.results[i].score = Scored(ranked[i].score, score_kind(r))
          /\ p.results[j].score = Scored(ranked[j].score, score_kind(r))
      BY <1>8
    <3> QED BY <3>2, <3>3
  <2> QED BY <1>8, <2>4 DEF Agent!Descending
<1>11. p.kind = "dense" => exact = {}
  BY <1>2, <1>8 DEF Listing
<1>12. p.kind # "rerank" => \A i \in DOMAIN p.results : ~p.results[i].overlap
  BY <1>8
<1> HIDE DEF exact
<1>13. Agent!Possible(c, p)
  <2>1. p.kind = Agent!kind(Agent!Response(c, p))
    BY <1>5, <1>8 DEF x
  <2> QED BY <2>1, <1>6, <1>7, <1>9, <1>10, <1>11, <1>12 DEF Agent!Possible, exact
<1> QED BY <1>13 DEF p, r

\* Asked twice, the service answers the same, and it counts the same for one scope.
LEMMA ResponseIsConsistent ==
  ASSUME SystemInv, phase = "retrieve", NEW ranked \in responses(library, served_request(question, agent_call))
  PROVE  Agent!Consistent(agent_call, Agent!Response(agent_call,
           profile(library, served_request(question, agent_call), ranked)))
<1> DEFINE c == agent_call
           r == served_request(question, c)
           p == profile(library, r, ranked)
           x == Agent!Response(c, p)
<1>1. /\ AgentInv /\ library \in Corpora /\ question \in Questions
      /\ \E S : attempts \in Seq(S)
  BY DEF SystemInv, AgentInv, ServiceInv
<1>2. /\ ForQuestion(question, c) /\ InTurn(question, c, Len(attempts) + 1)
      /\ (Agent!strategy # "decomposition" /\ attempts # <<>>) => c.method = "lexical"
  BY <1>1, AgentCallFacts
<1>3. IsRequest(r) /\ r.method = c.method /\ Reads(x, p, library, r, ranked, c)
  BY <1>1, <1>2, ServiceCallFacts, ProfileFacts
<1> SUFFICES ASSUME NEW i \in DOMAIN attempts
             PROVE  /\ attempts[i].call = c => attempts[i].response = x
                    /\ attempts[i].response.denied = x.denied
                    /\ attempts[i].response.candidates = x.candidates
                    /\ attempts[i].response.filtered = x.filtered
  BY DEF Agent!Consistent
<1> DEFINE past == attempts[i]
           s == served_request(question, past.call)
<1>4. Served(library, question, past) /\ InTurn(question, past.call, i)
  BY <1>1 DEF AgentInv
<1>5. ForQuestion(question, past.call)
  BY <1>4 DEF Served
<1>6. PICK given \in responses(library, s) : past.response = Agent!Response(past.call, profile(library, s, given))
  BY <1>4 DEF Served
<1>7. Reads(past.response, profile(library, s, given), library, s, given, past.call)
  BY <1>6, ProfileFacts
<1>8. /\ IsRequest(s) /\ s.role = r.role /\ s.types = r.types /\ s.jurisdiction = r.jurisdiction
      /\ s.as_of = r.as_of
  BY <1>1, <1>2, <1>5, ServiceCallFacts
<1>9. ASSUME past.call = c PROVE past.response = x
  <2>1. CASE Agent!strategy = "decomposition"
    <3> DEFINE parts == Agent!plan(question.query).queries
               n == Len(attempts)
    <3>1. Agent!plan(question.query).strategy = "decomposition"
      BY <2>1 DEF Agent!strategy
    <3>2. parts \in Seq(Queries) /\ IsInjective(parts)
      BY <1>1, <3>1, PlanFacts, QuestionFacts
    <3>3. n \in Nat /\ i \in 1..n /\ n < Len(parts)
      BY <1>1, <3>1 DEF AgentInv, CallsFor
    <3>4. parts[i] = parts[n + 1]
      BY <1>2, <1>4, <1>9, <3>1 DEF InTurn
    <3> HIDE DEF parts, n
    <3>5. i \in DOMAIN parts /\ n + 1 \in DOMAIN parts /\ i # n + 1
      BY <3>2, <3>3
    <3> QED BY <3>2, <3>4, <3>5 DEF IsInjective
  <2>2. CASE Agent!strategy # "decomposition"
    <3>1. attempts # <<>>
      BY <1>1
    <3>2. s = r /\ r.method = "lexical"
      BY <1>2, <1>3, <1>9, <2>2, <3>1
    <3>3. given = ranked
      <4> HIDE DEF r, s
      <4> QED BY <1>6, <3>2 DEF responses, r
    <3> HIDE DEF r, s, past, c
    <3> QED BY <1>6, <1>9, <3>2, <3>3
  <2> QED BY <2>1, <2>2
<1>10. /\ past.response.denied = x.denied /\ past.response.candidates = x.candidates
       /\ past.response.filtered = x.filtered
  <2>1. DOMAIN candidates(library, s) = DOMAIN candidates(library, r) /\ expired(library, s) = expired(library, r)
    <3> HIDE DEF r, s
    <3> QED BY <1>3, <1>8, PopulationFacts
  <2> HIDE DEF x, r, s, p, past
  <2> QED BY <1>3, <1>7, <1>8, <2>1 DEF Reads
<1> QED BY <1>9, <1>10

\* A response that comes back is a retrieval of the agent's specification.
LEMMA ReceivesIsRetrieve ==
  ASSUME SystemInv, Receives
  PROVE  Agent!Next
<1> DEFINE p == profile(library, req, results)
<1>1. /\ ServiceInv /\ Asking /\ AgentInv /\ stage = "done"
  BY DEF SystemInv, Receives, Return
<1>2. /\ phase = "retrieve" /\ req = served_request(question, agent_call)
      /\ results \in responses(library, req) /\ library \in Corpora /\ question \in Questions
  BY <1>1 DEF Asking, ServiceInv, AgentInv
<1>3. ForQuestion(question, agent_call)
  BY <1>1, <1>2, AgentCallFacts
<1>4. p \in Profiles[question] /\ Agent!Possible(agent_call, p)
  BY <1>2, <1>3, ProfileKnown, ResponseIsPossible
<1>5. Agent!Consistent(agent_call, Agent!Response(agent_call, p))
  BY <1>2, ResponseIsConsistent
<1>6. /\ retrieved' = [call |-> agent_call, response |-> Agent!Response(agent_call, p)]
      /\ trace' = Append(trace, "retrieved") /\ phase' = "grade"
      /\ UNCHANGED <<question, attempts, best, final>>
  BY DEF Receives
<1> HIDE DEF p
<1>7. Agent!Retrieve(agent_call)
  BY <1>4, <1>5, <1>6 DEF Agent!Retrieve, Agent!retrieve, Agent!rejected
<1>8. Agent!RetrievePart \/ Agent!RetrieveInitial \/ Agent!RetrieveFocused
  BY <1>2, <1>7 DEF agent_call, Agent!RetrievePart, Agent!RetrieveInitial, Agent!RetrieveFocused
<1> QED BY <1>8 DEF Agent!Next, Agent!Answering

\* The agent over a corpus takes the steps of the agent that takes responses as given:
\* what is shown of that agent holds whatever the retrievers make of any corpus
\* (control.py:170-383, retrieval/service.py:40-110).
THEOREM AgentOverCorpusRefines == SystemSpec => ImplementsAgent
<1>1. SystemInit => Agent!Init
  BY DEF SystemInit
<1>2. SystemInv /\ [SystemNext]_<<service, agent>> => [Agent!Next]_agent
  <2> SUFFICES ASSUME SystemInv, [SystemNext]_<<service, agent>>
               PROVE  [Agent!Next]_agent
    OBVIOUS
  <2>1. CASE Understands
    BY <2>1 DEF Understands, Agent!Next, Agent!Answering
  <2>2. CASE Asks
    BY <2>2 DEF Asks
  <2>3. CASE Serves
    BY <2>3 DEF Serves
  <2>4. CASE Receives
    BY <2>4, ReceivesIsRetrieve
  <2>5. CASE Grades
    BY <2>5 DEF Grades, Agent!Next, Agent!Answering
  <2>6. CASE Retries
    BY <2>6 DEF Retries, Agent!Next, Agent!Answering
  <2>7. CASE Answers
    BY <2>7 DEF Answers, Agent!Next, Agent!Answering
  <2>8. CASE Refuses
    BY <2>8 DEF Refuses, Agent!Next, Agent!Answering
  <2>9. CASE Rests
    BY <2>9 DEF Rests, Agent!Next
  <2>10. CASE UNCHANGED <<service, agent>>
    BY <2>10
  <2> QED BY <2>1, <2>2, <2>3, <2>4, <2>5, <2>6, <2>7, <2>8, <2>9, <2>10 DEF SystemNext
<1> QED BY <1>1, <1>2, SystemInvariant, PTL DEF SystemSpec, ImplementsAgent

-----------------------------------------------------------------------------
(* The theorems of the agent hold of the agent over a corpus.              *)

Proved == INSTANCE CorrectiveAgentProofs WITH
  req <- question, found <- retrieved,
  Sources <- DOMAIN Catalogue, TypeOf <- [c \in DOMAIN Catalogue |-> Catalogue[c].type],
  Roles <- {call.role : call \in Calls}, Scopes <- {scope_of(call) : call \in Calls},
  Invalid <- {}, Requests <- Questions

\* The instance that the theorems are of is the one that AgentOverCorpus is made with.
LEMMA SameInit == Proved!Init <=> Agent!Init
BY DEF Proved!Init, Agent!Init

LEMMA SameGrade ==
  ASSUME NEW r
  PROVE  Proved!grade_evidence(r) = Agent!grade_evidence(r)
BY DEF Proved!grade_evidence, Agent!grade_evidence, Proved!outdated,
   Agent!outdated, Proved!outside_validity, Agent!outside_validity,
   Proved!older_than_asked, Agent!older_than_asked, Proved!only_case_law,
   Agent!only_case_law, Proved!conflicting, Agent!conflicting, Proved!leading,
   Agent!leading, Proved!kind, Agent!kind, Proved!empty_reason, Agent!empty_reason,
   Proved!is_relevant_score, Agent!is_relevant_score, Proved!is_ambiguous_score,
   Agent!is_ambiguous_score, Proved!weak_reason, Agent!weak_reason,
   Proved!prefer_no_authorized_source, Agent!prefer_no_authorized_source

LEMMA SamePlan ==
  ASSUME NEW q
  PROVE  Proved!plan(q) = Agent!plan(q)
BY DEF Proved!plan, Agent!plan

LEMMA SameNext == [Proved!Next]_Proved!vars <=> [Agent!Next]_agent
<1>1. /\ Proved!strategy = Agent!strategy /\ Proved!queries = Agent!queries
      /\ Proved!focused = Agent!focused
  BY SamePlan DEF Proved!strategy, Agent!strategy, Proved!queries, Agent!queries,
      Proved!focused, Agent!focused
<1>2. Proved!effective_as_of_date = Agent!effective_as_of_date
  BY DEF Proved!effective_as_of_date, Agent!effective_as_of_date
<1>3. \A q, m, d : Proved!CallFor(q, m, d) = Agent!CallFor(q, m, d)
  BY DEF Proved!CallFor, Agent!CallFor
<1>4. \A c : Proved!Retrieve(c) <=> Agent!Retrieve(c)
  BY DEF Proved!Retrieve, Agent!Retrieve, Proved!retrieve, Agent!retrieve,
      Proved!rejected, Agent!rejected, Proved!Possible, Agent!Possible,
      Proved!Consistent, Agent!Consistent, Proved!Response, Agent!Response,
      Proved!Descending, Agent!Descending, Proved!kind, Agent!kind
<1>5. Proved!Graded = Agent!Graded
  BY SameGrade DEF Proved!Graded, Agent!Graded
<1>6. \A l, r : Proved!choose_better_response(l, r) = Agent!choose_better_response(l, r)
  BY DEF Proved!choose_better_response, Agent!choose_better_response,
      Proved!grade_rank, Agent!grade_rank
<1>7. Proved!Understand <=> Agent!Understand
  BY <1>1 DEF Proved!Understand, Agent!Understand
<1>8. /\ (Proved!RetrievePart <=> Agent!RetrievePart)
      /\ (Proved!RetrieveInitial <=> Agent!RetrieveInitial)
      /\ (Proved!RetrieveFocused <=> Agent!RetrieveFocused)
  BY <1>1, <1>2, <1>3, <1>4, SamePlan DEF Proved!RetrievePart, Agent!RetrievePart,
      Proved!RetrieveInitial, Agent!RetrieveInitial, Proved!RetrieveFocused,
      Agent!RetrieveFocused, Proved!part_call, Agent!part_call, Proved!initial_call,
      Agent!initial_call, Proved!focused_call, Agent!focused_call
<1>9. Proved!Grade <=> Agent!Grade
  BY <1>1, <1>5, <1>6 DEF Proved!Grade, Agent!Grade, Proved!CallsLeft, Agent!CallsLeft
<1>10. Proved!Retry <=> Agent!Retry
  BY <1>1 DEF Proved!Retry, Agent!Retry, Proved!Retryable, Agent!Retryable,
      Proved!is_relevant, Agent!is_relevant
<1>11. \A o, g, m, s, b : Proved!Finalize(o, g, m, s, b) <=> Agent!Finalize(o, g, m, s, b)
  BY DEF Proved!Finalize, Agent!Finalize
<1>12. \A r : Proved!cited(r) = Agent!cited(r)
  BY DEF Proved!cited, Agent!cited
<1>13. Proved!worst = Agent!worst /\ Proved!grades = Agent!grades
  BY DEF Proved!worst, Agent!worst, Proved!grades, Agent!grades, Proved!Parts,
      Agent!Parts, Proved!grade_rank, Agent!grade_rank
<1>14. Proved!AnswerParts <=> Agent!AnswerParts
  BY <1>1, <1>11, <1>12 DEF Proved!AnswerParts, Agent!AnswerParts, Proved!Parts,
      Agent!Parts, Proved!is_relevant, Agent!is_relevant
<1>15. Proved!RefuseParts <=> Agent!RefuseParts
  BY <1>1, <1>11, <1>12, <1>13 DEF Proved!RefuseParts, Agent!RefuseParts,
      Proved!Parts, Agent!Parts, Proved!is_relevant, Agent!is_relevant
<1>16. (Proved!AnswerBest <=> Agent!AnswerBest) /\ (Proved!RefuseBest <=> Agent!RefuseBest)
  BY <1>1, <1>11, <1>12 DEF Proved!AnswerBest, Agent!AnswerBest, Proved!RefuseBest,
      Agent!RefuseBest, Proved!Retryable, Agent!Retryable, Proved!is_relevant,
      Agent!is_relevant
<1>17. Proved!vars = agent /\ Agent!vars = agent
  BY DEF Proved!vars, Agent!vars, agent
<1>18. Proved!Rest <=> Agent!Rest
  BY <1>17 DEF Proved!Rest, Agent!Rest, Proved!Terminal, Agent!Terminal,
      Proved!vars, Agent!vars
<1>19. Proved!Next <=> Agent!Next
  BY <1>7, <1>8, <1>9, <1>10, <1>14, <1>15, <1>16, <1>18 DEF Proved!Next, Agent!Next,
      Proved!Answering, Agent!Answering
<1> QED BY <1>19 DEF Proved!vars, agent

\* The service completes what the agent may ask for to a request.
LEMMA RequestsOfQuestion ==
  ASSUME NEW q \in Questions, NEW r \in requests(q)
  PROVE  IsRequest(r)
<1>1. PICK text \in Askable(q), method \in {q.method, "hybrid", "lexical"} :
        r = request(service_call(q, text, method, AskedDate(q)))
  BY DEF requests
<1>2. /\ q.query \in Queries /\ q.method \in Methods \cup {NoMethod} /\ q.scope.top_k \in Nat
  BY QuestionFacts
<1>3. text \in Queries
  <2>1. \A part \in {Clauses[q.query], Identifiers[q.query], Rewrites[q.query]} : part \in Seq(Queries)
    BY <1>2, SystemAssumption
  <2>2. \A part \in Seq(Queries) : Range(part) \subseteq Queries
    BY DEF Range
  <2> QED BY <1>2, <2>1, <2>2 DEF Askable
<1>4. IsCall(service_call(q, text, method, AskedDate(q)))
  BY <1>2, <1>3 DEF IsCall, service_call, Methods
<1> QED BY <1>1, <1>4, RequestFacts

\* What is asked of the constants of the agent holds of what the service makes.
LEMMA ProfileTyped ==
  ASSUME NEW held \in Corpora, NEW r, IsRequest(r), NEW ranked \in responses(held, r)
  PROVE  profile(held, r, ranked) \in Agent!Profile
<1> DEFINE Read == [i \in DOMAIN ranked |->
             [source |-> ranked[i].chunk, exact |-> ranked[i].exact,
              overlap |-> score_kind(r) = "rerank" /\ Overlap[r.query][ranked[i].source.text] > 0,
              score |-> Scored(ranked[i].score, score_kind(r))]]
           denied == DOMAIN held \ DOMAIN filter_authorized_chunks(held, r.role)
<1>1. score_kind(r) \in {"rerank", "rrf", "lexical", "dense"}
  BY DEF score_kind, IsRequest, Methods
<1>2. /\ Listing(candidates(held, r), r, ranked) /\ IsFound(candidates(held, r))
      /\ DOMAIN candidates(held, r) \subseteq DOMAIN held
  BY ResponseFacts, CandidatesFound
<1>3. IsFiniteSet(DOMAIN held) /\ DOMAIN held \subseteq DOMAIN Catalogue
  <2>1. PICK S \in SUBSET DOMAIN Catalogue : held = Restrict(Catalogue, S)
    BY DEF Corpora
  <2> QED BY <2>1, RestrictFacts, FS_Subset, ServiceAssumption
<1>4. \A score \in Int : Scored(score, score_kind(r)) \in Int
  BY <1>1, ScoredInt
<1>5. PICK n \in Nat : DOMAIN ranked = 1..n
  BY <1>2 DEF Listing
<1>6. Read \in Seq(Agent!Result)
  <2>1. ASSUME NEW i \in DOMAIN ranked PROVE Read[i] \in Agent!Result
    <3>1. /\ ranked[i].chunk \in DOMAIN Catalogue /\ ranked[i].exact \in BOOLEAN
          /\ ranked[i].score \in Int
      BY <1>2, <1>3 DEF Listing
    <3>2. (score_kind(r) = "rerank" /\ Overlap[r.query][ranked[i].source.text] > 0) \in BOOLEAN
      OBVIOUS
    <3> QED BY <1>4, <3>1, <3>2 DEF Agent!Result
  <2>2. DOMAIN Read = 1..n /\ Read = [i \in 1..n |-> Read[i]]
    BY <1>5
  <2> HIDE DEF Read
  <2>3. Read \in [1..n -> Agent!Result]
    BY <1>5, <2>1, <2>2
  <2> QED BY <1>5, <2>3
<1>7. IsFiniteSet(denied) /\ IsFiniteSet(DOMAIN candidates(held, r)) /\ IsFiniteSet(expired(held, r))
  <2>1. expired(held, r) \subseteq DOMAIN held
    BY DEF expired, filter_authorized_chunks, Restrict
  <2> QED BY <1>2, <1>3, <2>1, FS_Subset
<1>8. /\ Cardinality(denied) \in Nat /\ Cardinality(DOMAIN candidates(held, r)) \in Nat
      /\ Cardinality(expired(held, r)) \in Nat
  BY <1>7, FS_CardinalityType
<1>9. profile(held, r, ranked) =
        [kind |-> score_kind(r), results |-> Read, denied |-> Cardinality(denied),
         candidates |-> Cardinality(DOMAIN candidates(held, r)),
         filtered |-> Cardinality(expired(held, r))]
  BY DEF profile
<1> HIDE DEF Read, denied
<1> QED BY <1>1, <1>6, <1>8, <1>9 DEF Agent!Profile, Agent!Kinds

LEMMA ConstantsGraded == Proved!GradingAssumption
<1>1. Relevant \in [Proved!Kinds -> Nat] /\ DOMAIN Relevant = Proved!Kinds
  BY SystemAssumption DEF Proved!Kinds
<1>2. [c \in DOMAIN Catalogue |-> Catalogue[c].type] \in [DOMAIN Catalogue -> STRING]
  BY GradedAssumption
<1> QED BY <1>1, <1>2, GradedAssumption, RetrievalAssumption DEF Proved!GradingAssumption

LEMMA ConstantsOfAgent == Proved!AgentAssumption
<1>1. Questions \subseteq Proved!Request
  <2> SUFFICES ASSUME NEW call \in Calls
               PROVE  [query |-> call.query, role |-> call.role, method |-> call.method,
                       as_of |-> call.as_of, scope |-> scope_of(call)] \in Proved!Request
    BY DEF Questions
  <2>1. IsCall(call) /\ call.as_of \in Dates \cup {NoDate}
    BY CallsAssumption, GradedAssumption
  <2> QED BY <2>1 DEF Proved!Request, IsCall, Methods, Proved!Methods
<1>2. ASSUME NEW q \in Questions PROVE Profiles[q] \in SUBSET Proved!Profile
  <2>1. Profiles[q] = profiles(q)
    BY ProfilesFacts
  <2>2. SUFFICES ASSUME NEW held \in Corpora, NEW r \in requests(q), NEW ranked \in responses(held, r)
                 PROVE  profile(held, r, ranked) \in Proved!Profile
    BY <2>1 DEF profiles
  <2>3. IsRequest(r)
    BY RequestsOfQuestion
  <2> QED BY <2>2, <2>3, ProfileTyped DEF Proved!Profile, Agent!Profile, Proved!Kinds, Agent!Kinds,
             Proved!Result, Agent!Result
<1>3. Profiles \in [Questions -> SUBSET Proved!Profile]
  <2>1. Profiles = [q \in Questions |-> Profiles[q]]
    BY DEF Profiles
  <2> QED BY <1>2, <2>1
<1>4. \A q \in Queries : \A part \in {Identifiers[q], Rewrites[q]} :
        \A i \in DOMAIN part : part[i] \in NamesIdentifier
  BY GradedAssumption
<1>5. DefaultMethod \in Proved!Methods /\ NoMethod \notin Proved!Methods
  BY ServiceAssumption DEF Methods, Proved!Methods
<1>6. MaxRetries \in Nat /\ MaxCitations \in Nat \ {0} /\ DateIn \in [Queries -> Dates \cup {NoDate}]
  BY SystemAssumption, GradedAssumption
<1> QED BY <1>1, <1>3, <1>4, <1>5, <1>6, SystemAssumption DEF Proved!AgentAssumption

LEMMA SameProperties ==
  /\ (Proved!TypeOK <=> Agent!TypeOK)
  /\ (Proved!OneScopePerAnswer <=> Agent!OneScopePerAnswer)
  /\ (Proved!AnswersRestOnEvidence <=> Agent!AnswersRestOnEvidence)
  /\ (Proved!BestAttemptDecides <=> Agent!BestAttemptDecides)
  /\ (Proved!HonestReason <=> Agent!HonestReason)
  /\ (Proved!NoObjectionOverlooked <=> Agent!NoObjectionOverlooked)
<1>1. Proved!strategy = Agent!strategy /\ Proved!queries = Agent!queries
  BY SamePlan DEF Proved!strategy, Agent!strategy, Proved!queries, Agent!queries
<1>2. \A r : Proved!cited(r) = Agent!cited(r)
  BY DEF Proved!cited, Agent!cited
<1>3. \A i : Proved!weak(i) <=> Agent!weak(i)
  BY DEF Proved!weak, Agent!weak, Proved!is_relevant, Agent!is_relevant
<1>4. \A r : /\ (Proved!older_than_asked(r) <=> Agent!older_than_asked(r))
            /\ (Proved!only_case_law(r) <=> Agent!only_case_law(r))
            /\ (Proved!outside_validity(r) <=> Agent!outside_validity(r))
            /\ (Proved!conflicting(r) <=> Agent!conflicting(r))
  BY DEF Proved!older_than_asked, Agent!older_than_asked, Proved!only_case_law, Agent!only_case_law,
     Proved!outside_validity, Agent!outside_validity, Proved!conflicting, Agent!conflicting,
     Proved!leading, Agent!leading, Proved!is_ambiguous_score, Agent!is_ambiguous_score,
     Proved!kind, Agent!kind
<1>5. Proved!TypeOK <=> Agent!TypeOK
  BY DEF Proved!TypeOK, Agent!TypeOK, Proved!Terminal, Agent!Terminal, Proved!Call, Agent!Call,
     Proved!Retrieval, Agent!Retrieval, Proved!Attempt, Agent!Attempt, Proved!Evidence, Agent!Evidence,
     Proved!Reasons, Agent!Reasons, Proved!Result, Agent!Result, Proved!Methods, Agent!Methods,
     Proved!States, Agent!States, Proved!Answer, Agent!Answer
<1>6. Proved!OneScopePerAnswer <=> Agent!OneScopePerAnswer
  BY DEF Proved!OneScopePerAnswer, Agent!OneScopePerAnswer, Proved!Parts, Agent!Parts,
     Proved!effective_as_of_date, Agent!effective_as_of_date
<1>7. Proved!AnswersRestOnEvidence <=> Agent!AnswersRestOnEvidence
  BY <1>1, <1>2, <1>3 DEF Proved!AnswersRestOnEvidence, Agent!AnswersRestOnEvidence,
     Proved!Parts, Agent!Parts
<1>8. Proved!BestAttemptDecides <=> Agent!BestAttemptDecides
  BY <1>1, <1>3 DEF Proved!BestAttemptDecides, Agent!BestAttemptDecides, Proved!Parts, Agent!Parts,
     Proved!grade_rank, Agent!grade_rank
<1>9. Proved!HonestReason <=> Agent!HonestReason
  BY <1>4 DEF Proved!HonestReason, Agent!HonestReason, Proved!Parts, Agent!Parts
<1>10. Proved!NoObjectionOverlooked <=> Agent!NoObjectionOverlooked
  BY <1>1, <1>3, <1>4 DEF Proved!NoObjectionOverlooked, Agent!NoObjectionOverlooked,
     Proved!Parts, Agent!Parts
<1> QED BY <1>5, <1>6, <1>7, <1>8, <1>9, <1>10

\* What is proved of the agent from assumptions on what it is given holds of the agent over
\* every corpus: its answers rest on relevant evidence of one scope, the best attempt
\* decides, reasons are honest and objections kept (control.py:170-383).
THEOREM AgentIsSound ==
  SystemSpec => [](/\ Agent!TypeOK /\ Agent!OneScopePerAnswer /\ Agent!AnswersRestOnEvidence
                   /\ Agent!BestAttemptDecides /\ Agent!HonestReason /\ Agent!NoObjectionOverlooked)
<1>1. ImplementsAgent => Proved!Steps
  BY SameInit, SameNext, PTL DEF ImplementsAgent, Proved!Steps
<1>2. Proved!Steps =>
        [](/\ Proved!TypeOK /\ Proved!OneScopePerAnswer /\ Proved!AnswersRestOnEvidence
           /\ Proved!BestAttemptDecides /\ Proved!HonestReason /\ Proved!NoObjectionOverlooked)
  BY ConstantsGraded, ConstantsOfAgent, Proved!TypeCorrect, Proved!ScopeIsKept, Proved!AnswersAreSupported,
     Proved!BestIsChosen, Proved!ReasonsAreHonest, Proved!ObjectionsAreKept, PTL
<1> QED BY <1>1, <1>2, AgentOverCorpusRefines, SameProperties, PTL

-----------------------------------------------------------------------------
(* Exact evidence.                                                         *)

matched(found, q) == {c \in DOMAIN found : lexical_score(found[c], q) > 0}
exactly(found, q) == {c \in DOMAIN found : exact_priority(found[c], q) > 0}

\* The boost is high enough that 55 points for a citation path that is only contained in
\* the query do not reverse the order of exact evidence.
LEMMA PriorityOrders ==
  ASSUME NEW c, NEW d, NEW q, exact_priority(c, q) > exact_priority(d, q)
  PROVE  lexical_score(c, q) > lexical_score(d, q)
<1> DEFINE t == Terms[q]
           Named == Points(t.paragraph # NoTerm, 20) + Points(t.subparagraph # NoTerm, 10)
           Ecli(x) == Points(t.ecli # NoTerm /\ x.ecli = t.ecli, 100 * Boost)
           Article(x) == Points(names_article(x, t), 40 * Boost + Points(t.paragraph # NoTerm, 20)
                                                               + Points(t.subparagraph # NoTerm, 10))
           Equal(x) == Points(CitationMatch[q][x.text] = "equal", 95)
           Contained(x) == Points(CitationMatch[q][x.text] = "contains" /\ ~sibling(x, t), 55)
<1>1. Boost \in Int /\ Boost >= 3
  BY RetrievalAssumption, BoostAssumption
<1>2. /\ Named \in {0, 10, 20, 30}
      /\ 40 * Boost + Points(t.paragraph # NoTerm, 20) + Points(t.subparagraph # NoTerm, 10) = 40 * Boost + Named
  BY <1>1 DEF Points
<1>3. \A x : /\ Ecli(x) \in {0, 100 * Boost}
             /\ Article(x) \in {0, 40 * Boost + Named}
             /\ Equal(x) \in {0, 95} /\ Contained(x) \in {0, 55}
             /\ Equal(x) = 95 => Contained(x) = 0
  <2> HIDE DEF Named
  <2> QED BY <1>2 DEF Points
<1>4. \A x : exact_priority(x, q) = IF sibling(x, t) THEN 0 ELSE Ecli(x) + Article(x) + Equal(x)
  BY DEF exact_priority
<1>5. \A x : lexical_score(x, q) = exact_priority(x, q) + Contained(x)
  BY DEF lexical_score
<1>6. \A x : sibling(x, t) => Contained(x) = 0
  BY DEF Points
<1> HIDE DEF Named, Ecli, Article, Equal, Contained
<1>7. ~sibling(c, t)
  BY <1>1, <1>2, <1>3, <1>4
<1> QED BY <1>1, <1>2, <1>3, <1>4, <1>5, <1>6, <1>7

\* The lexical part returns the best of the exact evidence, as much as it may.
LEMMA ExactIsFound ==
  ASSUME NEW found, IsFound(found), NEW q, NEW k \in Nat,
         NEW lexical, lexical = lexical_ranks(found, q, k),
         NEW best_found, best_found = DOMAIN lexical \cap exactly(found, q)
  PROVE  /\ IsFiniteSet(exactly(found, q))
         /\ Cardinality(best_found) = Smaller(k, Cardinality(exactly(found, q)))
         /\ \A c \in best_found, d \in exactly(found, q) \ best_found :
              exact_priority(found[c], q) >= exact_priority(found[d], q)
<1> DEFINE S == matched(found, q)
           E == exactly(found, q)
           key == [c \in S |-> <<lexical_score(found[c], q), 0>>]
           Priority(c) == exact_priority(found[c], q)
           Score(c) == lexical_score(found[c], q)
<1>1. lexical = top(key, k)
  BY DEF lexical_ranks, matched
<1>2. \A c : Priority(c) \in Nat /\ Score(c) \in Nat /\ Score(c) >= Priority(c)
  <2> TAKE c
  <2>1. Priority(c) \in Nat /\ Score(c) \in Nat
    BY LexicalScores
  <2> HIDE DEF Priority
  <2> QED BY <2>1 DEF lexical_score, Points, Priority
<1>3. \A c, d : Priority(c) > Priority(d) => Score(c) > Score(d)
  BY PriorityOrders
<1>4. E \subseteq S /\ \A c \in S : c \in E <=> Priority(c) > 0
  <2>1. \A c : c \in S <=> c \in DOMAIN found /\ Score(c) > 0
    BY DEF matched
  <2>2. \A c : c \in E <=> c \in DOMAIN found /\ Priority(c) > 0
    BY DEF exactly
  <2> HIDE DEF S, E, Priority, Score
  <2> QED BY <1>2, <2>1, <2>2
<1>5. IsFiniteSet(S) /\ S \subseteq Int
  BY FS_Subset DEF IsFound, matched
<1>6. IsFiniteSet(E) /\ Cardinality(E) \in Nat
  BY <1>4, <1>5, FS_Subset, FS_CardinalityType
<1>7. /\ DOMAIN key = S /\ \A c \in S : key[c] = <<Score(c), 0>>
      /\ \A c \in S : key[c] \in Int \X Int
  BY LexicalScores
<1> HIDE DEF key, S, E, Priority, Score
<1>8. IsKey(key)
  BY <1>5, <1>7 DEF IsKey
<1>9. /\ DOMAIN lexical = {c \in S : place(key, c) <= k}
      /\ \A c \in S : place(key, c) \in Int /\ place(key, c) <= Cardinality(S)
  BY <1>1, <1>5, <1>7, <1>8, PlaceFacts, FS_CardinalityType DEF top
<1>10. IsFiniteSet(DOMAIN lexical) /\ Cardinality(DOMAIN lexical) = Smaller(k, Cardinality(S))
  BY <1>1, <1>7, <1>8, TopIsRanking DEF IsRanking
<1>11. Cardinality(S) \in Nat /\ Cardinality(DOMAIN lexical) \in Nat
  BY <1>5, <1>10, FS_CardinalityType
<1>12. ASSUME NEW c \in DOMAIN lexical, NEW d \in E \ DOMAIN lexical PROVE Priority(c) >= Priority(d)
  <2>1. SUFFICES ASSUME Priority(d) > Priority(c) PROVE FALSE
    BY <1>2
  <2>2. c \in S /\ d \in S /\ place(key, c) <= k /\ ~(place(key, d) <= k)
    BY <1>4, <1>9
  <2>3. ahead(key, d, c)
    BY <1>2, <1>3, <1>7, <2>1, <2>2 DEF ahead
  <2>4. place(key, d) < place(key, c)
    BY <1>7, <1>8, <2>2, <2>3, PlaceFacts
  <2> QED BY <1>9, <2>2, <2>4
<1>13. Cardinality(best_found) = Smaller(k, Cardinality(E))
  <2>1. CASE E \subseteq DOMAIN lexical
    <3>1. best_found = E
      BY <2>1 DEF E
    <3>2. Cardinality(E) <= Cardinality(DOMAIN lexical)
      BY <1>10, <2>1, FS_Subset
    <3> QED BY <1>6, <1>10, <1>11, <3>1, <3>2 DEF Smaller
  <2>2. CASE ~(E \subseteq DOMAIN lexical)
    <3>1. PICK d \in E : d \notin DOMAIN lexical
      BY <2>2
    <3>2. \A c \in DOMAIN lexical : c \in E
      BY <1>2, <1>4, <1>9, <1>12, <3>1
    <3>3. best_found = DOMAIN lexical
      BY <3>2 DEF E
    <3>4. k < Cardinality(S)
      BY <1>4, <1>9, <1>11, <3>1
    <3>5. Cardinality(DOMAIN lexical) <= Cardinality(E)
      BY <1>6, <3>2, FS_Subset
    <3> QED BY <1>6, <1>10, <1>11, <3>3, <3>4, <3>5 DEF Smaller
  <2> QED BY <2>1, <2>2
<1> QED BY <1>6, <1>12, <1>13 DEF E, Priority

\* What then is ranked for an identifier: exact evidence E by its priority.
RanksExact(ranks, found, E, q, k) ==
  \E key : /\ IsKey(key) /\ DOMAIN key = E /\ ranks = top(key, k)
           /\ \A c \in DOMAIN key : key[c][1] = exact_priority(found[c], q)

LEMMA ExactIsRanked ==
  ASSUME NEW found, IsFound(found), NEW r, IsRequest(r), r.query \in NamesIdentifier,
         NEW lexical, lexical = lexical_ranks(found, r.query, lexical_limit(r)),
         NEW dense, Ranks(dense, found),
         NEW E, E = DOMAIN lexical \cap exactly(found, r.query), E # {}
  PROVE  RanksExact(hybrid_ranks(found, found, lexical, dense, r), found, E, r.query, r.top_k)
<1> DEFINE q == r.query
           K == Larger(r.top_k, RerankTopK)
           Key(c) == <<IF q \in NamesIdentifier THEN fused_priority(found, lexical, q, c) ELSE 0,
                       rrf_score(lexical, dense, c)>>
           key == [c \in kept(found, lexical, dense, q) |-> Key(c)]
<1>1. lexical_limit(r) \in Nat /\ K \in Nat /\ r.top_k \in Nat /\ r.top_k <= K
  BY RetrievalAssumption DEF lexical_limit, Larger, IsRequest
<1>2. Ranks(lexical, found)
  BY <1>1, LexicalRanksFacts
<1>3. E \subseteq DOMAIN lexical /\ E \subseteq DOMAIN found
  BY DEF exactly
<1>4. \A c \in DOMAIN lexical : fused_priority(found, lexical, q, c) = exact_priority(found[c], q)
  BY DEF fused_priority
<1>5. kept(found, lexical, dense, q) = E
  <2> DEFINE all == DOMAIN lexical \cup DOMAIN dense
             exact == {c \in all : fused_priority(found, lexical, q, c) > 0}
  <2>1. exact = E
    <3>1. \A c : c \in exact <=> c \in DOMAIN lexical /\ exact_priority(found[c], q) > 0
      BY <1>4 DEF fused_priority
    <3>2. \A c : c \in E <=> c \in DOMAIN lexical /\ exact_priority(found[c], q) > 0
      BY <1>2, <1>3 DEF exactly, Ranks
    <3> QED BY <3>1, <3>2
  <2>2. kept(found, lexical, dense, q) = IF q \in NamesIdentifier /\ exact # {} THEN exact ELSE all
    BY DEF kept
  <2> HIDE DEF exact, all
  <2> QED BY <2>1, <2>2
<1>6. IsFiniteSet(E) /\ E \subseteq Int
  BY <1>3, FS_Subset DEF IsFound
<1>7. DOMAIN key = E /\ \A c \in E : key[c] = <<exact_priority(found[c], q), rrf_score(lexical, dense, c)>>
  BY <1>3, <1>4, <1>5
<1>8. fused(found, lexical, dense, r) = top(key, K)
  BY DEF fused
<1>9. hybrid_ranks(found, found, lexical, dense, r)
        = Restrict(fused(found, lexical, dense, r),
            {c \in DOMAIN fused(found, lexical, dense, r) : fused(found, lexical, dense, r)[c] <= r.top_k})
  BY DEF hybrid_ranks
<1> HIDE DEF key, K
<1>10. \A c \in E : exact_priority(found[c], q) \in Int /\ rrf_score(lexical, dense, c) \in Int
  BY <1>2, LexicalScores, RrfScores DEF Ranks
<1>11. IsKey(key)
  BY <1>6, <1>7, <1>10 DEF IsKey
<1>12. hybrid_ranks(found, found, lexical, dense, r) = top(key, r.top_k)
  <2> DEFINE pool == top(key, K)
             T == {c \in DOMAIN pool : pool[c] <= r.top_k}
  <2>1. \A c \in DOMAIN key : place(key, c) \in Int
    BY <1>11, PlaceFacts
  <2>2. DOMAIN pool = {c \in DOMAIN key : place(key, c) <= K} /\ \A c \in DOMAIN pool : pool[c] = place(key, c)
    BY DEF top
  <2>3. T = {c \in DOMAIN key : place(key, c) <= r.top_k}
    BY <1>1, <2>1, <2>2
  <2>4. Restrict(pool, T) = [c \in T |-> place(key, c)]
    BY <2>2 DEF Restrict
  <2>5. top(key, r.top_k) = [c \in {c \in DOMAIN key : place(key, c) <= r.top_k} |-> place(key, c)]
    BY DEF top
  <2> HIDE DEF T
  <2>6. Restrict(pool, T) = top(key, r.top_k)
    BY <2>3, <2>4, <2>5
  <2> QED BY <1>8, <1>9, <2>6 DEF T
<1>13. DOMAIN key = E /\ \A c \in DOMAIN key : key[c][1] = exact_priority(found[c], q)
  BY <1>7
<1> QED BY <1>11, <1>12, <1>13 DEF RanksExact

\* What such a ranking lists: E alone, the best of it first, and as much as was asked for.
ListsExact(ranked, found, E, q, k) ==
  LET chunks == {ranked[i].chunk : i \in DOMAIN ranked}
  IN /\ chunks \subseteq E
     /\ Cardinality(chunks) = Smaller(k, Cardinality(E))
     /\ \A c \in chunks, d \in E \ chunks : exact_priority(found[c], q) >= exact_priority(found[d], q)
     /\ \A i \in DOMAIN ranked, d \in chunks :
          exact_priority(found[d], q) > exact_priority(found[ranked[i].chunk], q)
            => \E j \in 1..(i - 1) : ranked[j].chunk = d

LEMMA ExactIsListed ==
  ASSUME NEW found, NEW E, NEW q, NEW k \in Nat, NEW ranks, RanksExact(ranks, found, E, q, k),
         NEW result, \A c \in DOMAIN ranks : result[c].chunk = c,
         NEW ranked, ranked = Results(ranks, result)
  PROVE  ListsExact(ranked, found, E, q, k)
<1> DEFINE chunks == {ranked[i].chunk : i \in DOMAIN ranked}
<1> DEFINE Priority(c) == exact_priority(found[c], q)
<1>1. PICK key : /\ IsKey(key) /\ DOMAIN key = E /\ ranks = top(key, k)
                 /\ \A c \in DOMAIN key : key[c][1] = Priority(c)
  BY DEF RanksExact
<1>2. /\ IsRanking(ranks) /\ DOMAIN ranks \subseteq E
      /\ Cardinality(DOMAIN ranks) = Smaller(k, Cardinality(E))
  BY <1>1, TopIsRanking
<1>3. /\ DOMAIN ranks = {c \in E : place(key, c) <= k} /\ \A c \in DOMAIN ranks : ranks[c] = place(key, c)
  BY <1>1 DEF top
<1>4. \A c \in E : place(key, c) \in Int /\ key[c][1] = Priority(c) /\ Priority(c) \in Int
  BY <1>1, PlaceFacts, LexicalScores
<1>5. ASSUME NEW c \in E, NEW d \in E, Priority(c) > Priority(d) PROVE place(key, c) < place(key, d)
  <2>1. ahead(key, c, d)
    BY <1>4, <1>5 DEF ahead
  <2> QED BY <1>1, <2>1, PlaceFacts
<1> HIDE DEF Priority
<1>6. /\ Cardinality(DOMAIN ranks) \in Nat /\ DOMAIN ranked = 1..Cardinality(DOMAIN ranks)
      /\ \A i \in DOMAIN ranked : \E c \in DOMAIN ranks : ranks[c] = i /\ ranked[i] = result[c]
  BY <1>2, ResultsFacts
<1>7. \A i \in DOMAIN ranked : /\ ranked[i].chunk \in DOMAIN ranks /\ ranks[ranked[i].chunk] = i
                               /\ i \in Int
  BY <1>6
<1>8. \A c \in DOMAIN ranks : ranks[c] \in DOMAIN ranked /\ ranked[ranks[c]].chunk = c
  <2> TAKE c \in DOMAIN ranks
  <2>1. ranks[c] \in DOMAIN ranked
    BY <1>2, <1>6 DEF IsRanking, Numbers
  <2>2. PICK d \in DOMAIN ranks : ranks[d] = ranks[c] /\ ranked[ranks[c]] = result[d]
    BY <1>6, <2>1
  <2>3. d = c
    BY <1>2, <2>2 DEF IsRanking, Numbers, Injection, IsInjective
  <2> QED BY <2>1, <2>2, <2>3
<1>9. chunks = DOMAIN ranks
  <2>1. \A i \in DOMAIN ranked : ranked[i].chunk \in DOMAIN ranks
    BY <1>7
  <2>2. \A c \in DOMAIN ranks : \E i \in DOMAIN ranked : c = ranked[i].chunk
    BY <1>8
  <2> HIDE DEF Priority
  <2> QED BY <2>1, <2>2
<1>10. ASSUME NEW c \in chunks, NEW d \in E \ chunks PROVE Priority(c) >= Priority(d)
  <2>1. c \in E /\ d \in E /\ place(key, c) <= k /\ ~(place(key, d) <= k)
    BY <1>3, <1>9, <1>10
  <2>2. ~(place(key, d) < place(key, c))
    BY <1>4, <2>1
  <2> QED BY <1>4, <1>5, <2>1, <2>2
<1>11. ASSUME NEW i \in DOMAIN ranked, NEW d \in chunks, Priority(d) > Priority(ranked[i].chunk)
       PROVE  \E j \in 1..(i - 1) : ranked[j].chunk = d
  <2>1. d \in DOMAIN ranks /\ ranked[i].chunk \in DOMAIN ranks /\ ranks[ranked[i].chunk] = i
    BY <1>7, <1>9
  <2>2. ranks[d] < i
    BY <1>2, <1>3, <1>5, <1>11, <2>1
  <2>3. ranks[d] \in 1..(i - 1) /\ ranked[ranks[d]].chunk = d
    BY <1>6, <1>7, <1>8, <2>1, <2>2
  <2> QED BY <2>3
<1> QED BY <1>2, <1>9, <1>10, <1>11 DEF Priority, ListsExact

\* A hybrid response for an identifier lists the best B of its exact evidence, as exact.
FromExact(ranked, found, B, q, k) ==
  \E ranks, result :
    /\ RanksExact(ranks, found, B, q, k) /\ ranked = Results(ranks, result)
    /\ \A c \in DOMAIN ranks : result[c].chunk = c /\ result[c].exact

LEMMA HybridIsExact ==
  ASSUME NEW held \in Corpora, NEW r, IsRequest(r), r.method = "hybrid", r.query \in NamesIdentifier,
         NEW found, found = candidates(held, r), exactly(found, r.query) # {},
         NEW ranked \in responses(held, r),
         NEW B, B = DOMAIN lexical_ranks(found, r.query, lexical_limit(r)) \cap exactly(found, r.query)
  PROVE  /\ FromExact(ranked, found, B, r.query, r.top_k)
         /\ IsFiniteSet(exactly(found, r.query)) /\ B # {}
         /\ Cardinality(B) = Smaller(lexical_limit(r), Cardinality(exactly(found, r.query)))
         /\ \A c \in B, d \in exactly(found, r.query) \ B :
              exact_priority(found[c], r.query) >= exact_priority(found[d], r.query)
<1> DEFINE q == r.query
           lexical == lexical_ranks(found, q, lexical_limit(r))
           asked == dense_request(r)
           E == exactly(found, q)
<1>1. IsFound(found)
  BY CandidatesFound
<1>2. PICK dense \in dense_rankings(found, asked, asked.top_k) :
        ranked = hybrid_results(found, found, lexical, dense, r)
  BY DEF responses
<1>3. asked.query \in Queries /\ asked.top_k \in Nat
  BY RetrievalAssumption DEF dense_request, IsRequest, Larger
<1>4. /\ r.top_k \in Nat /\ lexical_limit(r) \in Nat \ {0}
  BY RetrievalAssumption DEF IsRequest, lexical_limit, Larger
<1> DEFINE ranks == hybrid_ranks(found, found, lexical, dense, r)
           result == [c \in DOMAIN ranks |->
             [chunk |-> c,
              source |-> IF c \in DOMAIN lexical THEN found[c] ELSE found[c],
              score |-> IF q \in NamesIdentifier
                          THEN rrf_score(lexical, dense, c)
                          ELSE rerank_score(found, found, lexical, dense, q, c),
              exact |-> fused_priority(found, lexical, q, c) > 0]]
<1>5. ranked = Results(ranks, result)
  BY <1>2 DEF hybrid_results
<1>6. \A c \in DOMAIN ranks : result[c].chunk = c /\ (result[c].exact <=> fused_priority(found, lexical, q, c) > 0)
  OBVIOUS
<1> HIDE DEF asked, result
<1>7. Ranks(dense, found)
  BY <1>1, <1>3, DenseRankingFacts
<1>8. /\ IsFiniteSet(E) /\ Cardinality(B) = Smaller(lexical_limit(r), Cardinality(E))
      /\ \A c \in B, d \in E \ B : exact_priority(found[c], q) >= exact_priority(found[d], q)
  BY <1>1, <1>4, ExactIsFound
<1>9. B # {}
  <2>1. Cardinality(E) \in Nat \ {0}
    BY <1>8, FS_CardinalityType, FS_EmptySet
  <2> HIDE DEF E
  <2>2. Cardinality(B) # 0
    BY <1>4, <1>8, <2>1 DEF Smaller
  <2> QED BY <2>2, FS_EmptySet
<1>10. RanksExact(ranks, found, B, q, r.top_k)
  BY <1>1, <1>7, <1>9, ExactIsRanked
<1>11. \A c \in DOMAIN ranks : c \in B
  <2> HIDE DEF ranks
  <2> QED BY <1>10 DEF RanksExact, top
<1>12. \A c \in B : fused_priority(found, lexical, q, c) > 0
  BY DEF fused_priority, exactly
<1> HIDE DEF ranks, lexical, E, q
<1>13. FromExact(ranked, found, B, q, r.top_k)
  BY <1>5, <1>6, <1>10, <1>11, <1>12 DEF FromExact
<1> QED BY <1>8, <1>9, <1>13 DEF E, q

\* So it is with every hybrid response for an identifier.
LEMMA ExactWhenInOrder ==
  ASSUME ServiceInv
  PROVE  ExactEvidenceAlone
<1> SUFFICES ASSUME stage = "done", req.method = "hybrid", req.query \in NamesIdentifier, exact_evidence # {}
             PROVE  LET chunks == {results[i].chunk : i \in DOMAIN results}
                    IN /\ chunks \subseteq exact_evidence
                       /\ Cardinality(chunks) = Smaller(req.top_k, Cardinality(exact_evidence))
                       /\ \A c \in chunks, d \in exact_evidence \ chunks :
                            exact_priority(library[c], req.query) >= exact_priority(library[d], req.query)
                       /\ \A i \in DOMAIN results, d \in chunks :
                            exact_priority(library[d], req.query) > exact_priority(library[results[i].chunk], req.query)
                              => \E j \in 1..(i - 1) : results[j].chunk = d
  BY DEF ExactEvidenceAlone
<1> DEFINE found == candidates(library, req)
           q == req.query
           E == exactly(found, q)
           B == DOMAIN lexical_ranks(found, q, lexical_limit(req)) \cap E
           chunks == {results[i].chunk : i \in DOMAIN results}
<1>1. library \in Corpora /\ IsRequest(req) /\ results \in responses(library, req)
  BY DEF ServiceInv
<1>2. /\ IsFound(found) /\ DOMAIN found \subseteq DOMAIN library
      /\ \A c \in DOMAIN found : found[c] = library[c]
  BY <1>1, CandidatesFound
<1>3. exact_evidence = E
  BY <1>2 DEF exact_evidence, exactly
<1>4. /\ req.top_k \in Nat /\ lexical_limit(req) \in Nat \ {0} /\ req.top_k <= lexical_limit(req)
  BY <1>1, RetrievalAssumption DEF IsRequest, lexical_limit, Larger
<1>5. /\ FromExact(results, found, B, q, req.top_k)
      /\ IsFiniteSet(E) /\ B # {} /\ Cardinality(B) = Smaller(lexical_limit(req), Cardinality(E))
      /\ \A c \in B, d \in E \ B : exact_priority(found[c], q) >= exact_priority(found[d], q)
  BY <1>1, <1>3, HybridIsExact
<1>6. Cardinality(E) \in Nat
  BY <1>5, FS_CardinalityType
<1>7. /\ B \subseteq E /\ \A c \in E : found[c] = library[c]
      /\ \A i \in DOMAIN results : results[i].chunk \in chunks
  BY <1>2 DEF exactly
<1> HIDE DEF found, q, E, B
<1>8. /\ chunks \subseteq B
      /\ Cardinality(chunks) = Smaller(req.top_k, Cardinality(B))
      /\ \A c \in chunks, d \in B \ chunks : exact_priority(found[c], q) >= exact_priority(found[d], q)
      /\ \A i \in DOMAIN results, d \in chunks :
           exact_priority(found[d], q) > exact_priority(found[results[i].chunk], q)
             => \E j \in 1..(i - 1) : results[j].chunk = d
  <2>1. ListsExact(results, found, B, q, req.top_k)
    BY <1>4, <1>5, ExactIsListed DEF FromExact
  <2> QED BY <2>1 DEF ListsExact
<1> HIDE DEF chunks
<1>9. Cardinality(chunks) = Smaller(req.top_k, Cardinality(E))
  BY <1>4, <1>5, <1>6, <1>8 DEF Smaller
<1>10. \A c \in chunks, d \in E \ chunks : exact_priority(library[c], q) >= exact_priority(library[d], q)
  BY <1>5, <1>7, <1>8
<1>11. \A i \in DOMAIN results, d \in chunks :
         exact_priority(library[d], q) > exact_priority(library[results[i].chunk], q)
           => \E j \in 1..(i - 1) : results[j].chunk = d
  BY <1>7, <1>8
<1> QED BY <1>3, <1>7, <1>8, <1>9, <1>10, <1>11 DEF E, chunks, q

\* The response for an identifier is its exact evidence alone, the best of it first and as
\* much as was asked for, in every corpus, however many chunks match (hybrid.py:54-140).
THEOREM ExactStandsAlone == Spec => []ExactEvidenceAlone
BY ServiceInvariant, ExactWhenInOrder, PTL

-----------------------------------------------------------------------------
(* What the agent makes of exact evidence.                                 *)

LEMMA FirstListed ==
  ASSUME NEW ranks, IsRanking(ranks), DOMAIN ranks # {}, NEW result, NEW ranked, ranked = Results(ranks, result)
  PROVE  1 \in DOMAIN ranked /\ \E c \in DOMAIN ranks : ranks[c] = 1 /\ ranked[1] = result[c]
<1>1. /\ Cardinality(DOMAIN ranks) \in Nat /\ DOMAIN ranked = 1..Cardinality(DOMAIN ranks)
      /\ \A i \in DOMAIN ranked : \E c \in DOMAIN ranks : ranks[c] = i /\ ranked[i] = result[c]
  BY ResultsFacts
<1>2. Cardinality(DOMAIN ranks) # 0
  BY FS_EmptySet DEF IsRanking
<1>3. 1 \in DOMAIN ranked
  BY <1>1, <1>2
<1> QED BY <1>1, <1>3

\* Exact evidence comes first in the lexical part, too: it earns more than what only
\* contains the query.
LEMMA LexicalLeads ==
  ASSUME NEW found, IsFound(found), NEW q, NEW k \in Nat \ {0}, exactly(found, q) # {},
         NEW ranks, ranks = lexical_ranks(found, q, k)
  PROVE  /\ IsRanking(ranks) /\ DOMAIN ranks # {}
         /\ \A c \in DOMAIN ranks : ranks[c] = 1 => c \in exactly(found, q)
<1> DEFINE B == DOMAIN ranks \cap exactly(found, q)
           E == exactly(found, q)
<1>1. /\ IsFiniteSet(E) /\ Cardinality(B) = Smaller(k, Cardinality(E))
  BY ExactIsFound
<1>2. B # {}
  <2>1. Cardinality(E) \in Nat \ {0}
    BY <1>1, FS_CardinalityType, FS_EmptySet
  <2> HIDE DEF E
  <2>2. Cardinality(B) # 0
    BY <1>1, <2>1 DEF Smaller
  <2> QED BY <2>2, FS_EmptySet
<1>3. IsRanking(ranks)
  BY LexicalRanksFacts DEF Ranks
<1>4. ASSUME NEW c \in DOMAIN ranks, ranks[c] = 1, c \notin E PROVE FALSE
  <2> DEFINE S == matched(found, q)
             key == [d \in S |-> <<lexical_score(found[d], q), 0>>]
  <2>1. ranks = top(key, k)
    BY DEF lexical_ranks, matched
  <2>2. IsFiniteSet(S) /\ S \subseteq Int
    BY FS_Subset DEF IsFound, matched
  <2>3. /\ DOMAIN key = S /\ \A d \in S : key[d] = <<lexical_score(found[d], q), 0>>
        /\ \A d \in S : key[d] \in Int \X Int
    BY LexicalScores
  <2>4. c \in DOMAIN found /\ \A d \in DOMAIN ranks : d \in S
    BY DEF lexical_ranks, matched, top
  <2> HIDE DEF key, S
  <2>5. IsKey(key)
    BY <2>2, <2>3 DEF IsKey
  <2>6. PICK d \in DOMAIN ranks : d \in E
    BY <1>2
  <2>7. /\ exact_priority(found[c], q) \in Nat /\ exact_priority(found[d], q) \in Nat
        /\ lexical_score(found[c], q) \in Nat /\ lexical_score(found[d], q) \in Nat
    BY LexicalScores
  <2>8. ~(exact_priority(found[c], q) > 0) /\ exact_priority(found[d], q) > 0
    BY <1>4, <2>4, <2>6 DEF exactly
  <2>9. lexical_score(found[d], q) > lexical_score(found[c], q)
    BY <2>7, <2>8, PriorityOrders
  <2>10. ahead(key, d, c)
    BY <2>3, <2>4, <2>9 DEF ahead
  <2>11. /\ place(key, d) < place(key, c) /\ place(key, d) \in 1..Cardinality(DOMAIN key)
    BY <2>3, <2>4, <2>5, <2>10, PlaceFacts
  <2>12. place(key, c) = 1
    BY <1>4, <2>1 DEF top
  <2> QED BY <2>11, <2>12
<1> QED BY <1>2, <1>3, <1>4

\* So a response of either method leads with exact evidence, if there is any.
LEMMA ExactLeads ==
  ASSUME NEW held \in Corpora, NEW r, IsRequest(r), r.top_k # 0, r.method \in {"lexical", "hybrid"},
         r.query \in NamesIdentifier,
         NEW found, found = candidates(held, r), exactly(found, r.query) # {},
         NEW ranked \in responses(held, r)
  PROVE  1 \in DOMAIN ranked /\ ranked[1].exact /\ ranked[1].chunk \in exactly(found, r.query)
<1> DEFINE q == r.query
           E == exactly(found, q)
<1>1. IsFound(found) /\ r.top_k \in Nat \ {0}
  BY CandidatesFound DEF IsRequest
<1>2. CASE r.method = "lexical"
  <2> DEFINE ranks == lexical_ranks(found, q, r.top_k)
             result == [c \in DOMAIN ranks |->
               [chunk |-> c, source |-> found[c], score |-> lexical_score(found[c], q),
                exact |-> exact_priority(found[c], q) > 0]]
  <2>1. ranked = Results(ranks, result)
    BY <1>2 DEF responses, lexical_results
  <2>2. \A c \in DOMAIN ranks : result[c].chunk = c /\ (result[c].exact <=> exact_priority(found[c], q) > 0)
    OBVIOUS
  <2> HIDE DEF result
  <2>3. /\ IsRanking(ranks) /\ DOMAIN ranks # {}
        /\ \A c \in DOMAIN ranks : ranks[c] = 1 => c \in E
    BY <1>1, LexicalLeads
  <2> HIDE DEF ranks, E
  <2>4. PICK c \in DOMAIN ranks : ranks[c] = 1 /\ ranked[1] = result[c] /\ 1 \in DOMAIN ranked
    BY <2>1, <2>3, FirstListed
  <2>5. c \in E
    BY <2>3, <2>4
  <2> QED BY <2>2, <2>4, <2>5 DEF E, exactly
<1>3. CASE r.method = "hybrid"
  <2> DEFINE B == DOMAIN lexical_ranks(found, q, lexical_limit(r)) \cap E
  <2>1. /\ FromExact(ranked, found, B, q, r.top_k)
        /\ IsFiniteSet(E) /\ B # {} /\ B \subseteq E
    BY <1>3, HybridIsExact
  <2> HIDE DEF B, E, q
  <2>2. PICK ranks, result :
          /\ RanksExact(ranks, found, B, q, r.top_k) /\ ranked = Results(ranks, result)
          /\ \A c \in DOMAIN ranks : result[c].chunk = c /\ result[c].exact
    BY <2>1 DEF FromExact
  <2>3. /\ IsRanking(ranks) /\ DOMAIN ranks \subseteq B
        /\ Cardinality(DOMAIN ranks) = Smaller(r.top_k, Cardinality(B))
    BY <1>1, <2>2, TopIsRanking DEF RanksExact
  <2>4. Cardinality(B) \in Nat \ {0}
    BY <2>1, FS_Subset, FS_CardinalityType, FS_EmptySet
  <2>5. DOMAIN ranks # {}
    BY <1>1, <2>3, <2>4, FS_EmptySet DEF Smaller
  <2>6. PICK c \in DOMAIN ranks : ranked[1] = result[c] /\ 1 \in DOMAIN ranked
    BY <2>2, <2>3, <2>5, FirstListed
  <2> QED BY <2>1, <2>2, <2>3, <2>6 DEF E, q
<1> QED BY <1>2, <1>3

\* The first attempt at a question that is not split is the initial call.
FirstCall ==
  Agent!strategy # "decomposition" =>
    /\ (phase = "grade" /\ attempts = <<>>) => retrieved.call = Agent!initial_call
    /\ attempts # <<>> => attempts[1].call = Agent!initial_call

THEOREM FirstCallIsInitial == SystemSpec => []FirstCall
<1>1. SystemInit => FirstCall
  BY DEF SystemInit, Agent!Init, FirstCall
<1>2. ASSUME SystemInv, FirstCall, [SystemNext]_<<service, agent>> PROVE FirstCall'
  <2>1. PICK S : attempts \in Seq(S)
    BY <1>2 DEF SystemInv, AgentInv
  <2>2. ASSUME question' = question
        PROVE  Agent!strategy' = Agent!strategy /\ Agent!initial_call' = Agent!initial_call
    BY <2>2 DEF Agent!strategy, Agent!initial_call, Agent!queries, Agent!CallFor, Agent!effective_as_of_date
  <2>3. ASSUME question' = question, attempts' = attempts, phase' # "grade" PROVE FirstCall'
    BY <1>2, <2>2, <2>3 DEF FirstCall
  <2>4. ASSUME UNCHANGED agent PROVE FirstCall'
    BY <1>2, <2>2, <2>4 DEF FirstCall, agent
  <2>5. CASE Understands
    BY <2>3, <2>5 DEF Understands, Agent!Understand
  <2>6. CASE Asks \/ Serves \/ Rests
    BY <2>4, <2>6 DEF Asks, Serves, Rests, Agent!Rest, Agent!vars, agent
  <2>7. CASE Receives
    <3>1. /\ question' = question /\ attempts' = attempts
          /\ retrieved'.call = agent_call
      BY <2>7 DEF Receives
    <3>2. (Agent!strategy # "decomposition" /\ attempts = <<>>) => agent_call = Agent!initial_call
      BY DEF agent_call
    <3> HIDE DEF agent_call
    <3> QED BY <1>2, <2>2, <3>1, <3>2 DEF FirstCall
  <2>8. CASE Grades
    <3>1. /\ question' = question /\ attempts' = Append(attempts, Agent!Graded)
          /\ phase = "grade" /\ phase' # "grade" /\ Agent!Graded.call = retrieved.call
      BY <2>8 DEF Grades, Agent!Grade, Agent!Graded
    <3>2. attempts' # <<>> /\ attempts'[1].call = IF attempts = <<>> THEN retrieved.call ELSE attempts[1].call
      <4> HIDE DEF Agent!Graded
      <4> QED BY <2>1, <3>1, AppendFacts
    <3> QED BY <1>2, <2>2, <3>1, <3>2 DEF FirstCall
  <2>9. CASE Retries
    BY <2>3, <2>9 DEF Retries, Agent!Retry
  <2>10. CASE Answers \/ Refuses
    BY <2>3, <2>10 DEF Answers, Refuses, Agent!AnswerParts, Agent!AnswerBest, Agent!RefuseParts,
       Agent!RefuseBest, Agent!Finalize
  <2>11. CASE UNCHANGED <<service, agent>>
    BY <2>4, <2>11
  <2> QED BY <1>2, <2>5, <2>6, <2>7, <2>8, <2>9, <2>10, <2>11 DEF SystemNext
<1> QED BY <1>1, <1>2, SystemInvariant, PTL DEF SystemSpec

\* Exact evidence in front is relevant, unless the question asks for a later year.
LEMMA ExactIsRelevant ==
  ASSUME NEW r, 1 \in DOMAIN r.results, r.results[1].exact, YearIn[r.query] = 0
  PROVE  /\ Agent!grade_evidence(r).grade = "relevant"
         /\ \A s \in Agent!cited(r) : s = r.results[1].source
<1>1. r.results # <<>>
  OBVIOUS
<1>2. ~Agent!outdated(r) /\ ~Agent!only_case_law(r)
  BY DEF Agent!outdated, Agent!outside_validity, Agent!older_than_asked, Agent!only_case_law
<1>3. Agent!grade_evidence(r).grade = "relevant"
  BY <1>1, <1>2 DEF Agent!grade_evidence
<1>4. \A s \in Agent!cited(r) : s = r.results[1].source
  BY <1>1 DEF Agent!cited
<1> QED BY <1>3, <1>4

\* A question for an article or a ruling is answered from the exact evidence that the role
\* may see, in every corpus, however much else is similar, denied or expired
\* (hybrid.py:135-138, evidence.py:98-165).
THEOREM ExactIsAnswered == SystemSpec => []ExactEvidenceIsAnswered
<1>1. ASSUME SystemInv, FirstCall, Agent!AnswersRestOnEvidence, Agent!BestAttemptDecides
      PROVE  ExactEvidenceIsAnswered
  <2> DEFINE asked == Agent!initial_call
             q == question.query
             found == candidates(library, service_call(question, q, "hybrid", AskedDate(question)))
             x == attempts[1]
             r == served_request(question, asked)
  <2> SUFFICES ASSUME phase \in {"answered", "refused"}, exactly(found, q) # {},
                      Agent!strategy # "decomposition", asked.query = q, asked.method # "dense",
                      q \in NamesIdentifier, YearIn[q] = 0
               PROVE  phase = "answered" /\ final.sources \subseteq exactly(found, q)
    BY DEF ExactEvidenceIsAnswered, exactly
  <2>1. PICK S : attempts \in Seq(S)
    BY <1>1 DEF SystemInv, AgentInv
  <2>2. attempts # <<>> /\ 1 \in DOMAIN attempts
    BY <1>1, <2>1 DEF Agent!BestAttemptDecides, Agent!Parts
  <2>3. /\ library \in Corpora /\ question \in Questions /\ Served(library, question, x)
        /\ x.evidence = Agent!grade_evidence(x.response) /\ x.call = asked
    BY <1>1, <2>2 DEF SystemInv, ServiceInv, AgentInv, FirstCall
  <2> HIDE DEF asked
  <2>4. ForQuestion(question, asked) /\ asked.method \in {"lexical", "hybrid"}
    BY <2>3 DEF Served, ForQuestion, Methods
  <2>5. /\ IsCall(service_call(question, asked.query, asked.method, asked.as_of))
        /\ IsRequest(r) /\ r.query = q /\ r.method = asked.method
        /\ r.role = question.role /\ r.types = question.scope.types
        /\ r.jurisdiction = question.scope.jurisdiction /\ r.as_of = AskedDate(question)
    BY <2>3, <2>4, ServiceCallFacts
  <2>6. r.top_k # 0
    BY <2>5, RequestFacts, RetrievalAssumption DEF served_request
  <2>7. found = candidates(library, r)
    BY <2>5 DEF service_call, candidates, filter_authorized_chunks, scope_chunks_for_request, request_allows_chunk
  <2>8. PICK ranked \in responses(library, r) : x.response = Agent!Response(asked, profile(library, r, ranked))
    BY <2>3 DEF Served
  <2> HIDE DEF found, r, x
  <2>9. 1 \in DOMAIN ranked /\ ranked[1].exact /\ ranked[1].chunk \in exactly(found, q)
    BY <2>3, <2>4, <2>5, <2>6, <2>7, <2>8, ExactLeads
  <2>10. /\ 1 \in DOMAIN x.response.results /\ x.response.results[1].exact
         /\ x.response.results[1].source = ranked[1].chunk /\ x.response.query = q
    BY <2>8, <2>9 DEF Agent!Response, profile
  <2>11. /\ x.evidence.grade = "relevant"
         /\ \A s \in Agent!cited(x.response) : s = ranked[1].chunk
    BY <2>3, <2>10, ExactIsRelevant
  <2>12. ~Agent!weak(1)
    BY <2>11 DEF Agent!weak, Agent!is_relevant, x
  <2>13. DOMAIN attempts = {1}
    <3>1. Len(attempts) \in Nat /\ DOMAIN attempts = 1..Len(attempts)
      BY <2>1
    <3>2. ~(Len(attempts) > 1)
      BY <1>1, <2>12 DEF Agent!BestAttemptDecides
    <3> QED BY <2>2, <3>1, <3>2
  <2>14. phase = "answered"
    BY <1>1, <2>12, <2>13 DEF Agent!AnswersRestOnEvidence, Agent!Parts
  <2>15. \A s \in final.sources : s \in Agent!cited(x.response)
    BY <1>1, <2>13, <2>14 DEF Agent!AnswersRestOnEvidence, Agent!Parts, x
  <2> QED BY <2>9, <2>11, <2>14, <2>15
<1> QED BY <1>1, SystemInvariant, FirstCallIsInitial, AgentIsSound, PTL
=============================================================================
