-------------------------- MODULE MCAgentOverCorpus --------------------------
(* The instance of AgentOverCorpus that TLC checks: the law library, and the *)
(* questions that the agent transforms beside those it asks as they are.     *)
EXTENDS AgentOverCorpus, MCRetrieval

\* "art 1 lid 1 on day 1", which is retried without the day; a question of two parts; a
\* question about the duration of a ruling, which is rewritten to a citation.
Transformed == {"dated", "two parts", "duration"}
MCAgentQueries == MCQueries \cup Transformed

\* What the retrievers find in them is what they find in a query of the library.
Like(q) == CASE q = "dated" -> "art 1 lid 1" [] q \in {"two parts", "duration"} -> "words" [] OTHER -> q
ByLikeness(f) == [q \in MCAgentQueries |-> f[Like(q)]]

MCAgentTerms == ByLikeness(MCTerms)
MCAgentMatch == ByLikeness(MCCitationMatch)
MCAgentSimilarity == ByLikeness(MCSimilarity)
MCAgentOverlap == ByLikeness(MCOverlap)
MCAgentBonus == ByLikeness(MCBonus)
MCAgentIdentifiers == MCNamesIdentifier \cup {"dated"}
MCAgentEmbeddable == MCEmbeddable \cup Transformed
MCAgentDateIn == [q \in MCAgentQueries |-> IF q \in {"citation", "dated"} THEN 1 ELSE 0]

MCClauses == [q \in MCAgentQueries |-> IF q = "two parts" THEN <<"art 1 lid 1", "words">> ELSE <<q>>]
MCIdentifiers == [q \in MCAgentQueries |->
  CASE q = "dated" -> <<"art 1 lid 1">> [] q = "ecli X on art 1" -> <<"ecli X", "art 1">> [] OTHER -> <<>>]
MCRewrites == [q \in MCAgentQueries |-> IF q = "duration" THEN <<"art 1">> ELSE <<>>]

MCDocOf == [c \in DOMAIN MCCatalogue |-> IF MCCatalogue[c].type = "legislation" /\ c < 4 THEN "law" ELSE MCCatalogue[c].text]
MCDecisionYear == [c \in DOMAIN MCCatalogue |-> IF MCCatalogue[c].type = "case_law" THEN 2015 ELSE 0]
MCYearIn == [q \in MCAgentQueries |-> IF q = "ecli X on art 1" THEN 2024 ELSE 0]

\* Thresholds of common/config.py, scaled by 10000.
MCRelevant == [rerank |-> 2000, rrf |-> 200, dense |-> 5500, lexical |-> 550000]
MCFloor == [rerank |-> 1300, rrf |-> 100, dense |-> 3000, lexical |-> 200000]

\* Every question by every method, with and without the filters of a request.
MCCalls ==
  Asked(MCAgentQueries, Everyone, Methods \cup {NoMethod}, {0, 2}, {{}}, {"NL"}, {0, 2}) \cup
  Asked({"art 1", "words"}, Everyone \cup {"visitor"}, {"hybrid", "dense"}, {1},
        {{}, {"legislation"}}, {"-"}, {0, 1})
=============================================================================
