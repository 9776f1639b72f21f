------------------------ MODULE MCPersistentIndex ------------------------
(* The instances of PersistentIndex that TLC checks.                       *)
EXTENDS PersistentIndex, MCRetrieval, TLC

\* An ingestion that rewords a paragraph and adds a case.
FirstCorpus == Restrict(MCCatalogue, {1, 2, 3})
NextCorpus ==
  [c \in {1, 3, 5} |-> IF c = 3 THEN [MCCatalogue[3] EXCEPT !.text = "policy on 1"]
                                ELSE MCCatalogue[c]]
MCCorpora == <<FirstCorpus, NextCorpus>>

Request(query, role, method, as_of) ==
  [query |-> query, role |-> role, method |-> method, top_k |-> 2, types |-> {},
   jurisdiction |-> "NL", as_of |-> as_of]

IndexRequests == {
  Request("words", "helpdesk", "dense", 2),
  Request("words", "inspector", "dense", 1),
  Request("art 1", "helpdesk", "hybrid", 0),
  Request("words", "inspector", "hybrid", 0),
  Request("stopwords", "inspector", "dense", 0)}

\* The threads differ in nothing but their requests.
ThreadSymmetry == Permutations(Threads)

DatedRequests == {Request("words", "helpdesk", "hybrid", 2)}
=============================================================================
