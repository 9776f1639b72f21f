---------------------------- MODULE CachePolicy ----------------------------
(***************************************************************************)
(* The semantic answer cache's policy, shared by both backends: the key    *)
(* that namespaces an answer (app/cache.py), which answers may be stored   *)
(* (can_cache_response), and when a stored answer fits a query.            *)
(*                                                                         *)
(* A query is a model value; the three facts the code computes from its    *)
(* text are constants: Similar (the cosine of the two embeddings reaches   *)
(* the threshold), Exact (the text matches _EXACT_IDENTIFIER_PATTERN) and  *)
(* DateIn (infer_as_of_date).                                              *)
(***************************************************************************)
EXTENDS Integers

CONSTANTS
  Queries, Roles, Jurisdictions, Methods, SourceTypes, Dates, Corpora, Chunks,
  NoJurisdiction,  \* jurisdiction=None
  Unspecified,     \* the literal "unspecified" that stands for it in the key
  NoDate,          \* as_of_date=None
  Similar,         \* pairs <<q, p>> whose cosine similarity reaches the threshold
  Exact,           \* the queries that name an exact legal identifier
  DateIn,          \* DateIn[q]: the first ISO date in q, or NoDate
  ClassOf,         \* ClassOf[c]: the security classification of chunk c
  Readable,        \* Readable[role]: the chunks the RBAC filter lets role retrieve
  Drafts,          \* the answers an agent may come to, in the instance at hand
  Requests,        \* the requests clients send in the instance at hand
  TTL              \* semantic_cache_ttl_seconds

Request == [query: Queries, role: Roles,
            jurisdiction: Jurisdictions \cup {NoJurisdiction},
            method: Methods, source_types: SUBSET SourceTypes,
            as_of: Dates \cup {NoDate}, corpus: Corpora]

\* An answer, without the request it was produced for.  labelled: the metadata
\* carries source_security_classifications, which the combined answer of a
\* decomposed query does not.
Draft == [outcome: {"answered", "refused"},
          grade: {"relevant", "ambiguous", "irrelevant"},
          sources: SUBSET Chunks, labelled: BOOLEAN]

ASSUME PolicyAssumption ==
  /\ Requests \subseteq Request
  /\ TTL \in Nat \ {0}
  /\ Unspecified \notin {NoJurisdiction}
  /\ DateIn \in [Queries -> Dates \cup {NoDate}]
  /\ Readable \in [Roles -> SUBSET Chunks]
  /\ Drafts \subseteq Draft

-----------------------------------------------------------------------------
(* The cache key.                                                          *)

\* as_of_date or infer_as_of_date(query)
effective_as_of_date(r) == IF r.as_of # NoDate THEN r.as_of ELSE DateIn[r.query]

\* jurisdiction or "unspecified"
JurisdictionName(j) == IF j = NoJurisdiction THEN Unspecified ELSE j

\* Two plausible slips in the key, for the mutants.
KeyWithoutRole(r) ==
  [jurisdiction |-> JurisdictionName(r.jurisdiction), method |-> r.method,
   sources |-> r.source_types, as_of |-> effective_as_of_date(r)]

KeyWithGivenDate(r) ==
  [role |-> r.role, jurisdiction |-> JurisdictionName(r.jurisdiction),
   method |-> r.method, sources |-> r.source_types, as_of |-> r.as_of]

\* corpus_version and generator_version are constants of app/cache.py whatever
\* corpus the request names, so they separate nothing and are left out; the
\* retrieval version adds only configuration constants to the method.
CacheKey(r) ==
  [role |-> r.role, jurisdiction |-> JurisdictionName(r.jurisdiction),
   method |-> r.method, sources |-> r.source_types,
   as_of |-> effective_as_of_date(r)]

Keys == {CacheKey(r) : r \in Requests}

-----------------------------------------------------------------------------
(* Answers.  req is the request an answer was produced for; the code keeps *)
(* only its query and role, the rest is provenance that properties read.   *)

Response == [req: Requests, outcome: {"answered", "refused"},
             grade: {"relevant", "ambiguous", "irrelevant"},
             sources: SUBSET Chunks, labelled: BOOLEAN]

Answering(r, d) == [req |-> r, outcome |-> d.outcome, grade |-> d.grade,
                    sources |-> d.sources, labelled |-> d.labelled]

\* What CorrectiveRAGAgent.answer may return: answered exactly when the final
\* evidence is relevant, citing only chunks the role may retrieve.
AgentAnswers(r) ==
  {Answering(r, d) : d \in {d \in Drafts :
     /\ (d.outcome = "answered") <=> (d.grade = "relevant")
     /\ d.sources \subseteq Readable[r.role]
     /\ d.outcome = "answered" => d.sources # {}}}

classifications(a) == IF a.labelled THEN {ClassOf[c] : c \in a.sources} ELSE {}

\* A slip in the policy, for the mutants.
CachesAnyPublicAnswer(a) ==
  /\ a.outcome = "answered" /\ a.grade = "relevant"
  /\ a.req.query \notin Exact
  /\ "public" \in classifications(a)

can_cache_response(a) ==
  /\ a.outcome = "answered"
  /\ a.grade = "relevant"
  /\ a.req.query \notin Exact
  /\ classifications(a) = {"public"}

Entry == [response: Response, expires: Nat]

\* The clock of a request that has not read it yet.
Unread == -1

\* The entries a lookup that read the clock at time "at" keeps.
live(entries, at) == {e \in entries : e.expires > at}

\* The entries similar enough to q to answer it.  The code returns the first
\* in insertion order; the model leaves open which.
matches(entries, q) == {e \in entries : <<q, e.response.req.query>> \in Similar}

NewEntry(a, at) == [response |-> a, expires |-> at + TTL]
=============================================================================
