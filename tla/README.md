# A TLA+ development of law-rag

This directory models the permission-aware legal RAG system of this repository in
TLA+: its semantic answer cache and the threads that share it, the corrective
agent, retrieval and its access control, the persistent dense index, the
chunking of laws, rulings and policies, the scripts that make the corpus, and the
promotion gate. TLC checks the models on small instances; TLAPS proves the
invariants of all of them, and the refinements, for every instance.

    tlc -workers 2 -config InMemoryThreads.cfg MCInMemoryCachedAgent.tla
    tlapm --threads 4 InMemoryCachedAgentProofs.tla

PROJECT.json lists the components, the runs, a mutant for each property (a
plausible slip in the code under which TLC finds the property violated), the lines
of source behind every definition, the divergences from the docs, the hazards of the
code and the theorems.

## Inventory

Paths are relative to `src/tax_rag/` of the repository unless they start with `scripts/`.

| Component | State | Operations | Hard behaviour | Correct when | Module |
|---|---|---|---|---|---|
| Cached agent (`app/cache.py`) and HTTP API (`api/main.py`) | none of its own, one cache per process | look up, answer, store, on a thread pool | threads share the cache without a lock | an answer is reused only where role, scope, date and method agree | InMemoryCachedAgent, RedisCachedAgent |
| In-memory cache (`cache/semantic_cache.py`) | dictionary of lists of entries | get (filters and replaces the list), set (appends) | a get replaces a list that a set appends to; expiry | stored answers are public, relevant, fresh; reuse in one namespace | InMemoryCachedAgent, CachePolicy |
| Redis cache (same file) | a string with a deadline per key | get, set, prune, clear_namespace | read-modify-write of several clients; failing commands; two kinds of expiry | the same, and undisturbed stores and clears last | RedisCachedAgent, CachePolicy |
| Corrective agent (`agent/control.py`, `baseline.py`) | the run of one question | plan, retrieve, grade, retry, answer or refuse | parts that fail, retry with another query, choice between attempts | answers rest on relevant evidence of one scope; one retry; an honest reason | CorrectiveAgent, AgentOverCorpus |
| Query transformation (`agent/transform.py`) | none | choose a strategy | parts that are empty | every part is asked in the same scope | CorrectiveAgent (constants) |
| Evidence grading (`agent/evidence.py`) | none | grade a response | rules in an order, thresholds of three scores | stronger evidence is not graded worse; no objection is lost on the way to an answer | EvidenceGrading |
| Access control (`security/`) | none | filter chunks by role | denied chunks may influence others | the response is that of a corpus without them | Retrieval |
| Lexical, dense, hybrid retrieval, reranking (`retrieval/`) | none | scope, rank, fuse, rerank, cut | limits at several stages, ties, exact evidence | exact evidence alone; no sibling for the paragraph asked for; what the agent relies on | Retrieval, AgentOverCorpus |
| Retrieval service (`retrieval/service.py`) | the loaded corpus | retrieve | defaults, date of the query | as above | RetrievalService, AgentOverCorpus |
| Persistent index (`indexing/qdrant_local.py`, `scripts/build_dense_index.py`) | a folder with one collection | ensure, rebuild, query | a folder has one client; kills; a stale collection | a collection is one upload, a rebuild stands | PersistentIndex |
| Parsing (`ingestion/`) and chunking (`chunking/`) | none (the raw file is read twice) | parse, chunk | replaced raw file, repeated numbers, nested lists | a chunk holds the text it cites, and no text is lost | Chunking |
| Corpus download (`scripts/download_legal_demo_data.py`) | raw files, manifest, lock | verify or write the lock | failing fetches, timeouts, kills, changing sources | a verified run leaves the locked files; the manifest tells what is on disk | CorpusBuild |
| Corpus scripts (`scripts/parse_raw_data.py`, `build_chunks.py`, `chunking/pipeline.py`) | parsed and chunked files | rewrite the files | scripts out of order, kills between files | the served corpus is that of one build | CorpusBuild |
| Evaluation and promotion gate (`eval/runner.py`, `scripts/run_eval.py`) | reports, traces, decisions | answer the gold cases, save the report, compare it with a baseline, save the decision | empty categories, tolerances, kills between the files | exit code, decision and reports agree; a better report is not rejected; no leak is promoted | PromotionGate |
| Texts: tokens, embeddings, citation labels (`retrieval/semantic.py`, `common/dense.py`, `retrieval/citations.py`) | none | pure functions of strings | none | | not modelled, see below |
| Latency benchmark, trace records, configuration, schemas, command line (`eval/latency.py`, `common/`, `schemas/`, `app/cli.py`, demo scripts) | none | timing, formatting, validation | none | | not modelled, see below |

The components interact by calls within one process: API → cached agent → cache,
and on a miss → corrective agent → retrieval service → access control, rankings,
persistent index. What is shared is the cache between threads (and the Redis
server between processes), and the index folder between threads, processes and the
build script. The scripts hand the corpus on through files.

## Plan

1. **CachePolicy, AnswerCache, InMemoryCachedAgent, RedisCachedAgent** (done): the
   place where threads and processes meet, and where a slip shows one role the
   answer of another.
2. **EvidenceGrading, CorrectiveAgent** (done): the control flow.
3. **Retrieval, RetrievalService, PersistentIndex** (done).
4. **Chunking** (done): the pure algorithms of ingestion.
5. **CorpusBuild** (done): the scripts from download to chunk files over one set of files, with
   kills, replaced raw files and changing sources.
6. **PromotionGate** (done): the evaluation script, its files and its gate.
7. **AgentOverCorpus** (done): the composition of steps 2 and 3. The agent gets what the retrievers
   make of a corpus, and implements the agent that takes responses as given.
8. **Proofs** (done, see "What is proved"): the caches and their refinement of AnswerCache, the
   agent, the index, the service, the composition and its refinement of CorrectiveAgent, the
   chunking, the scripts, and the gate.

No module that theorems are about reaches a RECURSIVE operator.

## The modules

### CachePolicy
What both caches share: requests, entries, `CacheKey` (`CachedCorrectiveRAGAgent.answer`),
`can_cache_query`, `can_cache_response`, `live` (expiry) and `matches`. The
cosine similarity of two queries is the constant relation `Similar`; which queries name an
exact identifier, which date a text shows, and which answers the agent gives are
constants, too. What the agent answers is constrained only by its access
control: it cites chunks that the role may retrieve.

### AnswerCache
The abstract specification of a cached agent: a request is answered by the agent, or by an entry
stored under its key for a similar query that had not expired when the request
read the clock. Entries may be forgotten at any time. Both caches implement it
(`Promise == INSTANCE AnswerCache`; `phase` maps the program counter).

### InMemoryCachedAgent
Each thread runs one request after another; a step is one operation on the
shared dictionary or on one list object. Lists are identities on a `heap`, because
`get` replaces the list of its key while a `set` that already holds the old one
appends to it. `ReadClock`, `Filter`, `WriteBack`, `Hit`/`Miss` are the statements of
`get`; `Answer`/`AgentRaises` the agent; `Reject`, `SetDefault`, `Stamp` (the entry is made, with the
clock read for its expiry), `Append` those of `set`. Time and other threads may pass between any two. History variables record what was stored and which stores no lookup of
their key overlapped.

### RedisCachedAgent
The same requests by clients of a Redis server. A step is one command; a list is
read, filtered, and written back as a whole, with a deadline for the key. Any command may
raise (`RedisError`), `ClearNamespace` deletes a key, `Tick` passes time. The server
forgets a key at its deadline (`Read`).

### EvidenceGrading and CorrectiveAgent
`grade_evidence` as an operator on a response, with scores scaled to integers. The
agent is a machine over one question: `Understand` (validation and plan), `RetrievePart`,
`RetrieveInitial`, `RetrieveFocused`, `Grade`, `Retry`, and the actions that finish with
an answer or a refusal; an exception ends it in `failed`. What retrieval
returns is any response of a profile that retrieval can give (`Possible`), the same for the same call
(`Consistent`).

### Retrieval, RetrievalService, PersistentIndex
`Retrieval` has no state: access, scope, the lexical and dense rankings, fusion, reranking and the
cut, over chunks whose texts are model values; `responses(corpus, req)` is the set of responses
the code may give, a set because the order of equal similarities is not determined.
`RetrievalService` is idle until a call (`Retrieve`), takes it through the stages of `retrieve`, and is idle
again when the caller has the response (`Return`). `PersistentIndex` runs request
threads and the build script over one folder: `Open` fails when another client holds it,
`Ensure` deletes or creates, `Upload` stores one point, `Close`, then a request opens it again and
queries. `Ingest` rewrites the chunks file, `KillServer` and `KillBuilder` end a process between any
two steps; the history variable `cut` tells that one was killed while it filled the collection, until
that collection is deleted.

### AgentOverCorpus
The agent and the service in one state space. `Asks` hands the call the agent makes next
(`agent_call`) to the service, `Serves` are the stages of the service while the agent waits, and
`Receives` gives the agent the response: `profile` reads it as `grade_evidence` does, with the kind of
its primary score, the counts of its metadata, and scores in the units of the thresholds. The steps
of the agent itself are those of `CorrectiveAgent`, instantiated as `Agent`. `ImplementsAgent` says that the
composition takes the steps of the agent alone, with `retrieved` for `found`: what
`CorrectiveAgent` assumes of responses (`Possible`, `Consistent`) is thereby shown of the
retrievers, and what AgentAnswers checks carries over to the corpora of this run. Both are proved for every corpus
(`AgentOverCorpusRefines`, `AgentIsSound`).
Liveness is not part of it: that the agent comes to an end is checked in
AgentAnswers, and the service takes at most five steps for a call.

### Chunking
Parsing and chunking of one raw file, in two steps as in the two scripts, with `Replace` in
between: the law chunker opens the raw file again. A law is a sequence of articles with lids, a
lid a sequence of texts and lists; a ruling is sections with nested paragroups, told by their
paths; a policy is its lines. Every piece of text is unique, so a property can say where the
text of a chunk comes from. The labels before a text ("Lid 1.") are left out.

### CorpusBuild
The files of `data/` and one script at a time. A download handles one entry of its configuration per
step: `Save` replaces the raw file and then compares its hash, `FetchFails` is an entry that is
recorded as an error, `FetchRaises` a timeout while the answer is read, which ends the run
without a manifest; `WriteManifest` and `WriteLock` end a run. `StartParse` and `StartChunk` read all
they need, and `WriteNext` writes their three files one after another. `SourceChanges` is a publisher
that puts up something else, or fails. A script may be killed between any two steps, or
while it writes a file, which is then cut short in a way its reader rejects or takes for whole
(`KillIn...`). A raw file stands for the one document and the one chunk that are made of it.
The history variables tell when a property speaks: `checked` after a download that
compared with a lock, `build` after parsing and chunking without a download in between, and `relocked` while
no source has changed since a lock was written.

### PromotionGate
`run_eval.py`: `Evaluate` answers the gold cases and computes the metrics, `SaveSummary` and
`SaveDetails` write the report and the cases with their traces under the time of the run, `Decide`
compares with the baseline report that the arguments name and writes the decision under the
candidate's label; its exit code is that of the script. A baseline that is missing or cut short raises
(`NoSuchBaseline`), which ends the script with the same status 1 as a decision that did not pass, and
leaves the label's earlier decision, perhaps a passed one. Metrics are fractions, so the tolerances compare
exactly; `Whole` is any number that the numbers of expected items divide, so that the precision of a case is a
whole number of parts (12 for gold cases of up to 4 items and of 6, the most that a case of `data/eval/gold_questions.jsonl` asks for). Kills are as in CorpusBuild.

## What the runs show

| Run | Bounds | Result |
|---|---|---|
| InMemoryThreads | 2 threads, 3 requests begun of 4 that differ in role, text or date, TTL 2, clock to 2, 5 lists | TypeOK, ReuseWithinNamespace, ReuseIsPublicAndFresh, NoForeignSource, QuietStoreSurvives (a store that no lookup of its key overlapped is found until it expires), and AnswerCache is implemented |
| RedisClients | 2 clients, the same requests and clock, one clear, one failing command | TypeOK, ServerHoldsCacheable, QuietStoreSurvives, QuietClearIsFinal, and AnswerCache is implemented |
| AgentAnswers | every strategy and method, one response per way a grade comes about; for queries that are not transformed, responses of up to two results at the edges of the thresholds | AnswersRestOnEvidence, OneScopePerAnswer, BestAttemptDecides, HonestReason, StrongerNeverWorse, NoObjectionOverlooked (conflict, year, kind of evidence and validity are not lost by a retry or a part, but with the words of the question), and Terminates under fairness |
| AgentOverCorpus | all 64 corpora of six chunks, ten queries of which three are transformed, three methods and the default, two limits, two dates and none, three roles | DeniedHasNoInfluence and ExactEvidenceAlone of the service; CitesWithinScope, ExactEvidenceIsAnswered and NoSiblingLeads of both; CorrectiveAgent is implemented (ImplementsAgent) |
| IndexShared | 2 threads, 2 corpora, 2 builds, 1 kill | IndexIsOneUpload, RebuildStands, LoneRequestSucceeds, RebuiltAgreesWithMemory |
| ChunkingForms | laws of one or two articles with up to two lids of up to two parts, rulings of up to two sections, policies of four lines | CitationCoversText, TextAccountedFor (of laws, rulings and policies), IdNamesPlace |
| CorpusBuild | a law in two versions and a ruling in four configurations, two revisions of a source, four script runs, one kill, one change of a source | SuccessIsVerified, ManifestTellsDisk, RelockVerifies, BuildMatchesDisk |
| PromotionGate | five gold cases of four categories, candidates that get up to two of them wrong, two evaluations, two labels, one kill | ExitTellsDecision, DecisionIsReproducible, StrongerIsPromoted |

The bounds are chosen so that the interesting cases occur. Two threads on a list are the least
that interleave a get and a set, and three requests let a third request find, or miss, what the first
two left behind; the clock passes the TTL, so entries expire while a request
is under way, and a store at 1 outlives one at 0; five lists are enough for the dictionary and for
what each thread may hold. The
retrieval limits (2 lexical, 3 dense, 3 final) are smaller than the catalogue of six chunks, so every
cut does cut. `RrfK` is the 60 of the code, and `RrfScale` a multiple of 61 to 65, so that fused scores
are exact. Two corpora and two builds give a stale and a fresh collection. Two lids with two parts
each suffice for text that could slip from one lid, list or item to the next. Four script runs
are a download, a parse and a chunking that follow one that was killed, or a download that
writes the lock and one that checks it, with a change of a source before or between them. Two evaluations are a
baseline and a candidate, or a passed candidate and one whose baseline cannot be read. The thresholds of the gate are those of `PromotionConfig`, its tolerances are
enlarged so that one case of five, or one of two, uses them up: that is the boundary
where an off-by-one shows.
In AgentOverCorpus every outcome occurs: each reason of a refusal, retries that are better and retries
that are not, and parts of which one fails.
`CHECK_DEADLOCK FALSE` is given where a run ends: a number of builds or scripts, one file.

Runs that find a violation show where the code does something other than the repository says (the
quotations are in PROJECT.json, "findings"):

- **InMemoryCorpus**: requests that name different chunk files share the cache and its key.
- **IndexDated**: the dense part of a hybrid request does not carry the date, so a persistent index
  returns chunks not valid on it.
- **ChunkIds**: two lists in one lid, or two articles of one number, give chunks that share an
  identifier and differ in text. The raw laws in `data/raw/laws` contain both.
- **PromotionLeaks**: the gate counts unauthorized failures in the cases of one category only, and a
  candidate that reveals a forbidden chunk in a case of another category is promoted.

Six more places where a doc can be read otherwise than the code behaves are not run, because the
sentence leaves room for the code:

- a query with an exact identifier is looked up, and can get the answer of a similar query without
  it, only its own answer is not stored (`cache/semantic_cache.py:84`, ADR 013:17);
- only queries with an identifier are retried (`agent/control.py:307`, docs/architecture.md:11);
- two laws that match an article number exactly and rank the same are no conflict
  (`agent/evidence.py:158`, SUBMISSION.md:16);
- hybrid retrieval for a paragraph that the corpus lacks returns its siblings
  (`retrieval/hybrid.py:137`, ADR 012:37); NoSiblingLeads shows that no answer leads with one;
- a retry is graded by the focused query, in which the year of the question may be gone
  (`agent/control.py:338`, docs/architecture.md:12); NoObjectionOverlooked says how far that goes;
- the text of a section beside its paragroups is in no chunk, and most rulings in
  `data/raw/cases` have such text (`chunking/case_chunker.py:102`, ADR 002:5).

## Fairness

Only `CorrectiveAgent` has a liveness property. `answer` is a sequential call without waits
on other threads, so weak fairness of its next step is that the thread keeps running. The caches,
the index and the scripts are checked for safety: a thread of the pool or a script may stop anywhere, and
nothing in the code promises an eventual hit, a retry or a restart.

## What is proved

Eight modules hold the proofs; what they need of a component's constants are the assumptions
named in the component's own module, which TLC evaluates in every run. For each component there is an
inductive invariant, because what the runs check is not inductive as it stands. Every invariant
and action property of a run that passes has its theorem.

What a fold or a joined sequence gives for every input is an induction, but the library's induction theorems take
an operator as a parameter, which the prover cannot instantiate. Where a proof needs one
it takes the set of the lengths for which the claim fails and looks at the least of them (`LeastNatural` from the
well-foundedness of `<` on `Nat`, `JoinsExists`, `MergesExists`).

**The in-memory cache** (`InMemoryCachedAgentProofs`; `PolicyAssumption`, `ThreadAssumption`), for every number of threads, lists, keys,
requests and entries. `IInv` is `TypeOK /\ Control /\ OneKeyPerList /\ Filed /\ Dated /\ Justified`. That a hit is of
the right key depends on what every thread that still holds an old list may append to it.
`OneKeyPerList` says that a list object is only ever reached through one key, from the dictionary or
from a thread, which holds because a new list is one that nothing refers to; `Filed` then says that
all lists hold entries of their key, `Dated` that an entry which was stamped and is not yet appended outlasts the lookup of any thread
that is still to scan that list, and `Justified` that a response is such an entry or the agent's own;
`Control` ties the local variables to the program counter. From it follow `TypeCorrect`,
`NamespaceIsolation` (ReuseWithinNamespace), `PublicFreshReuse` (ReuseIsPublicAndFresh) and `SourcesStayAuthorized`
(NoForeignSource, given that the agent itself cites authorized chunks: `PolicyAssumption` by way of `Drafts` and `Readable`). `QuietStoresSurvive` adds
that every change to a list is an append, or a filter by a lookup of its key, which ends the claim, or keeps what has not expired.
`ThreadsImplementAnswerCache` maps each step to a step of AnswerCache or a stutter.

**The Redis cache** (`RedisCachedAgentProofs`; `ClientAssumption`), for every number of clients, failing commands and
clears. `IInv` is `TypeOK /\ Control /\ Filed`: what a client has read, or is about to write, are
cacheable entries of its key, as are those of the server, so it does not matter whose write comes last
(`OnlyCacheableHeld`). `QuietStoresSurvive` and `QuietClearsAreFinal` carry along what the clients that are under way may
still write; `ClientsImplementAnswerCache` is the refinement, failing commands included.

**The agent** (`CorrectiveAgentProofs`; `GradingAssumption`, `AgentAssumption`), for all queries, responses,
thresholds and numbers of retries. `IInv` is `TypeOK /\ Control /\ Evidenced /\ Chosen /\ Outcome`: `Evidenced`
that each attempt was graded for the call that the plan and the scope of the request make, `Chosen` that `best` is an
attempt no other beats, `Outcome` how the response follows from them. The properties AgentAnswers checks are consequences. The
theorems are stated for `Steps`, that is `Spec` without its fairness, because the fairness says nothing of what a
step may do and the prover cannot expand it. `AgentAssumption` says that identifiers and rewrites name an identifier, as
the code that makes them ensures (`agent/transform.py`), and that a part of a question without a date has none.
`GradingIsMonotone` (StrongerNeverWorse) is a fact about `grade_evidence` alone and needs only that floors are below
thresholds.

**The index** (`PersistentIndexProofs`; `IndexAssumption`, `RequestsAssumption`), for any number of threads, corpora,
builds and kills. `Prepared` says that what a process is uploading are points of one corpus, of which the collection
holds the first ones; `Stored` that the collection at rest is the beginning of one upload, and `Filled` that it is all of it unless it
was cut; `Undisturbed` that a
process fails only at a folder that another one holds. `NoMixedIndex`, `BuildsStand`, `AloneSucceeds` follow.
`RebuiltIndexAgrees` is an action property: it needs that ranking the whole collection with the filter of the
request gives what ranking the chunks in scope gives (`DenseAgrees`, `HybridAgrees`).

**The service** (`AgentOverCorpusProofs`, first part; `RetrievalAssumption`, `ServiceAssumption`, `CallsAssumption`).
`ServiceInv` says what each stage has made of the library and the request. `DeniedIsInvisible` says that the
response is one that the library without the denied chunks would give, as the candidates are the same.
`ExactStandsAlone` (ExactEvidenceAlone) has to do with cuts at three places: the lexical part is cut by its
score, in which a citation path that is only contained in the query earns 55 points (`retrieval/lexical.py:133`) that the
order of exact evidence leaves out, then the fused list is cut, then the response. `BoostAssumption` (the boost is 3 or more,
`common/config.py:40`) is what makes it true: then 55 points never reverse the order of exact evidence (`PriorityOrders`), so the
lexical part holds the best of it (`ExactIsFound`). With a boost of 2 an article whose path is contained in the query, at 135 points,
goes before a path that equals the query and its 95.

**The agent over a corpus** (the same module; `SystemAssumption`, `GradedAssumption`, which repeats what the modules of
the agent ask of their constants). `SystemInv` is `ServiceInv /\ Asking /\ AgentInv`: the call handed to the service is the
one the agent makes next, and each response the agent holds is what the retrievers make of the library for a call in the scope of
the question. `CitationsAreInScope`, `SiblingsDoNotLead` and `DeniedIsInvisibleToAgent` are its consequences.
`AgentOverCorpusRefines` is the refinement: a step maps to a step of the agent, and the response it gets is one of
`Possible`, and the same for the same call. With it `AgentIsSound` carries the theorems of `CorrectiveAgentProofs` over to every corpus;
the lemmas `Same...` say that the two instances mean the same, and `ConstantsOfAgent` and `ConstantsGraded` that the assumptions of the
agent hold of the constants it is given here. In particular, no assumption on responses is left.
`ExactIsAnswered` (ExactEvidenceIsAnswered) puts both together: a response for an identifier leads with exact evidence
(`ExactLeads`), which is relevant (`ExactIsRelevant`), so there is one attempt (`BestAttemptDecides`), it is
the initial call (`FirstCallIsInitial`), and what it cites is what it leads with.

**Chunking** (`ChunkingProofs`; `ChunkingAssumption`), for raw files with any number of articles, lids, parts, sections,
paragroups and lines. The assumption says of raw files what those of `data/raw` fulfil: a piece of text stands at
one place of a ruling (`Apart`), which is how a piece is told from another that reads the same; a paragroup stands under its section or under
a paragroup (`Nested`); the identifier of an article that has no number is not a number; and what the code itself ensures, that a heading has a title.
`IInv` says that the documents are those parsed from a file and valid, though the law file may have
been replaced since, and that the chunks are those made of these documents and of the raw file as it was read second.
`CitesItsText` (CitationCoversText) follows a chunk to the lids or items that it is made of. `IdsNamePlaces` (IdNamesPlace)
holds because from the identifier of a chunk the article, lid and item of its citation can be read, up to the spelling of the
numbers (`Names`), which takes that an article's identifier is not mistaken for another one's number (`NameOf`).
`TextIsAccountedFor` (TextAccountedFor) has a theorem for each type of source, with the exceptions that the properties
themselves name. `LawKeepsText` finds a chunk for every piece of an article's text. For `PolicyKeepsText` the headings cut the lines
into runs without a gap (`Orders`, `NextIs`, `LastLine`). `CaseKeepsText` says that the chunks of a ruling hold, once and in order,
either the text of the document or that of the sections without what stands beside a paragroup (`Beside`): a section gives its
own text if it has no paragroups, a paragroup if it holds no others (`Inner`, `Kept`).

**The corpus scripts** (`CorpusBuildProofs`; `ScriptsAssumption`): `SuccessVerifies`, `ManifestIsTrue`, `LockIsReadable`.
The invariant says that the rows of the download under way tell what it has put on disk (`RowsTell`,
`TellsDisk`), that a lock it checks against is that of the file (`LockHolds`), and, while no source has
changed since a lock was written, that lock and sources agree (`Agreeing`).
`BuildIsCurrent` (BuildMatchesDisk) has an invariant of its own, `Building`: while a script writes, the files it has written hold what is made of
the raw files as they are, and the others come next, so that the file which a kill cuts short is one of those that are not claimed yet. Since every `Save` adds one file to those of the start, the raw files that are there are finitely many, and can be
listed (`CorpusListed`); the documents and chunks of such a list are each merged once (`MergedOnce`), so that
there are as many as there are raw files.

**The gate** (`PromotionGateProofs`; `GateAssumption`, `ThresholdsAssumption`, `FilesAssumption`): `DecisionIsTold`, `DecisionsStand`. The invariant says which
stamps and labels the files of a run bear (`Owned`, `Saved`), so a later run overwrites no report that a
decision rests on, and that no decision bears the stamp of a run that has not decided (`Earlier`). That is
why the exit status alone does not tell whether the decision file is of the run that ended: after status 1 its reader has to
look at the candidate it names (ExitTellsDecision). `BetterIsPromoted` (StrongerIsPromoted), for every finite gold set, whatever it expects of its cases, and all thresholds that are not negative: a
metric is a fraction whose denominator a better answer leaves as it is and whose numerator does not shrink (that of the
unauthorized failures does not grow) when a case is answered better (`SumGrows`, `MetricsGrow`), so a comparison that one report passes, a better one passes (`ComparisonKept`).

## What is only model-checked

- `Terminates` of the agent: the prover does not do ENABLED and fairness.
- The four runs that find a violation are, by their nature, instances.

## What is abstracted or not modelled

- Texts: tokens, patterns, embeddings and cosine are constants (`Terms`, `Similarity`, `Overlap`, `Bonus`,
  `Similar`, `Terse`, ...), taken from what the code reads of a text. The instances contain the cases
  the code distinguishes.
- Answer wording, explanations, trace records, serialisation to JSON and key digests: no property
  depends on their form.
- The cross-encoder backend, Redis and Qdrant are external; the latter two are modelled from how the code uses them.
- Retrieval assumes distinct chunk ids, which `ChunkIdsResolve` shows the chunkers do not
  ensure; what a repeated id does to a response is not modelled.
- The index: an error of the store itself while points are uploaded (a full disk) is not modelled; it would leave
  a part of the collection, as a kill does.
- The validity of a chunk when a law is downloaded between parsing and chunking: the text of the new version gets the
  dates of the old one (`chunking/metadata_builder.py:70`). Nothing in the code or the docs excludes it, so no property
  speaks of it: CitationCoversText covers the citations of such chunks, and BuildMatchesDisk starts where no download came between.
- The corpus scripts: a raw file is one document with one chunk (Chunking tells what is in it); raw files
  that earlier configurations left behind stay and are parsed, as in the code; two entries of one name
  share a file, and the properties speak of the one that is saved last; the e-learning and policy
  fixtures and the copies of a stress corpus are left out; a lock file with an empty list
  verifies nothing.
- The evaluation: a response is what its gold case asks of it; wrong arguments (exit code 2) are left
  out; two runs within one second, which share the stamp of their files, too; a gate without a case of
  `unauthorized_role` passes that threshold, and reports of different gold sets are compared as if they
  were of one.
- A response of retrieval is passed to the agent without loss: what is left out of `profile` is wording.
- `EvidenceGatedAgent` (used by tests only), the latency benchmark (wall clock), the
  command line and the demo scripts (formatting), schemas and configuration (constants).
