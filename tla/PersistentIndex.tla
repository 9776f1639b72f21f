-------------------------- MODULE PersistentIndex --------------------------
(***************************************************************************)
(* The persistent Qdrant collection: the threads of one API server and the *)
(* script that builds the index, each of them opening the same folder.     *)
(*                                                                         *)
(* A folder has one client at a time: to open it while another client does *)
(* raises.  ensure_collection opens it, creates and fills the collection   *)
(* if there is none, and lets it go; the query opens it again.  A point    *)
(* is on disk when it is uploaded, and a process may be killed at any time.*)
(***************************************************************************)
EXTENDS Retrieval, Sequences, FiniteSetsExt

CONSTANTS
  Threads,        \* the requests that the server gets, each on a thread of its own
  Builder,        \* scripts/build_dense_index.py
  Requests,       \* the requests made in the instance at hand
  Corpora,        \* what the chunks file holds, one ingestion after another
  NoCollection,
  MaxBuilds, MaxKills

Processes == Threads \cup {Builder}
Free == "free"

\* What one ensure_collection may upload.
Uploads ==
  {Corpora[v] : v \in DOMAIN Corpora} \cup
  {candidates(Corpora[v], r) : v \in DOMAIN Corpora, r \in Requests}

\* The ids of the chunks are numbers, and no collection is no collection at all, not
\* even an empty one.
ASSUME IndexAssumption ==
  /\ Builder \notin Threads /\ Free \notin Processes
  /\ {MaxBuilds, MaxKills} \subseteq Nat
  /\ Len(Corpora) \in Nat \ {0} /\ DOMAIN Corpora = 1..Len(Corpora)
  /\ \A v \in DOMAIN Corpora : DOMAIN Corpora[v] \subseteq Nat
                               /\ Corpora[v] = Restrict(Corpora[v], DOMAIN Corpora[v])
  /\ \A upload \in Uploads : \A S \in SUBSET DOMAIN upload : NoCollection # Restrict(upload, S)

ASSUME RequestsAssumption ==
  \A r \in Requests :
    /\ DOMAIN r = {"query", "role", "method", "top_k", "types", "jurisdiction", "as_of"}
    /\ r.query \in Queries /\ r.method \in {"dense", "hybrid"}

VARIABLES
  file,       \* which of Corpora the chunks file holds
  loaded,     \* which of them the server has loaded
  holder,     \* the process that has the folder open
  index,      \* the collection on disk
  pc, req, chunks,
  results,
  recreate,   \* the flag of the build under way
  rebuilt,    \* history: the chunks of the last finished --recreate build
  disturbed,  \* history: threads that met another process at the folder
  cut,        \* history: the process that filled the collection was killed before the end
  builds, kills

vars == <<file, loaded, holder, index, pc, req, chunks, results, recreate, rebuilt,
          disturbed, cut, builds, kills>>

data == <<file, loaded, req, chunks, results, recreate, builds, kills>>

Busy == {"open", "ensure", "upload", "close", "reopen", "query"}
busy(p) == pc[p] \in Busy

Init ==
  /\ file = 1 /\ loaded = 1
  /\ holder = Free /\ index = NoCollection
  /\ pc = [p \in Processes |-> "idle"]
  /\ req \in [Threads -> Requests]
  /\ chunks = [p \in Processes |-> NothingRanked]
  /\ results = [t \in Threads |-> <<>>]
  /\ recreate = FALSE /\ rebuilt = NoCollection
  /\ disturbed = {} /\ cut = FALSE /\ builds = 0 /\ kills = 0

-----------------------------------------------------------------------------
(* The chunks file, the server and the script.                             *)

Ingest ==
  /\ file < Len(Corpora)
  /\ file' = file + 1
  /\ UNCHANGED <<loaded, holder, index, pc, req, chunks, results, recreate, rebuilt,
                 disturbed, cut, builds, kills>>

\* The part that both methods ask: the hybrid one without the date.
asked(r) == IF r.method = "hybrid" THEN dense_request(r) ELSE r

memory_response(t) == responses(Corpora[loaded], req[t])

\* _rank_dense_chunks up to the folder: some requests never ask the store.
StartRequest(t) ==
  /\ pc[t] = "idle"
  /\ LET found == candidates(Corpora[loaded], req[t])
     IN /\ chunks' = [chunks EXCEPT ![t] = found]
        /\ IF asks_store(found, asked(req[t]))
             THEN pc' = [pc EXCEPT ![t] = "open"] /\ UNCHANGED results
             ELSE /\ pc' = [pc EXCEPT ![t] = "done"]
                  /\ \E response \in memory_response(t) :
                       results' = [results EXCEPT ![t] = response]
  /\ UNCHANGED <<file, loaded, holder, index, req, recreate, rebuilt, disturbed, cut, builds, kills>>

StartBuild ==
  /\ ~busy(Builder) /\ builds < MaxBuilds
  /\ builds' = builds + 1
  /\ recreate' \in BOOLEAN
  /\ chunks' = [chunks EXCEPT ![Builder] = Corpora[file]]
  /\ pc' = [pc EXCEPT ![Builder] = "open"]
  /\ UNCHANGED <<file, loaded, holder, index, req, results, rebuilt, disturbed, cut, kills>>

-----------------------------------------------------------------------------
(* The folder.                                                             *)

Open(p) ==
  /\ pc[p] \in {"open", "reopen"}
  /\ IF holder = Free
       THEN /\ holder' = p
            /\ disturbed' = disturbed \cup {t \in Threads \ {p} : busy(t)}
            /\ pc' = [pc EXCEPT ![p] = IF pc[p] = "open" THEN "ensure" ELSE "query"]
       ELSE /\ disturbed' = disturbed \cup ({p} \cap (Threads \ {holder}))
            /\ pc' = [pc EXCEPT ![p] = "failed"]
            /\ UNCHANGED holder
  /\ UNCHANGED <<index, rebuilt, cut>> /\ UNCHANGED data

\* A slip, for the mutants: --recreate uploads over what is there.
EnsureOver(p) ==
  /\ pc[p] = "ensure"
  /\ rebuilt' = IF p = Builder /\ recreate THEN NoCollection ELSE rebuilt
  /\ index' = IF index = NoCollection THEN NothingRanked ELSE index
  /\ pc' = [pc EXCEPT ![p] = IF index = NoCollection \/ (p = Builder /\ recreate)
                               THEN "upload" ELSE "close"]
  /\ UNCHANGED <<holder, disturbed, cut>> /\ UNCHANGED data

\* A slip, for the mutants: a request replaces the collection by its own.
EnsureAnew(p) ==
  /\ pc[p] = "ensure"
  /\ rebuilt' = IF p = Builder /\ recreate THEN NoCollection ELSE rebuilt
  /\ index' = IF p = Builder /\ ~recreate /\ index # NoCollection THEN index ELSE NothingRanked
  /\ pc' = [pc EXCEPT ![p] = IF index' = index /\ p = Builder THEN "close" ELSE "upload"]
  /\ cut' = (cut /\ index' = index) /\ UNCHANGED <<holder, disturbed>> /\ UNCHANGED data

\* Delete the collection, or create it, or leave it as it is.
Ensure(p) ==
  /\ pc[p] = "ensure"
  /\ \/ /\ p = Builder /\ recreate /\ index # NoCollection
        /\ index' = NoCollection /\ rebuilt' = NoCollection /\ cut' = FALSE
        /\ UNCHANGED pc
     \/ /\ index = NoCollection
        /\ index' = NothingRanked
        /\ pc' = [pc EXCEPT ![p] = "upload"]
        /\ UNCHANGED <<rebuilt, cut>>
     \/ /\ index # NoCollection /\ ~(p = Builder /\ recreate)
        /\ pc' = [pc EXCEPT ![p] = "close"]
        /\ UNCHANGED <<index, rebuilt, cut>>
  /\ UNCHANGED <<holder, disturbed>> /\ UNCHANGED data

\* A slip, for the mutants: the last point is forgotten.
UploadButLast(p) ==
  /\ pc[p] = "upload"
  /\ LET left == DOMAIN chunks[p] \ DOMAIN index
     IN IF Cardinality(left) <= 1
          THEN pc' = [pc EXCEPT ![p] = "close"] /\ UNCHANGED index
          ELSE /\ index' = [c \in DOMAIN index \cup {Min(left)} |->
                              IF c \in DOMAIN index THEN index[c] ELSE chunks[p][c]]
               /\ UNCHANGED pc
  /\ UNCHANGED <<holder, rebuilt, disturbed, cut>> /\ UNCHANGED data

\* The points are numbered in the order of the chunks and uploaded in that order.
Upload(p) ==
  /\ pc[p] = "upload"
  /\ LET left == DOMAIN chunks[p] \ DOMAIN index
     IN IF left = {}
          THEN pc' = [pc EXCEPT ![p] = "close"] /\ UNCHANGED index
          ELSE /\ index' = [c \in DOMAIN index \cup {Min(left)} |->
                              IF c \in DOMAIN index THEN index[c] ELSE chunks[p][c]]
               /\ UNCHANGED pc
  /\ UNCHANGED <<holder, rebuilt, disturbed, cut>> /\ UNCHANGED data

\* A slip, for the mutants: the client of ensure_collection is kept.
CloseKeeps(p) ==
  /\ pc[p] = "close"
  /\ rebuilt' = IF p = Builder /\ recreate THEN chunks[p] ELSE rebuilt
  /\ pc' = [pc EXCEPT ![p] = IF p = Builder THEN "built" ELSE "reopen"]
  /\ UNCHANGED <<holder, index, disturbed, cut>> /\ UNCHANGED data

Close(p) ==
  /\ pc[p] = "close"
  /\ holder' = Free
  /\ rebuilt' = IF p = Builder /\ recreate THEN chunks[p] ELSE rebuilt
  /\ pc' = [pc EXCEPT ![p] = IF p = Builder THEN "built" ELSE "reopen"]
  /\ UNCHANGED <<index, disturbed, cut>> /\ UNCHANGED data

\* What thread t answers when the store ranks the points so.
Answered(t, ranks) ==
  LET r == req[t]
      lexical == lexical_ranks(chunks[t], r.query, lexical_limit(r))
  IN IF r.method = "dense"
       THEN dense_results(index, r, ranks)
       ELSE hybrid_results(chunks[t], index, lexical, ranks, r)

Query(t) ==
  /\ pc[t] = "query"
  /\ holder' = Free
  /\ IF index = NoCollection
       THEN pc' = [pc EXCEPT ![t] = "failed"] /\ UNCHANGED results
       ELSE /\ pc' = [pc EXCEPT ![t] = "done"]
            /\ \E ranks \in query_points(index, asked(req[t]), asked(req[t]).top_k) :
                 results' = [results EXCEPT ![t] = Answered(t, ranks)]
  /\ UNCHANGED <<file, loaded, index, req, chunks, recreate, rebuilt, disturbed, cut, builds, kills>>

-----------------------------------------------------------------------------
(* A killed process lets the folder go.  The server starts again, and loads *)
(* the chunks file, the requests that were under way are lost.              *)

\* One of these processes is filling the collection and has points left.
filling(P) == \E p \in P : pc[p] = "upload" /\ index # chunks[p]

KillServer ==
  /\ kills < MaxKills
  /\ kills' = kills + 1
  /\ loaded' = file
  /\ holder' = IF holder \in Threads THEN Free ELSE holder
  /\ pc' = [p \in Processes |-> IF p \in Threads /\ busy(p) THEN "lost" ELSE pc[p]]
  /\ cut' = (cut \/ filling(Threads))
  /\ UNCHANGED <<file, index, req, chunks, results, recreate, rebuilt, disturbed, builds>>

KillBuilder ==
  /\ busy(Builder) /\ kills < MaxKills
  /\ kills' = kills + 1
  /\ holder' = IF holder = Builder THEN Free ELSE holder
  /\ pc' = [pc EXCEPT ![Builder] = "lost"]
  /\ cut' = (cut \/ filling({Builder}))
  /\ UNCHANGED <<file, loaded, index, req, chunks, results, recreate, rebuilt, disturbed, builds>>

Next ==
  \/ Ingest \/ StartBuild \/ KillServer \/ KillBuilder
  \/ \E t \in Threads : StartRequest(t) \/ Query(t)
  \/ \E p \in Processes : Open(p) \/ Ensure(p) \/ Upload(p) \/ Close(p)

Spec == Init /\ [][Next]_vars

-----------------------------------------------------------------------------
TypeOK ==
  /\ file \in DOMAIN Corpora /\ loaded \in 1..file
  /\ holder \in Processes \cup {Free}
  /\ pc \in [Processes -> Busy \cup {"idle", "done", "failed", "built", "lost"}]
  /\ \A p \in Processes : holder = p <=> pc[p] \in {"ensure", "upload", "close", "query"}
  /\ req \in [Threads -> Requests]
  /\ recreate \in BOOLEAN /\ cut \in BOOLEAN /\ disturbed \subseteq Threads
  /\ builds \in 0..MaxBuilds /\ kills \in 0..MaxKills

\* The collection is never put together from two uploads: it holds the first points of
\* one of them.  It holds all of them, unless a process is uploading the rest, or was
\* killed while it did: only a kill leaves a part, which later processes take for built
\* until a build deletes it (indexing/qdrant_local.py).
IndexIsOneUpload ==
  index # NoCollection =>
    \E upload \in Uploads :
      /\ DOMAIN index \subseteq DOMAIN upload
      /\ \A c \in DOMAIN index : index[c] = upload[c]
      /\ \A c \in DOMAIN upload \ DOMAIN index, d \in DOMAIN index : d < c
      /\ \/ DOMAIN index = DOMAIN upload
         \/ \E p \in Processes : pc[p] = "upload" /\ chunks[p] = upload
         \/ cut

\* A finished --recreate build stands, whatever requests come: until the next one
\* starts to delete it the collection is the whole corpus it was made from.
RebuildStands == rebuilt # NoCollection => index = rebuilt

\* A request that is alone at the folder does not fail: what it has opened itself
\* does not stand in its way, and the collection it made sure of is there.
LoneRequestSucceeds ==
  \A t \in Threads : pc[t] = "failed" => t \in disturbed

\* Dense retrieval from an index that was rebuilt from the corpus of the server is
\* the retrieval that an index in memory would have given: the filter of the store
\* and the access control and scope of the retriever agree.  Hybrid retrieval is,
\* too, when no date is asked for.
RebuiltAgreesWithMemory ==
  [][\A t \in Threads :
       (/\ pc[t] = "query" /\ pc'[t] = "done"
        /\ rebuilt = Corpora[loaded]
        /\ req[t].method = "dense" \/ req[t].as_of = NoDate)
         => results'[t] \in memory_response(t)]_vars

\* docs/decisions/012: "Retrieval now scopes authorized candidates by source type,
\* jurisdiction, and validity date before lexical, dense, hybrid, or reranking
\* stages use those candidates."
HybridWithinValidity ==
  \A t \in Threads : \A i \in DOMAIN results[t] :
    chunk_valid_on(results[t][i].source, req[t].as_of)
=============================================================================
