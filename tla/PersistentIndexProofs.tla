----------------------- MODULE PersistentIndexProofs -----------------------
(***************************************************************************)
(* The persistent index under any number of threads, ingestions, builds    *)
(* and kills: it is never put together from two uploads, a finished build  *)
(* stands, a request alone at the folder succeeds, and a rebuilt index     *)
(* answers as one in memory would.                                         *)
(***************************************************************************)
EXTENDS PersistentIndex, WellFoundedInduction, TLAPS

-----------------------------------------------------------------------------
(* The inductive invariant.                                                *)

\* A collection holds the first points of an upload.
FirstOf(points, upload) ==
  /\ DOMAIN points \subseteq DOMAIN upload
  /\ points = Restrict(upload, DOMAIN points)
  /\ \A c \in DOMAIN upload \ DOMAIN points, d \in DOMAIN points : d < c

\* What is to be uploaded: by a thread, the candidates of its request.
Prepared ==
  /\ chunks \in [Processes -> Uploads \cup {NothingRanked}]
  /\ busy(Builder) => chunks[Builder] \in Uploads
  /\ \A t \in Threads : busy(t) =>
       /\ chunks[t] = candidates(Corpora[loaded], req[t])
       /\ asks_store(chunks[t], asked(req[t]))

\* What is on disk: a process that uploads adds to its own chunks, and a build that
\* recreates the collection closes the folder when all of its chunks are there.
Stored ==
  /\ index # NoCollection => \E upload \in Uploads : FirstOf(index, upload)
  /\ RebuildStands
  /\ \A p \in Processes :
       /\ pc[p] = "upload" =>
            index # NoCollection /\ FirstOf(index, chunks[p]) /\ rebuilt = NoCollection
       /\ pc[p] = "close" =>
            index # NoCollection /\ (p = Builder /\ recreate => index = chunks[p])

\* A collection that nobody is filling is all of an upload, if nobody was killed before
\* the end of it.
Filled ==
  index # NoCollection /\ ~cut /\ (\A p \in Processes : pc[p] # "upload")
    => index \in Uploads

\* Nobody else opens the folder while a thread that has met nobody is beyond its own
\* opening, so that the collection it made sure of stays.
Undisturbed ==
  \A t \in Threads \ disturbed :
    /\ pc[t] # "failed"
    /\ pc[t] \in Busy \ {"open"} => holder \in {Free, t}
    /\ pc[t] \in {"reopen", "query"} => index # NoCollection

IInv == /\ TypeOK /\ results = [t \in Threads |-> results[t]]
        /\ Prepared /\ Stored /\ Filled /\ Undisturbed

-----------------------------------------------------------------------------
(* Lemmas about corpora and collections.                                   *)

LEMMA RestrictFacts ==
  ASSUME NEW f, NEW S, S \subseteq DOMAIN f
  PROVE  /\ DOMAIN Restrict(f, S) = S
         /\ \A c \in S : Restrict(f, S)[c] = f[c]
         /\ Restrict(f, S) = Restrict(Restrict(f, S), S)
         /\ \A T \in SUBSET S : Restrict(Restrict(f, S), T) = Restrict(f, T)
BY DEF Restrict

\* The candidates are the chunks that the role may see and the request is about, as they
\* are in the corpus.
LEMMA CandidateFacts ==
  ASSUME NEW corpus, NEW r
  PROVE  LET S == {c \in DOMAIN corpus : /\ evaluate_chunk_access(corpus[c], r.role)
                                         /\ request_allows_chunk(corpus[c], r)}
         IN candidates(corpus, r) = Restrict(corpus, S)
<1> DEFINE A == {c \in DOMAIN corpus : evaluate_chunk_access(corpus[c], r.role)}
           seen == Restrict(corpus, A)
           B == {c \in DOMAIN seen : request_allows_chunk(seen[c], r)}
<1>1. candidates(corpus, r) = Restrict(seen, B)
  BY DEF candidates, scope_chunks_for_request, filter_authorized_chunks
<1>2. DOMAIN seen = A /\ \A c \in A : seen[c] = corpus[c]
  BY RestrictFacts
<1>3. B = {c \in DOMAIN corpus : /\ evaluate_chunk_access(corpus[c], r.role)
                                 /\ request_allows_chunk(corpus[c], r)}
  BY <1>2
<1>4. B \in SUBSET A
  BY <1>2
<1> HIDE DEF B
<1>5. Restrict(seen, B) = Restrict(corpus, B)
  BY <1>4, RestrictFacts
<1> QED BY <1>1, <1>3, <1>5

LEMMA UploadFacts ==
  ASSUME NEW upload \in Uploads
  PROVE  /\ DOMAIN upload \subseteq Nat
         /\ upload = Restrict(upload, DOMAIN upload)
         /\ \A S \in SUBSET DOMAIN upload : NoCollection # Restrict(upload, S)
<1>1. CASE \E v \in DOMAIN Corpora : upload = Corpora[v]
  BY <1>1, IndexAssumption
<1>2. CASE \E v \in DOMAIN Corpora, r \in Requests : upload = candidates(Corpora[v], r)
  <2>1. PICK v \in DOMAIN Corpora, r \in Requests : upload = candidates(Corpora[v], r)
    BY <1>2
  <2>2. PICK S \in SUBSET DOMAIN Corpora[v] : upload = Restrict(Corpora[v], S)
    BY <2>1, CandidateFacts
  <2>3. DOMAIN upload = S /\ upload = Restrict(upload, S)
    BY <2>2, RestrictFacts
  <2> QED BY <2>3, IndexAssumption
<1> QED BY <1>1, <1>2 DEF Uploads

\* Nothing, and what has been uploaded, is a collection.
LEMMA FirstOfFacts ==
  ASSUME NEW upload \in Uploads
  PROVE  /\ FirstOf(NothingRanked, upload) /\ NothingRanked # NoCollection
         /\ \A points : FirstOf(points, upload) => points # NoCollection
         /\ \A points : FirstOf(points, upload) /\ DOMAIN upload \ DOMAIN points = {}
                          => points = upload
<1>1. DOMAIN NothingRanked = {} /\ NothingRanked = Restrict(upload, {})
  BY DEF NothingRanked, Restrict
<1>2. NothingRanked # NoCollection
  BY <1>1, UploadFacts
<1>3. FirstOf(NothingRanked, upload)
  BY <1>1 DEF FirstOf
<1>4. \A points : FirstOf(points, upload) => points # NoCollection
  BY UploadFacts DEF FirstOf
<1>5. ASSUME NEW points, FirstOf(points, upload), DOMAIN upload \ DOMAIN points = {}
      PROVE  points = upload
  <2>1. DOMAIN points = DOMAIN upload
    BY <1>5 DEF FirstOf
  <2> QED BY <1>5, <2>1, UploadFacts DEF FirstOf
<1> QED BY <1>2, <1>3, <1>4, <1>5

\* A set of natural numbers has a smallest one.
LEMMA LeastNatural ==
  ASSUME NEW S, S \subseteq Nat, S # {}
  PROVE  \E n \in S : \A m \in S : n <= m
<1> DEFINE R == {x \in Nat \X Nat : x[1] < x[2]}
<1>1. IsWellFoundedOn(R, Nat)
  BY NatLessThanWellFounded DEF OpToRel
<1>2. PICK n \in S : \A m \in S : ~(<<m, n>> \in R)
  BY <1>1, WFMin
<1>3. \A m \in S : ~(m < n)
  BY <1>2
<1> QED BY <1>3

\* Uploading the first of the points that are left keeps a collection one upload.
LEMMA UploadNext ==
  ASSUME NEW upload \in Uploads, NEW points, FirstOf(points, upload),
         NEW left, left = DOMAIN upload \ DOMAIN points, left # {}
  PROVE  FirstOf([c \in DOMAIN points \cup {Min(left)} |->
                    IF c \in DOMAIN points THEN points[c] ELSE upload[c]], upload)
<1> DEFINE n == Min(left)
           D == DOMAIN points \cup {n}
           more == [c \in D |-> IF c \in DOMAIN points THEN points[c] ELSE upload[c]]
<1>1. left \subseteq Nat /\ DOMAIN upload \subseteq Nat
  BY UploadFacts
<1>2. \E k \in left : \A m \in left : k <= m
  BY <1>1, LeastNatural
<1>3. n \in left /\ \A m \in left : n <= m
  BY <1>2 DEF Min
<1> HIDE DEF n
<1>4. D \subseteq DOMAIN upload /\ DOMAIN more = D
  BY <1>3 DEF FirstOf
<1>5. \A c \in DOMAIN points : points[c] = upload[c]
  <2>1. points = Restrict(upload, DOMAIN points)
    BY DEF FirstOf
  <2>2. DOMAIN points \subseteq DOMAIN upload
    BY DEF FirstOf
  <2> QED BY <2>1, <2>2, RestrictFacts
<1>6. more = [c \in D |-> upload[c]]
  BY <1>5
<1>7. more = Restrict(upload, D)
  BY <1>6 DEF Restrict
<1>8. ASSUME NEW c \in DOMAIN upload \ D, NEW d \in D PROVE d < c
  <2>1. CASE d \in DOMAIN points
    BY <1>8, <2>1 DEF FirstOf
  <2>2. CASE d = n
    <3>1. c \in left /\ c # n
      BY <1>8
    <3> QED BY <1>1, <1>3, <2>2, <3>1
  <2> QED BY <2>1, <2>2
<1> HIDE DEF D, more
<1>9. FirstOf(more, upload)
  BY <1>4, <1>7, <1>8 DEF FirstOf
<1> QED BY <1>9 DEF D, more, n

-----------------------------------------------------------------------------
(* The steps.                                                              *)

\* One process at most is beyond the opening of the folder: the one that has it open.
LEMMA HolderFacts ==
  ASSUME TypeOK, NEW p \in Processes, pc[p] \in {"ensure", "upload", "close", "query"}
  PROVE  /\ holder = p
         /\ \A o \in Processes \ {p} : pc[o] \notin {"ensure", "upload", "close", "query"}
BY DEF TypeOK

\* What the server has loaded was in the file once.
LEMMA CandidatesUploaded ==
  ASSUME TypeOK, NEW t \in Threads
  PROVE  candidates(Corpora[loaded], req[t]) \in Uploads
<1>1. loaded \in DOMAIN Corpora
  <2>1. file \in 1..Len(Corpora) /\ loaded \in 1..file
    BY IndexAssumption DEF TypeOK
  <2> QED BY <2>1, IndexAssumption
<1>2. req[t] \in Requests
  BY DEF TypeOK
<1> QED BY <1>1, <1>2 DEF Uploads

LEMMA IngestStep ==
  ASSUME IInv, Ingest
  PROVE  IInv'
<1>1. /\ file < Len(Corpora) /\ file' = file + 1
      /\ UNCHANGED <<loaded, holder, index, pc, req, chunks, results, recreate, rebuilt,
                     disturbed, cut, builds, kills>>
  BY DEF Ingest
<1>2. TypeOK'
  BY <1>1, IndexAssumption DEF IInv, TypeOK
<1>3. Prepared' /\ Stored' /\ Filled' /\ Undisturbed'
  BY <1>1 DEF IInv, Prepared, Stored, RebuildStands, Filled, Undisturbed, busy
<1> QED BY <1>1, <1>2, <1>3 DEF IInv

LEMMA StartRequestStep ==
  ASSUME IInv, NEW t \in Threads, StartRequest(t)
  PROVE  IInv'
<1> DEFINE found == candidates(Corpora[loaded], req[t])
<1>1. /\ pc[t] = "idle" /\ chunks' = [chunks EXCEPT ![t] = found]
      /\ UNCHANGED <<file, loaded, holder, index, req, recreate, rebuilt, disturbed, cut, builds, kills>>
      /\ \/ /\ asks_store(found, asked(req[t]))
            /\ pc' = [pc EXCEPT ![t] = "open"] /\ results' = results
         \/ /\ pc' = [pc EXCEPT ![t] = "done"]
            /\ \E response \in memory_response(t) :
                 results' = [results EXCEPT ![t] = response]
  BY DEF StartRequest
<1>2. found \in Uploads
  BY CandidatesUploaded DEF IInv
<1>3. TypeOK'
  BY <1>1, IndexAssumption DEF IInv, TypeOK, Busy, Processes
<1>4. results' = [s \in Threads |-> results'[s]]
  BY <1>1 DEF IInv
<1>5. Prepared'
  <2>1. t \in Processes /\ t # Builder
    BY IndexAssumption DEF Processes
  <2> HIDE DEF found
  <2>2. chunks' \in [Processes -> Uploads \cup {NothingRanked}]
    BY <1>1, <1>2, <2>1 DEF IInv, Prepared
  <2>3. \A p \in Processes \ {t} : pc'[p] = pc[p] /\ chunks'[p] = chunks[p]
    BY <1>1, <2>1 DEF IInv, TypeOK, Prepared
  <2>4. busy(Builder)' => chunks'[Builder] \in Uploads
    BY <2>1, <2>3 DEF IInv, Prepared, busy, Processes
  <2>5. busy(t)' => chunks'[t] = found /\ asks_store(found, asked(req[t]))
    BY <1>1, <2>1 DEF IInv, TypeOK, Prepared, busy, Busy
  <2> QED BY <1>1, <2>2, <2>3, <2>4, <2>5 DEF IInv, Prepared, busy, Processes, found
<1>6. Stored'
  <2>1. \A p \in Processes : /\ pc'[p] \in {"upload", "close"} => pc[p] = pc'[p] /\ p # t
                             /\ p # t => chunks'[p] = chunks[p]
    BY <1>1 DEF IInv, TypeOK, Prepared, Processes
  <2> QED BY <1>1, <2>1 DEF IInv, Stored, RebuildStands
<1>7. Undisturbed'
  BY <1>1 DEF IInv, TypeOK, Undisturbed, Busy, Processes
<1>8. Filled'
  <2>1. \A p \in Processes : pc[p] = "upload" => pc'[p] = "upload"
    BY <1>1 DEF IInv, TypeOK
  <2> QED BY <1>1, <2>1 DEF IInv, Filled
<1> QED BY <1>3, <1>4, <1>5, <1>6, <1>7, <1>8 DEF IInv

LEMMA StartBuildStep ==
  ASSUME IInv, StartBuild
  PROVE  IInv'
<1>1. /\ ~busy(Builder) /\ builds < MaxBuilds /\ builds' = builds + 1 /\ recreate' \in BOOLEAN
      /\ chunks' = [chunks EXCEPT ![Builder] = Corpora[file]]
      /\ pc' = [pc EXCEPT ![Builder] = "open"]
      /\ UNCHANGED <<file, loaded, holder, index, req, results, rebuilt, disturbed, cut, kills>>
  BY DEF StartBuild
<1>2. Builder \in Processes /\ Builder \notin Threads /\ Threads \subseteq Processes
  BY IndexAssumption DEF Processes
<1>3. TypeOK'
  BY <1>1, <1>2, IndexAssumption DEF IInv, TypeOK, Busy, busy
<1>4. \A p \in Processes \ {Builder} : pc'[p] = pc[p] /\ chunks'[p] = chunks[p]
  BY <1>1 DEF IInv, TypeOK, Prepared
<1>5. pc'[Builder] = "open" /\ chunks'[Builder] = Corpora[file]
  BY <1>1, <1>2 DEF IInv, TypeOK, Prepared
<1>6. Corpora[file] \in Uploads
  BY DEF IInv, TypeOK, Uploads
<1>7. Prepared'
  BY <1>1, <1>2, <1>4, <1>5, <1>6 DEF IInv, Prepared, busy
<1>8. Stored'
  BY <1>1, <1>2, <1>4, <1>5 DEF IInv, Stored, RebuildStands
<1>9. Undisturbed'
  BY <1>1, <1>2, <1>4 DEF IInv, Undisturbed
<1>10. Filled'
  BY <1>1, <1>4 DEF IInv, Filled, busy, Busy
<1> QED BY <1>1, <1>3, <1>7, <1>8, <1>9, <1>10 DEF IInv

LEMMA OpenStep ==
  ASSUME IInv, NEW p \in Processes, Open(p)
  PROVE  IInv'
<1>1. /\ pc[p] \in {"open", "reopen"}
      /\ UNCHANGED <<file, loaded, req, chunks, results, recreate, builds, kills, index, rebuilt, cut>>
      /\ \/ /\ holder = Free /\ holder' = p
            /\ disturbed' = disturbed \cup {t \in Threads \ {p} : busy(t)}
            /\ pc' = [pc EXCEPT ![p] = IF pc[p] = "open" THEN "ensure" ELSE "query"]
         \/ /\ holder # Free /\ holder' = holder
            /\ disturbed' = disturbed \cup ({p} \cap (Threads \ {holder}))
            /\ pc' = [pc EXCEPT ![p] = "failed"]
  BY DEF Open, data
<1>2. \A o \in Processes \ {p} : pc'[o] = pc[o]
  BY <1>1 DEF IInv, TypeOK
<1>3. pc'[p] \in {"ensure", "query", "failed"} /\ (pc'[p] = "query" => pc[p] = "reopen")
      /\ (pc'[p] = "ensure" => pc[p] = "open")
  BY <1>1 DEF IInv, TypeOK
<1>4. TypeOK'
  BY <1>1, <1>2, IndexAssumption DEF IInv, TypeOK, Busy, busy
<1>5. Prepared'
  BY <1>1, <1>2, <1>3 DEF IInv, Prepared, busy, Busy, Processes
<1>6. Stored'
  BY <1>1, <1>2, <1>3 DEF IInv, Stored, RebuildStands
<1>7. Undisturbed'
  <2> SUFFICES ASSUME NEW t \in Threads \ disturbed'
               PROVE  /\ pc'[t] # "failed"
                      /\ pc'[t] \in Busy \ {"open"} => holder' \in {Free, t}
                      /\ pc'[t] \in {"reopen", "query"} => index' # NoCollection
    BY DEF Undisturbed
  <2>1. t \in Threads \ disturbed /\ t \in Processes
    BY <1>1 DEF Processes
  <2>2. CASE holder = Free /\ holder' = p
             /\ disturbed' = disturbed \cup {o \in Threads \ {p} : busy(o)}
             /\ pc' = [pc EXCEPT ![p] = IF pc[p] = "open" THEN "ensure" ELSE "query"]
    <3>1. CASE t = p
      <4>1. pc'[t] \in {"ensure", "query"}
        BY <1>1, <2>1, <2>2, <3>1 DEF IInv, TypeOK
      <4>2. pc'[t] = "query" => index # NoCollection
        BY <1>1, <1>3, <2>1, <3>1 DEF IInv, Undisturbed
      <4> QED BY <1>1, <2>2, <3>1, <4>1, <4>2
    <3>2. CASE t # p
      <4>1. ~busy(t)
        BY <2>1, <2>2, <3>2
      <4> QED BY <1>2, <2>1, <3>2, <4>1 DEF IInv, Undisturbed, busy, Busy
    <3> QED BY <3>1, <3>2
  <2>3. CASE holder # Free
    <3>1. holder # p
      BY <1>1 DEF IInv, TypeOK
    <3>2. t # p
      BY <1>1, <2>1, <2>3, <3>1
    <3> QED BY <1>1, <1>2, <2>1, <2>3, <3>2 DEF IInv, Undisturbed
  <2> QED BY <1>1, <2>2, <2>3
<1>8. Filled'
  BY <1>1, <1>2 DEF IInv, Filled
<1> QED BY <1>1, <1>4, <1>5, <1>6, <1>7, <1>8 DEF IInv

LEMMA EnsureStep ==
  ASSUME IInv, NEW p \in Processes, Ensure(p)
  PROVE  IInv'
<1>1. /\ pc[p] = "ensure"
      /\ UNCHANGED <<file, loaded, req, chunks, results, recreate, builds, kills,
                     holder, disturbed>>
      /\ \/ /\ p = Builder /\ recreate /\ index # NoCollection
            /\ index' = NoCollection /\ rebuilt' = NoCollection /\ cut' = FALSE /\ pc' = pc
         \/ /\ index = NoCollection /\ index' = NothingRanked /\ rebuilt' = rebuilt
            /\ pc' = [pc EXCEPT ![p] = "upload"] /\ cut' = cut
         \/ /\ index # NoCollection /\ ~(p = Builder /\ recreate)
            /\ pc' = [pc EXCEPT ![p] = "close"] /\ index' = index /\ rebuilt' = rebuilt
            /\ cut' = cut
  BY DEF Ensure, data
<1>2. /\ holder = p
      /\ \A o \in Processes \ {p} : pc[o] \notin {"ensure", "upload", "close", "query"}
      /\ \A o \in Processes \ {p} : pc'[o] = pc[o]
  BY <1>1, HolderFacts DEF IInv, TypeOK
<1>3. pc'[p] \in {"ensure", "upload", "close"}
  BY <1>1 DEF IInv, TypeOK
<1>4. TypeOK'
  BY <1>1, <1>2, <1>3 DEF IInv, TypeOK, Busy
<1>5. Prepared'
  BY <1>1, <1>2, <1>3 DEF IInv, Prepared, busy, Busy, Processes
<1>6. chunks[p] \in Uploads
  <2>1. p = Builder => busy(Builder)
    BY <1>1 DEF busy, Busy
  <2>2. p \in Threads => chunks[p] = candidates(Corpora[loaded], req[p])
    BY <1>1 DEF IInv, Prepared, busy, Busy
  <2> QED BY <2>1, <2>2, CandidatesUploaded DEF IInv, Prepared, Processes
<1>7. Stored'
  <2>1. CASE index' = NoCollection /\ rebuilt' = NoCollection /\ pc' = pc
    BY <1>1, <1>2, <2>1 DEF Stored, RebuildStands
  <2>2. CASE index = NoCollection /\ index' = NothingRanked /\ rebuilt' = rebuilt
             /\ pc' = [pc EXCEPT ![p] = "upload"]
    <3>1. rebuilt = NoCollection
      BY <2>2 DEF IInv, Stored, RebuildStands
    <3>2. FirstOf(index', chunks[p]) /\ index' # NoCollection
      BY <1>6, <2>2, FirstOfFacts
    <3>3. pc'[p] = "upload"
      BY <2>2 DEF IInv, TypeOK
    <3> QED BY <1>1, <1>2, <1>6, <2>2, <3>1, <3>2, <3>3 DEF Stored, RebuildStands
  <2>3. CASE index # NoCollection /\ ~(p = Builder /\ recreate)
             /\ pc' = [pc EXCEPT ![p] = "close"] /\ index' = index /\ rebuilt' = rebuilt
    <3>1. pc'[p] = "close"
      BY <2>3 DEF IInv, TypeOK
    <3> QED BY <1>1, <1>2, <2>3, <3>1 DEF IInv, Stored, RebuildStands
  <2> QED BY <1>1, <2>1, <2>2, <2>3
<1>8. Undisturbed'
  <2> SUFFICES ASSUME NEW t \in Threads \ disturbed'
               PROVE  /\ pc'[t] # "failed"
                      /\ pc'[t] \in Busy \ {"open"} => holder' \in {Free, t}
                      /\ pc'[t] \in {"reopen", "query"} => index' # NoCollection
    BY DEF Undisturbed
  <2>1. t \in Threads \ disturbed /\ t \in Processes
    BY <1>1 DEF Processes
  <2>2. CASE t = p
    BY <1>1, <1>2, <1>3, <2>2
  <2>3. CASE t # p
    <3>1. holder \notin {Free, t}
      BY <1>2, <2>3, IndexAssumption
    <3> QED BY <1>1, <1>2, <2>1, <2>3, <3>1 DEF IInv, Undisturbed, Busy
  <2> QED BY <2>2, <2>3
<1>9. Filled'
  BY <1>1, <1>2 DEF IInv, TypeOK, Filled
<1> QED BY <1>1, <1>4, <1>5, <1>7, <1>8, <1>9 DEF IInv

\* A process that is busy has prepared what it may upload.
LEMMA BusyUploads ==
  ASSUME IInv, NEW p \in Processes, busy(p)
  PROVE  chunks[p] \in Uploads
BY CandidatesUploaded DEF IInv, Prepared, Processes

LEMMA UploadStep ==
  ASSUME IInv, NEW p \in Processes, Upload(p)
  PROVE  IInv'
<1> DEFINE left == DOMAIN chunks[p] \ DOMAIN index
<1>1. /\ pc[p] = "upload"
      /\ UNCHANGED <<file, loaded, req, chunks, results, recreate, builds, kills,
                     holder, rebuilt, disturbed, cut>>
      /\ \/ left = {} /\ pc' = [pc EXCEPT ![p] = "close"] /\ index' = index
         \/ /\ left # {} /\ pc' = pc
            /\ index' = [c \in DOMAIN index \cup {Min(left)} |->
                           IF c \in DOMAIN index THEN index[c] ELSE chunks[p][c]]
  BY DEF Upload, data
<1>2. /\ holder = p
      /\ \A o \in Processes \ {p} : pc[o] \notin {"ensure", "upload", "close", "query"}
      /\ \A o \in Processes \ {p} : pc'[o] = pc[o]
  BY <1>1, HolderFacts DEF IInv, TypeOK
<1>3. pc'[p] \in {"upload", "close"}
  BY <1>1 DEF IInv, TypeOK
<1>4. chunks[p] \in Uploads
  BY <1>1, BusyUploads DEF busy, Busy
<1>5. index # NoCollection /\ FirstOf(index, chunks[p]) /\ rebuilt = NoCollection
  BY <1>1 DEF IInv, Stored
<1>6. FirstOf(index', chunks[p]) /\ index' # NoCollection
  <2>1. FirstOf(index', chunks[p])
    BY <1>1, <1>4, <1>5, UploadNext
  <2> QED BY <1>4, <2>1, FirstOfFacts
<1>7. TypeOK'
  BY <1>1, <1>2, <1>3 DEF IInv, TypeOK, Busy
<1>8. Prepared'
  BY <1>1, <1>2, <1>3 DEF IInv, Prepared, busy, Busy, Processes
<1>9. Stored'
  <2>1. pc'[p] = "close" => index' = chunks[p]
    <3>1. pc'[p] = "close" => left = {} /\ index' = index
      BY <1>1
    <3> QED BY <1>4, <1>5, <3>1, FirstOfFacts
  <2> HIDE DEF left
  <2> QED BY <1>1, <1>2, <1>4, <1>5, <1>6, <2>1 DEF Stored, RebuildStands
<1>10. Filled'
  <2>1. pc'[p] # "upload" => left = {} /\ index' = index
    BY <1>1
  <2>2. left = {} /\ index' = index => index' = chunks[p]
    BY <1>4, <1>5, FirstOfFacts
  <2> QED BY <1>4, <2>1, <2>2 DEF Filled
<1>11. Undisturbed'
  <2> SUFFICES ASSUME NEW t \in Threads \ disturbed'
               PROVE  /\ pc'[t] # "failed"
                      /\ pc'[t] \in Busy \ {"open"} => holder' \in {Free, t}
                      /\ pc'[t] \in {"reopen", "query"} => index' # NoCollection
    BY DEF Undisturbed
  <2> QED BY <1>1, <1>2, <1>3, <1>6 DEF IInv, Undisturbed, Processes
<1> QED BY <1>1, <1>7, <1>8, <1>9, <1>10, <1>11 DEF IInv

LEMMA CloseStep ==
  ASSUME IInv, NEW p \in Processes, Close(p)
  PROVE  IInv'
<1>1. /\ pc[p] = "close" /\ holder' = Free
      /\ rebuilt' = IF p = Builder /\ recreate THEN chunks[p] ELSE rebuilt
      /\ pc' = [pc EXCEPT ![p] = IF p = Builder THEN "built" ELSE "reopen"]
      /\ UNCHANGED <<file, loaded, req, chunks, results, recreate, builds, kills,
                     index, disturbed, cut>>
  BY DEF Close, data
<1>2. /\ holder = p
      /\ \A o \in Processes \ {p} : pc[o] \notin {"ensure", "upload", "close", "query"}
      /\ \A o \in Processes \ {p} : pc'[o] = pc[o]
  BY <1>1, HolderFacts DEF IInv, TypeOK
<1>3. pc'[p] = IF p = Builder THEN "built" ELSE "reopen"
  BY <1>1 DEF IInv, TypeOK
<1>4. index # NoCollection /\ (p = Builder /\ recreate => index = chunks[p])
  BY <1>1 DEF IInv, Stored
<1>5. TypeOK'
  BY <1>1, <1>2, <1>3, IndexAssumption DEF IInv, TypeOK, Busy
<1>6. Prepared'
  BY <1>1, <1>2, <1>3, IndexAssumption DEF IInv, Prepared, busy, Busy, Processes
<1>7. Stored'
  BY <1>1, <1>2, <1>3, <1>4 DEF IInv, Stored, RebuildStands
<1>8. Undisturbed'
  BY <1>1, <1>2, <1>3, <1>4 DEF IInv, Undisturbed, Processes
<1>9. Filled'
  BY <1>1, <1>2 DEF IInv, Filled
<1> QED BY <1>1, <1>5, <1>6, <1>7, <1>8, <1>9 DEF IInv

LEMMA QueryStep ==
  ASSUME IInv, NEW t \in Threads, Query(t)
  PROVE  IInv'
<1>1. /\ pc[t] = "query" /\ holder' = Free
      /\ UNCHANGED <<file, loaded, index, req, chunks, recreate, rebuilt, disturbed,
                     cut, builds, kills>>
      /\ \/ index = NoCollection /\ pc' = [pc EXCEPT ![t] = "failed"] /\ results' = results
         \/ /\ pc' = [pc EXCEPT ![t] = "done"]
            /\ \E answer : results' = [results EXCEPT ![t] = answer]
  BY DEF Query
<1>2. t \in Processes
  BY DEF Processes
<1>3. /\ holder = t
      /\ \A o \in Processes \ {t} : pc[o] \notin {"ensure", "upload", "close", "query"}
      /\ \A o \in Processes \ {t} : pc'[o] = pc[o]
  BY <1>1, <1>2, HolderFacts DEF IInv, TypeOK
<1>4. pc'[t] \in {"failed", "done"} /\ (pc'[t] = "failed" => index = NoCollection)
  BY <1>1, <1>2 DEF IInv, TypeOK
<1>5. TypeOK'
  BY <1>1, <1>2, <1>3, <1>4, IndexAssumption DEF IInv, TypeOK, Busy
<1>6. results' = [s \in Threads |-> results'[s]]
  BY <1>1 DEF IInv
<1>7. Prepared'
  BY <1>1, <1>3, <1>4 DEF IInv, Prepared, busy, Busy, Processes
<1>8. Stored'
  BY <1>1, <1>3, <1>4 DEF IInv, Stored, RebuildStands
<1>9. Undisturbed'
  BY <1>1, <1>3, <1>4 DEF IInv, Undisturbed, Busy, Processes
<1>10. Filled'
  BY <1>1, <1>3 DEF IInv, Filled
<1> QED BY <1>5, <1>6, <1>7, <1>8, <1>9, <1>10 DEF IInv

LEMMA KillServerStep ==
  ASSUME IInv, KillServer
  PROVE  IInv'
<1>1. /\ kills < MaxKills /\ kills' = kills + 1 /\ loaded' = file
      /\ holder' = IF holder \in Threads THEN Free ELSE holder
      /\ pc' = [p \in Processes |-> IF p \in Threads /\ busy(p) THEN "lost" ELSE pc[p]]
      /\ cut' = (cut \/ filling(Threads))
      /\ UNCHANGED <<file, index, req, chunks, results, recreate, rebuilt, disturbed, builds>>
  BY DEF KillServer
<1>2. /\ \A t \in Threads : pc'[t] \in Busy \cup {"lost"} => pc'[t] = "lost"
      /\ \A t \in Threads : pc'[t] = "failed" => pc[t] = "failed"
      /\ \A p \in Processes \ Threads : pc'[p] = pc[p]
  BY <1>1 DEF busy, Busy, Processes
<1>3. TypeOK'
  <2>1. pc' \in [Processes -> Busy \cup {"idle", "done", "failed", "built", "lost"}]
    BY <1>1 DEF IInv, TypeOK
  <2>2. \A p \in Processes : holder' = p <=> pc'[p] \in {"ensure", "upload", "close", "query"}
    BY <1>1, <1>2, IndexAssumption DEF IInv, TypeOK, Busy
  <2>3. loaded' \in 1..file' /\ kills' \in 0..MaxKills
    BY <1>1, IndexAssumption DEF IInv, TypeOK
  <2> QED BY <1>1, <2>1, <2>2, <2>3 DEF IInv, TypeOK
<1>4. Prepared'
  <2>1. \A t \in Threads : ~busy(t)'
    BY <1>2 DEF busy, Busy
  <2>2. busy(Builder)' <=> busy(Builder)
    BY <1>2, IndexAssumption DEF busy, Processes
  <2> QED BY <1>1, <2>1, <2>2 DEF IInv, Prepared
<1>5. Stored'
  BY <1>1, <1>2 DEF IInv, Stored, RebuildStands, Busy
<1>6. Undisturbed'
  BY <1>1, <1>2 DEF IInv, Undisturbed, Busy
<1>7. Filled'
  <2> SUFFICES ASSUME index # NoCollection, ~cut, ~filling(Threads),
                      \A p \in Processes : pc'[p] # "upload"
               PROVE  index \in Uploads
    BY <1>1 DEF Filled
  <2>1. CASE \A p \in Processes : pc[p] # "upload"
    BY <2>1 DEF IInv, Filled
  <2>2. CASE \E p \in Processes : pc[p] = "upload"
    <3>1. PICK p \in Processes : pc[p] = "upload"
      BY <2>2
    <3>2. p \in Threads /\ index = chunks[p]
      BY <1>2, <3>1 DEF filling
    <3> QED BY <3>1, <3>2, BusyUploads DEF busy, Busy
  <2> QED BY <2>1, <2>2
<1> QED BY <1>1, <1>3, <1>4, <1>5, <1>6, <1>7 DEF IInv

LEMMA KillBuilderStep ==
  ASSUME IInv, KillBuilder
  PROVE  IInv'
<1>1. /\ kills < MaxKills /\ kills' = kills + 1 /\ pc' = [pc EXCEPT ![Builder] = "lost"]
      /\ holder' = IF holder = Builder THEN Free ELSE holder
      /\ cut' = (cut \/ filling({Builder}))
      /\ UNCHANGED <<file, loaded, index, req, chunks, results, recreate, rebuilt, disturbed,
                     builds>>
  BY DEF KillBuilder
<1>2. /\ Builder \in Processes /\ Builder \notin Threads /\ pc'[Builder] = "lost"
      /\ \A p \in Processes \ {Builder} : pc'[p] = pc[p]
  BY <1>1, IndexAssumption DEF IInv, TypeOK, Processes
<1>3. TypeOK'
  BY <1>1, <1>2, IndexAssumption DEF IInv, TypeOK
<1>4. Prepared'
  BY <1>1, <1>2 DEF IInv, Prepared, busy, Busy, Processes
<1>5. Stored'
  BY <1>1, <1>2 DEF IInv, Stored, RebuildStands
<1>6. Undisturbed'
  BY <1>1, <1>2 DEF IInv, Undisturbed, Processes
<1>7. Filled'
  <2> SUFFICES ASSUME index # NoCollection, ~cut, ~filling({Builder}),
                      \A p \in Processes : pc'[p] # "upload"
               PROVE  index \in Uploads
    BY <1>1 DEF Filled
  <2>1. CASE pc[Builder] = "upload"
    <3>1. index = chunks[Builder]
      BY <2>1 DEF filling
    <3> QED BY <1>2, <2>1, <3>1, BusyUploads DEF busy, Busy
  <2>2. CASE pc[Builder] # "upload"
    BY <1>2, <2>2 DEF IInv, Filled
  <2> QED BY <2>1, <2>2
<1> QED BY <1>1, <1>3, <1>4, <1>5, <1>6, <1>7 DEF IInv

-----------------------------------------------------------------------------
(* The theorems.                                                           *)

\* The inductive invariant of the processes and the folder (indexing/qdrant_local.py).
THEOREM InductiveInvariant == Spec => []IInv
<1>1. ASSUME Init PROVE IInv
  <2>1. /\ holder = Free /\ index = NoCollection /\ rebuilt = NoCollection
        /\ \A p \in Processes : pc[p] = "idle"
        /\ Threads \subseteq Processes /\ Builder \in Processes
    BY <1>1 DEF Init, Processes
  <2>2. TypeOK
    <3>1. file \in DOMAIN Corpora /\ loaded \in 1..file /\ builds \in 0..MaxBuilds
          /\ kills \in 0..MaxKills
      BY <1>1, IndexAssumption DEF Init
    <3>2. pc \in [Processes -> Busy \cup {"idle", "done", "failed", "built", "lost"}]
      BY <1>1 DEF Init
    <3>3. \A p \in Processes : holder # p /\ pc[p] \notin {"ensure", "upload", "close", "query"}
      BY <2>1, IndexAssumption
    <3> QED BY <1>1, <2>1, <3>1, <3>2, <3>3 DEF Init, TypeOK
  <2>3. Prepared
    BY <1>1, <2>1 DEF Init, Prepared, busy, Busy
  <2>4. Stored /\ Filled /\ Undisturbed
    BY <2>1 DEF Stored, RebuildStands, Filled, Undisturbed, Busy
  <2> QED BY <1>1, <2>2, <2>3, <2>4 DEF Init, IInv
<1>2. IInv /\ [Next]_vars => IInv'
  <2>1. SUFFICES ASSUME IInv, [Next]_vars PROVE IInv'
    OBVIOUS
  <2>2. CASE Ingest \/ StartBuild \/ KillServer \/ KillBuilder
    BY <2>1, <2>2, IngestStep, StartBuildStep, KillServerStep, KillBuilderStep
  <2>3. CASE \E t \in Threads : StartRequest(t) \/ Query(t)
    BY <2>1, <2>3, StartRequestStep, QueryStep
  <2>4. CASE \E p \in Processes : Open(p) \/ Ensure(p) \/ Upload(p) \/ Close(p)
    BY <2>1, <2>4, OpenStep, EnsureStep, UploadStep, CloseStep
  <2>5. CASE UNCHANGED vars
    BY <2>1, <2>5
       DEF vars, IInv, TypeOK, Prepared, Stored, RebuildStands, Filled, Undisturbed, busy
  <2> QED BY <2>1, <2>2, <2>3, <2>4, <2>5 DEF Next
<1> QED BY <1>1, <1>2, PTL DEF Spec

\* One process has the folder open, the one that is between opening and closing it.
THEOREM TypeCorrect == Spec => []TypeOK
<1>1. IInv => TypeOK
  BY DEF IInv
<1> QED BY <1>1, InductiveInvariant, PTL

\* However requests, builds and kills interleave, the collection holds the first points
\* of one upload, and all of them unless a process is at it or was killed while it was
\* (indexing/qdrant_local.py).
THEOREM NoMixedIndex == Spec => []IndexIsOneUpload
<1>1. ASSUME IInv PROVE IndexIsOneUpload
  <2>1. SUFFICES ASSUME index # NoCollection
                 PROVE  \E upload \in Uploads :
                          /\ DOMAIN index \subseteq DOMAIN upload
                          /\ \A c \in DOMAIN index : index[c] = upload[c]
                          /\ \A c \in DOMAIN upload \ DOMAIN index, d \in DOMAIN index : d < c
                          /\ \/ DOMAIN index = DOMAIN upload
                             \/ \E p \in Processes : pc[p] = "upload" /\ chunks[p] = upload
                             \/ cut
    BY DEF IndexIsOneUpload
  <2>2. \A upload : FirstOf(index, upload) => \A c \in DOMAIN index : index[c] = upload[c]
    BY RestrictFacts DEF FirstOf
  <2>3. CASE cut
    <3>1. PICK upload \in Uploads : FirstOf(index, upload)
      BY <1>1, <2>1 DEF IInv, Stored
    <3> QED BY <2>2, <2>3, <3>1 DEF FirstOf
  <2>4. CASE \E p \in Processes : pc[p] = "upload"
    <3>1. PICK p \in Processes : pc[p] = "upload"
      BY <2>4
    <3>2. FirstOf(index, chunks[p]) /\ chunks[p] \in Uploads
      BY <1>1, <3>1, BusyUploads DEF IInv, Stored, busy, Busy
    <3> QED BY <2>2, <3>1, <3>2 DEF FirstOf
  <2>5. CASE ~cut /\ \A p \in Processes : pc[p] # "upload"
    <3>1. index \in Uploads
      BY <1>1, <2>1, <2>5 DEF IInv, Filled
    <3> QED BY <3>1
  <2> QED BY <2>3, <2>4, <2>5
<1> QED BY <1>1, InductiveInvariant, PTL

\* A finished --recreate build stands until the next one starts to delete it.
THEOREM BuildsStand == Spec => []RebuildStands
<1>1. IInv => RebuildStands
  BY DEF IInv, Stored
<1> QED BY <1>1, InductiveInvariant, PTL

\* Only a request that met another process at the folder fails there.
THEOREM AloneSucceeds == Spec => []LoneRequestSucceeds
<1>1. IInv => LoneRequestSucceeds
  BY DEF IInv, Undisturbed, LoneRequestSucceeds
<1> QED BY <1>1, InductiveInvariant, PTL

-----------------------------------------------------------------------------
(* The store and the retriever.                                            *)

\* For a role that is known, the filter of the store and the access control and scope of
\* the retriever select the same chunks (qdrant_local.py, retrieval/common.py).
LEMMA FilterFacts ==
  ASSUME NEW c, NEW a, a.role \in DOMAIN Clearance
  PROVE  passes_filter(c, a) <=> evaluate_chunk_access(c, a.role) /\ request_allows_chunk(c, a)
BY DEF passes_filter, evaluate_chunk_access, request_allows_chunk, chunk_valid_on

Alike(a, r) ==
  /\ a.query = r.query /\ a.role = r.role /\ a.types = r.types
  /\ a.jurisdiction = r.jurisdiction /\ a.as_of = r.as_of

\* Asked the same, the collection of a whole corpus and one of its candidates alone
\* rank the same points, which are candidates.
LEMMA StoreAgrees ==
  ASSUME NEW corpus, NEW r, NEW a, NEW k, a.role \in DOMAIN Clearance, Alike(a, r),
         NEW found, found = candidates(corpus, r)
  PROVE  /\ query_points(corpus, a, k) = query_points(found, a, k)
         /\ \A ranks \in query_points(corpus, a, k) : DOMAIN ranks \subseteq DOMAIN found
         /\ \A c \in DOMAIN found : found[c] = corpus[c]
<1> DEFINE S == {c \in DOMAIN corpus : /\ evaluate_chunk_access(corpus[c], r.role)
                                       /\ request_allows_chunk(corpus[c], r)}
           key(points, P, tie) == [c \in P |-> <<Similarity[a.query][points[c].text], tie[c]>>]
<1>1. DOMAIN found = S /\ \A c \in S : found[c] = corpus[c]
  BY CandidateFacts, RestrictFacts
<1>2. \A c : passes_filter(c, a) <=> evaluate_chunk_access(c, r.role) /\ request_allows_chunk(c, r)
  BY FilterFacts DEF request_allows_chunk, Alike
<1>3. {c \in DOMAIN corpus : passes_filter(corpus[c], a)} = S
  BY <1>2
<1>4. {c \in DOMAIN found : passes_filter(found[c], a)} = S
  BY <1>1, <1>2
<1>5. query_points(corpus, a, k) = {top(key(corpus, S, tie), k) : tie \in ties(S)}
  BY <1>3 DEF query_points
<1>6. query_points(found, a, k) = {top(key(found, S, tie), k) : tie \in ties(S)}
  BY <1>4 DEF query_points
<1>7. \A tie : key(corpus, S, tie) = key(found, S, tie)
  BY <1>1
<1>8. query_points(corpus, a, k) = query_points(found, a, k)
  <2> HIDE DEF key
  <2> QED BY <1>5, <1>6, <1>7
<1>9. ASSUME NEW ranks \in query_points(corpus, a, k) PROVE DOMAIN ranks \subseteq DOMAIN found
  <2>1. PICK tie : ranks = top(key(corpus, S, tie), k)
    BY <1>5, <1>9
  <2>2. DOMAIN ranks \subseteq DOMAIN key(corpus, S, tie)
    BY <2>1 DEF top
  <2> QED BY <1>1, <2>2
<1> QED BY <1>1, <1>8, <1>9

\* The results depend on the points that were ranked alone.
LEMMA DenseAgrees ==
  ASSUME NEW points, NEW others, NEW r, NEW ranks,
         \A c \in DOMAIN ranks : points[c] = others[c]
  PROVE  dense_results(points, r, ranks) = dense_results(others, r, ranks)
<1> DEFINE Entry(all, c) == [chunk |-> c, source |-> all[c],
                             score |-> Similarity[r.query][all[c].text], exact |-> FALSE]
<1>1. \A c \in DOMAIN ranks : Entry(points, c) = Entry(others, c)
  OBVIOUS
<1>2. /\ dense_results(points, r, ranks) = Results(ranks, [c \in DOMAIN ranks |-> Entry(points, c)])
      /\ dense_results(others, r, ranks) = Results(ranks, [c \in DOMAIN ranks |-> Entry(others, c)])
  BY Zenon DEF dense_results
<1> HIDE DEF Entry
<1>3. [c \in DOMAIN ranks |-> Entry(points, c)] = [c \in DOMAIN ranks |-> Entry(others, c)]
  BY <1>1
<1> QED BY <1>2, <1>3

LEMMA HybridAgrees ==
  ASSUME NEW found, NEW points, NEW others, NEW lexical, NEW dense, NEW r,
         \A c \in DOMAIN dense : points[c] = others[c]
  PROVE  hybrid_results(found, points, lexical, dense, r)
           = hybrid_results(found, others, lexical, dense, r)
<1> DEFINE pool == fused(found, lexical, dense, r)
           Score(all, c) == rerank_score(found, all, lexical, dense, r.query, c)
           Ranked(all) == top([c \in DOMAIN pool |-> <<Score(all, c), 0>>], r.top_k)
           ranks == hybrid_ranks(found, points, lexical, dense, r)
           Entry(all, c) ==
             [chunk |-> c,
              source |-> IF c \in DOMAIN lexical THEN found[c] ELSE all[c],
              score |-> IF r.query \in NamesIdentifier
                          THEN rrf_score(lexical, dense, c) ELSE Score(all, c),
              exact |-> fused_priority(found, lexical, r.query, c) > 0]
<1>1. DOMAIN pool \subseteq DOMAIN lexical \cup DOMAIN dense
  BY DEF fused, top, kept
<1>2. \A c \in DOMAIN pool : Score(points, c) = Score(others, c)
  <2> TAKE c \in DOMAIN pool
  <2>1. c \in DOMAIN lexical \/ c \in DOMAIN dense
    BY <1>1
  <2>2. (IF c \in DOMAIN lexical THEN found[c] ELSE points[c])
          = (IF c \in DOMAIN lexical THEN found[c] ELSE others[c])
    BY <2>1
  <2>3. (IF c \in DOMAIN dense THEN Similarity[r.query][points[c].text] ELSE 0)
          = (IF c \in DOMAIN dense THEN Similarity[r.query][others[c].text] ELSE 0)
    OBVIOUS
  <2> QED BY <2>2, <2>3, Zenon DEF rerank_score
<1> HIDE DEF pool, Score
<1>3. [c \in DOMAIN pool |-> <<Score(points, c), 0>>] = [c \in DOMAIN pool |-> <<Score(others, c), 0>>]
  BY <1>2
<1>4. /\ hybrid_ranks(found, points, lexical, dense, r) =
           IF r.query \in NamesIdentifier
             THEN Restrict(pool, {c \in DOMAIN pool : pool[c] <= r.top_k}) ELSE Ranked(points)
      /\ hybrid_ranks(found, others, lexical, dense, r) =
           IF r.query \in NamesIdentifier
             THEN Restrict(pool, {c \in DOMAIN pool : pool[c] <= r.top_k}) ELSE Ranked(others)
  BY Zenon DEF hybrid_ranks, pool, Score
<1>5. hybrid_ranks(found, others, lexical, dense, r) = ranks
  BY <1>3, <1>4
<1>6. DOMAIN ranks \subseteq DOMAIN pool
  BY <1>4 DEF Restrict, top
<1>7. \A c \in DOMAIN ranks : Entry(points, c) = Entry(others, c)
  BY <1>1, <1>2, <1>6
<1>8. /\ hybrid_results(found, points, lexical, dense, r)
           = Results(ranks, [c \in DOMAIN ranks |-> Entry(points, c)])
      /\ hybrid_results(found, others, lexical, dense, r)
           = Results(ranks, [c \in DOMAIN ranks |-> Entry(others, c)])
  BY <1>5, Zenon DEF hybrid_results, Score
<1> HIDE DEF Entry, ranks
<1>9. [c \in DOMAIN ranks |-> Entry(points, c)] = [c \in DOMAIN ranks |-> Entry(others, c)]
  BY <1>7
<1> QED BY <1>8, <1>9

\* What a thread asks of the store differs from its request in how many points it asks
\* for, and in the date when the request is for hybrid retrieval.
LEMMA AskedFacts ==
  ASSUME NEW r \in Requests, r.method = "dense" \/ r.as_of = NoDate
  PROVE  /\ asked(r).query = r.query /\ asked(r).role = r.role /\ asked(r).types = r.types
         /\ asked(r).jurisdiction = r.jurisdiction /\ asked(r).as_of = r.as_of
         /\ r.method = "dense" => asked(r) = r
         /\ r.method # "dense" => r.method = "hybrid" /\ asked(r) = dense_request(r)
BY RequestsAssumption DEF asked, dense_request

\* What a query over a rebuilt index answers is an answer over the candidates alone.
LEMMA QueryAgrees ==
  ASSUME IInv, NEW t \in Threads, Query(t), pc'[t] = "done", rebuilt = Corpora[loaded],
         req[t].method = "dense" \/ req[t].as_of = NoDate
  PROVE  results'[t] \in memory_response(t)
<1> DEFINE r == req[t]
           a == asked(r)
           corpus == Corpora[loaded]
           found == candidates(corpus, r)
           lexical == lexical_ranks(found, r.query, lexical_limit(r))
<1>1. t \in Processes /\ r \in Requests /\ loaded \in DOMAIN Corpora
  <2>1. file \in 1..Len(Corpora) /\ loaded \in 1..file
    BY IndexAssumption DEF IInv, TypeOK
  <2> QED BY <2>1, IndexAssumption DEF IInv, TypeOK, Processes
<1>2. pc[t] = "query" /\ chunks[t] = found /\ asks_store(found, a)
  BY DEF Query, IInv, Prepared, busy, Busy
<1>3. corpus \in Uploads
  BY <1>1 DEF Uploads
<1>4. index = corpus /\ index # NoCollection
  <2>1. corpus # NoCollection
    BY <1>3, UploadFacts
  <2> QED BY <2>1 DEF IInv, Stored, RebuildStands
<1>5. PICK ranks \in query_points(index, a, a.top_k) :
        results' = [results EXCEPT ![t] = Answered(t, ranks)]
  <2>1. pc'[t] # "failed"
    OBVIOUS
  <2> QED BY <1>4 DEF Query
<1>6. results'[t] = Answered(t, ranks)
  BY <1>5 DEF IInv
<1>7. /\ a.query = r.query /\ a.role = r.role /\ a.types = r.types
      /\ a.jurisdiction = r.jurisdiction /\ a.as_of = r.as_of
      /\ r.method = "dense" => a = r
      /\ r.method # "dense" => r.method = "hybrid" /\ a = dense_request(r)
  BY <1>1, AskedFacts
<1> HIDE DEF a, found
<1>8. a.role \in DOMAIN Clearance
  BY <1>2 DEF asks_store
<1>9. /\ ranks \in query_points(found, a, a.top_k)
      /\ DOMAIN ranks \subseteq DOMAIN found
      /\ \A c \in DOMAIN found : found[c] = index[c]
  <2>1. found = candidates(corpus, r)
    BY DEF found
  <2> HIDE DEF r, corpus
  <2>2. Alike(a, r)
    BY <1>7 DEF Alike
  <2>3. /\ query_points(corpus, a, a.top_k) = query_points(found, a, a.top_k)
        /\ \A given \in query_points(corpus, a, a.top_k) : DOMAIN given \subseteq DOMAIN found
        /\ \A c \in DOMAIN found : found[c] = corpus[c]
    BY <1>8, <2>1, <2>2, StoreAgrees
  <2> QED BY <1>4, <1>5, <2>3
<1>10. ranks \in dense_rankings(found, a, a.top_k)
  BY <1>2, <1>9 DEF dense_rankings
<1>11. CASE r.method = "dense"
  <2>1. results'[t] = dense_results(index, r, ranks)
    BY <1>6, <1>11 DEF Answered
  <2>2. results'[t] = dense_results(found, r, ranks)
    BY <1>9, <2>1, DenseAgrees
  <2>3. memory_response(t) = {dense_results(found, r, given) : given \in dense_rankings(found, r, r.top_k)}
    BY <1>11 DEF memory_response, responses, found
  <2> QED BY <1>7, <1>10, <1>11, <2>2, <2>3
<1>12. CASE r.method = "hybrid"
  <2>1. results'[t] = hybrid_results(found, index, lexical, ranks, r)
    BY <1>2, <1>6, <1>12 DEF Answered
  <2>2. results'[t] = hybrid_results(found, found, lexical, ranks, r)
    BY <1>9, <2>1, HybridAgrees
  <2>3. memory_response(t) =
          {hybrid_results(found, found, lexical, given, r) :
             given \in dense_rankings(found, dense_request(r), dense_request(r).top_k)}
    BY <1>12 DEF memory_response, responses, found
  <2> QED BY <1>7, <1>10, <1>12, <2>2, <2>3
<1> QED BY <1>7, <1>11, <1>12

\* Dense retrieval from an index that was rebuilt from the corpus of the server, and hybrid
\* retrieval when no date is asked for, answer what an index in memory would have: what
\* the store filters is what access control and scope select.
THEOREM RebuiltIndexAgrees == Spec => RebuiltAgreesWithMemory
<1>1. ASSUME IInv, [Next]_vars,
             NEW t \in Threads, pc[t] = "query", pc'[t] = "done", rebuilt = Corpora[loaded],
             req[t].method = "dense" \/ req[t].as_of = NoDate
      PROVE  results'[t] \in memory_response(t)
  <2>1. t \in Processes /\ pc \in [Processes -> Busy \cup {"idle", "done", "failed", "built", "lost"}]
    BY <1>1 DEF IInv, TypeOK, Processes
  <2>2. CASE Query(t)
    BY <1>1, <2>2, QueryAgrees
  <2>3. ~(Ingest \/ StartBuild \/ KillServer \/ KillBuilder)
    BY <1>1, <2>1, IndexAssumption DEF Ingest, StartBuild, KillServer, KillBuilder, busy, Busy
  <2>4. \A u \in Threads : ~StartRequest(u) /\ (Query(u) => u = t)
    BY <1>1, <2>1 DEF StartRequest, Query
  <2>5. \A p \in Processes : ~(Open(p) \/ Ensure(p) \/ Upload(p) \/ Close(p))
    BY <1>1, <2>1 DEF Open, Ensure, Upload, Close
  <2>6. ~UNCHANGED vars
    BY <1>1 DEF vars
  <2> QED BY <1>1, <2>2, <2>3, <2>4, <2>5, <2>6 DEF Next
<1>2. IInv /\ [Next]_vars =>
        [\A t \in Threads :
           (/\ pc[t] = "query" /\ pc'[t] = "done"
            /\ rebuilt = Corpora[loaded]
            /\ req[t].method = "dense" \/ req[t].as_of = NoDate)
             => results'[t] \in memory_response(t)]_vars
  BY <1>1
<1> QED BY <1>2, InductiveInvariant, PTL DEF Spec, RebuiltAgreesWithMemory
=============================================================================
