----------------------------- MODULE CorpusBuild -----------------------------
(***************************************************************************)
(* The scripts that make the corpus: the download, which verifies or       *)
(* writes the lock file, the parser of the raw files, and the chunker,     *)
(* which reads the parsed documents and the raw files once more.           *)
(*                                                                         *)
(* One script runs at a time.  Every file is rewritten in place, so a run  *)
(* that is killed leaves new files beside old ones, and the file that it   *)
(* was writing cut short.                                                  *)
(***************************************************************************)
EXTENDS Integers, SequencesExt

CONSTANTS
  Configs,         \* what --config may hold: sequences of entries, laws first
  TrackedLocks,    \* the lock files that a checkout may have: rows, or Absent
  Revisions,       \* what a source may hold, one after another
  Unreachable,     \* a source answers with an HTTPError or an URLError
  Unusable,        \* it answers with something that is no law, or no ruling
  Hangs,           \* it stops answering while its answer is read
  Absent, Broken,  \* a file that is not there, and one that its reader rejects
  MaxRuns, MaxKills, MaxChanges

-----------------------------------------------------------------------------
(* Entries of a configuration, raw files, rows of a manifest or a lock.    *)

Entries == UNION {Range(c) : c \in Configs}
url(e) == <<e.type, e.id, e.version>>
incomplete(e) == e.id = "" \/ (e.type = "law" /\ e.version = "")
Urls == {url(e) : e \in {e \in Entries : ~incomplete(e)}}

\* A law is saved under its name, a ruling under its ECLI.
path(e) == IF e.type = "law" THEN <<"laws", e.name>> ELSE <<"cases", e.id>>
Paths(type) == {path(e) : e \in {e \in Entries : e.type = type /\ ~incomplete(e)}}
RawFiles == Paths("law") \cup Paths("case")

\* What is left of a raw file: all of it, a part, or the head before any text.
Kept == {"all", "part", "head"}
Contents == [url : Urls, revision : Revisions, kept : Kept]
content(u, revision) == [url |-> u, revision |-> revision, kept |-> "all"]

error_row(e) == [key |-> url(e), status |-> "error", path |-> Absent, sha256 |-> Absent]
ok_row(e, saved) == [key |-> url(e), status |-> "ok", path |-> path(e), sha256 |-> saved]
AllOk(rs) == \A i \in DOMAIN rs : rs[i].status = "ok"

NoLock == <<>>

\* Configurations and lock files are lists, of laws and rulings; what a source answers
\* when it has none is no revision, and a lock file that was written is neither missing
\* nor unreadable.
ASSUME ScriptsAssumption ==
  /\ {MaxRuns, MaxKills, MaxChanges} \subseteq Nat
  /\ \A list \in Configs \cup (TrackedLocks \ {Absent}) : list \in Seq(Range(list))
  /\ \A e \in Entries : e.type \in {"law", "case"}
  /\ {Unreachable, Unusable, Hangs} \cap Revisions = {}
  /\ \A c \in Configs : \A saved \in [DOMAIN c -> Contents] :
       [i \in DOMAIN c |-> ok_row(c[i], saved[i])] \notin {Absent, Broken}

\* A slip, for the mutants: the version of a ruling is null in the lock file, not "".
IndexWithNull(lock_rows) ==
  LET key(r) == IF r.key[3] = "" THEN <<r.key[1], r.key[2], "null">> ELSE r.key
  IN [k \in {key(lock_rows[i]) : i \in DOMAIN lock_rows} |->
       Last(SelectSeq(lock_rows, LAMBDA r : key(r) = k)).sha256]

\* Of two rows for one source, the later one counts.
last_row(lock_rows, k) ==
  lock_rows[CHOOSE i \in DOMAIN lock_rows :
    lock_rows[i].key = k /\ \A j \in DOMAIN lock_rows : lock_rows[j].key = k => j <= i]

build_lock_index(lock_rows) ==
  [k \in {lock_rows[i].key : i \in DOMAIN lock_rows} |-> last_row(lock_rows, k).sha256]

\* A slip, for the mutants: any content of an entry in the lock file is verified.
VerifyPresence(r, lock_index) ==
  IF r.key \in DOMAIN lock_index THEN r ELSE [r EXCEPT !.status = "mismatch"]

verify_against_lock(r, lock_index) ==
  IF r.key \in DOMAIN lock_index /\ lock_index[r.key] = r.sha256
  THEN r ELSE [r EXCEPT !.status = "mismatch"]

-----------------------------------------------------------------------------
VARIABLES
  sources,    \* what each source answers
  raw,        \* data/raw: a content for each file
  manifest, lock,
  jsonl,      \* data/parsed and data/chunks: a sequence of records for each file
  pc,
  args,       \* of the download, and the lock that it has read
  rows,       \* the manifest rows of the download under way
  writes,     \* the files that the parser or the chunker has yet to write
  exit,       \* the script that ended last, and how
  checked,    \* history: the last download ended, and agreed with the lock
  build,      \* history: what was made of the raw files as they are
  relocked,   \* history: the configuration of the lock, if no source has changed since
  still,      \* history: no source has changed since the download began
  runs, kills, changes

disk == <<raw, manifest, lock, jsonl>>
history == <<checked, build, relocked, still>>
bounds == <<runs, kills, changes>>
vars == <<sources, disk, pc, args, rows, writes, exit, history, bounds>>

ParsedFiles == {"laws.jsonl", "cases.jsonl", "documents.jsonl"}
ChunkFiles == {"laws_chunks.jsonl", "case_chunks.jsonl", "legal_chunks.jsonl"}

Init ==
  /\ sources = [u \in Urls |-> CHOOSE r \in Revisions : \A s \in Revisions : r <= s]
  /\ raw = [p \in RawFiles |-> Absent]
  /\ manifest = Absent /\ lock \in TrackedLocks
  /\ jsonl = [f \in ParsedFiles \cup ChunkFiles |-> Absent]
  /\ pc = "idle" /\ rows = <<>> /\ writes = <<>>
  /\ args = [config |-> <<>>, write_lock |-> FALSE, lock_index |-> NoLock]
  /\ exit = [script |-> "none", how |-> "none"]
  /\ checked = [ended |-> FALSE, verified |-> FALSE]
  /\ build = "none" /\ relocked = <<>> /\ still = TRUE
  /\ runs = 0 /\ kills = 0 /\ changes = 0

SourceChanges ==
  /\ changes < MaxChanges
  /\ changes' = changes + 1
  /\ \E u \in Urls, a \in Revisions \cup {Unreachable, Unusable, Hangs} :
       a # sources[u] /\ sources' = [sources EXCEPT ![u] = a]
  /\ relocked' = <<>> /\ still' = FALSE
  /\ UNCHANGED <<disk, pc, args, rows, writes, exit, checked, build, runs, kills>>

Begins(script) == pc = "idle" /\ runs < MaxRuns /\ runs' = runs + 1

\* The process is gone, and with it everything but the files.
Ends(script, how) ==
  /\ pc' = "idle" /\ rows' = <<>> /\ writes' = <<>>
  /\ exit' = [script |-> script, how |-> how]

-----------------------------------------------------------------------------
(* download_legal_demo_data.py                                             *)

StartDownload(config, write_lock) ==
  /\ Begins("download")
  /\ LET reads == lock # Absent /\ ~write_lock
     IN IF reads /\ lock = Broken
          THEN Ends("download", "raised") /\ UNCHANGED <<args, history>>
          ELSE /\ args' = [config |-> config, write_lock |-> write_lock,
                           lock_index |-> IF reads THEN build_lock_index(lock) ELSE NoLock]
               /\ pc' = "download"
               /\ checked' = [ended |-> FALSE, verified |-> FALSE]
               /\ build' = "none" /\ still' = TRUE
               /\ UNCHANGED <<rows, writes, exit, relocked>>
  /\ UNCHANGED <<sources, disk, kills, changes>>

entry == args.config[Len(rows) + 1]
fetching == pc = "download" /\ Len(rows) < Len(args.config)

\* An incomplete entry is not asked for, and its row is that of a failed fetch.
answer == IF incomplete(entry) THEN Unreachable ELSE sources[url(entry)]

FetchFails ==
  /\ fetching /\ answer \in {Unreachable, Unusable}
  /\ rows' = Append(rows, error_row(entry))
  /\ UNCHANGED <<sources, disk, pc, args, writes, exit, history, bounds>>

\* A timeout while the answer is read is caught nowhere.
FetchRaises ==
  /\ fetching /\ answer = Hangs
  /\ Ends("download", "raised")
  /\ UNCHANGED <<sources, disk, args, history, bounds>>

saved_row(e, saved) ==
  IF args.lock_index # NoLock
  THEN verify_against_lock(ok_row(e, saved), args.lock_index) ELSE ok_row(e, saved)

\* A slip, for the mutants: a file that is there is not written again.
SaveIfAbsent ==
  /\ fetching /\ answer \in Revisions
  /\ LET fetched == content(url(entry), answer)
     IN /\ raw' = IF raw[path(entry)] = Absent THEN [raw EXCEPT ![path(entry)] = fetched] ELSE raw
        /\ rows' = Append(rows, saved_row(entry, fetched))
  /\ UNCHANGED <<sources, manifest, lock, jsonl, pc, args, writes, exit, history, bounds>>

\* The file is replaced before its hash is compared with the lock.
Save ==
  /\ fetching /\ answer \in Revisions
  /\ LET fetched == content(url(entry), answer)
     IN /\ raw' = [raw EXCEPT ![path(entry)] = fetched]
        /\ rows' = Append(rows, saved_row(entry, fetched))
  /\ UNCHANGED <<sources, manifest, lock, jsonl, pc, args, writes, exit, history, bounds>>

finishing == pc = "download" /\ Len(rows) = Len(args.config)

WriteManifest ==
  /\ finishing
  /\ manifest' = rows
  /\ checked' = [ended |-> TRUE,
                 verified |-> AllOk(rows) /\ ~args.write_lock /\ args.lock_index # NoLock]
  /\ IF args.write_lock /\ AllOk(rows)
       THEN pc' = "lock" /\ UNCHANGED <<rows, writes, exit>>
       ELSE Ends("download", IF AllOk(rows) THEN "success" ELSE "failure")
  /\ UNCHANGED <<sources, raw, lock, jsonl, args, build, relocked, still, bounds>>

WriteLock ==
  /\ pc = "lock"
  /\ lock' = rows
  /\ relocked' = IF still THEN args.config ELSE <<>>
  /\ Ends("download", "success")
  /\ UNCHANGED <<sources, raw, manifest, jsonl, args, checked, build, still, bounds>>

-----------------------------------------------------------------------------
(* parse_raw_data.py and build_chunks.py.  A raw file stands for the one   *)
(* document and the one chunk that are made of it; a document is named by  *)
(* what its file says, not by the name of the file.                        *)

there(type) == {p \in Paths(type) : raw[p] # Absent}

\* A law that ends before its first article has no document.
parse(p) == [doc_id |-> <<raw[p].url[1], raw[p].url[2]>>, source_path |-> p, parsed |-> raw[p]]
documents(type) ==
  LET readable == SetToSeq({p \in there(type) : raw[p].kept # "head"})
  IN [i \in DOMAIN readable |-> parse(readable[i])]

\* A ruling without text is no document.
unparsable ==
  \/ \E p \in there("law") \cup there("case") : raw[p] = Broken
  \/ \E p \in there("case") : raw[p].kept = "head"

\* Of the documents of one name, the first is kept.
merge_jsonl_files(docs) ==
  LET seen(merged, d) == \E i \in DOMAIN merged : merged[i].doc_id = d.doc_id
      written[n \in 0..Len(docs)] ==
        IF n = 0 THEN <<>>
        ELSE IF seen(written[n - 1], docs[n]) THEN written[n - 1]
        ELSE Append(written[n - 1], docs[n])
  IN written[Len(docs)]

writing(file, data) == [file |-> file, data |-> data]

StartParse ==
  /\ Begins("parse")
  /\ IF unparsable
       THEN Ends("parse", "raised") /\ UNCHANGED build
       ELSE /\ pc' = "parse" /\ build' = "none"
            /\ writes' = <<writing("laws.jsonl", documents("law")),
                           writing("cases.jsonl", documents("case")),
                           writing("documents.jsonl",
                                   merge_jsonl_files(documents("law") \o documents("case")))>>
            /\ UNCHANGED <<rows, exit>>
  /\ UNCHANGED <<sources, disk, args, checked, relocked, still, kills, changes>>

unloadable(file) == jsonl[file] \in {Absent, Broken}

\* The chunkers open the raw file again; what they do not find there they take
\* from the document, and so do they for an article without lids.
texts(d) == IF raw[d.source_path].kept = "head" THEN {d.parsed} ELSE {d.parsed, raw[d.source_path]}
chunk(d, text) == [doc_id |-> d.doc_id, valid |-> d.parsed, text |-> text]
build_chunks(docs) ==
  {[i \in DOMAIN docs |-> chunk(docs[i], choice[i])] :
     choice \in {c \in [DOMAIN docs -> UNION {texts(docs[i]) : i \in DOMAIN docs}] :
                   \A i \in DOMAIN docs : c[i] \in texts(docs[i])}}

lost(docs) == \E i \in DOMAIN docs : raw[docs[i].source_path] = Broken

StartChunk ==
  /\ Begins("chunk")
  /\ LET laws == jsonl["laws.jsonl"]
         cases == jsonl["cases.jsonl"]
     IN IF unloadable("laws.jsonl") \/ unloadable("cases.jsonl") \/ lost(laws) \/ lost(cases)
          THEN Ends("chunk", "raised") /\ UNCHANGED build
          ELSE /\ \E law_chunks \in build_chunks(laws), case_chunks \in build_chunks(cases) :
                    writes' = <<writing("laws_chunks.jsonl", law_chunks),
                                writing("case_chunks.jsonl", case_chunks),
                                writing("legal_chunks.jsonl", law_chunks \o case_chunks)>>
               /\ pc' = "chunk"
               /\ build' = IF build = "chunked" THEN "parsed" ELSE build
               /\ UNCHANGED <<rows, exit>>
  /\ UNCHANGED <<sources, disk, args, checked, relocked, still, kills, changes>>

write == Head(writes)

Written ==
  IF Len(writes) > 1
  THEN writes' = Tail(writes) /\ UNCHANGED <<pc, rows, exit, build>>
  ELSE /\ Ends(pc, "success")
       /\ build' = IF pc = "parse" THEN "parsed" ELSE IF build = "parsed" THEN "chunked" ELSE build

\* A slip, for the mutants: the files are opened to append.
AppendNext ==
  /\ pc \in {"parse", "chunk"}
  /\ jsonl' = [jsonl EXCEPT ![write.file] = IF unloadable(write.file) THEN write.data ELSE @ \o write.data]
  /\ Written
  /\ UNCHANGED <<sources, raw, manifest, lock, args, checked, relocked, still, bounds>>

WriteNext ==
  /\ pc \in {"parse", "chunk"}
  /\ jsonl' = [jsonl EXCEPT ![write.file] = write.data]
  /\ Written
  /\ UNCHANGED <<sources, raw, manifest, lock, args, checked, relocked, still, bounds>>

-----------------------------------------------------------------------------
(* A script may be killed between two steps, and while it writes a file.   *)

Kill ==
  /\ pc # "idle" /\ kills < MaxKills
  /\ kills' = kills + 1
  /\ Ends(pc, "killed")
  /\ UNCHANGED <<sources, args, checked, build, still, runs, changes>>

KillBetween == Kill /\ UNCHANGED <<disk, relocked>>

KillInRaw ==
  /\ fetching /\ answer \in Revisions
  /\ Kill
  /\ \E left \in {Broken} \cup {[content(url(entry), answer) EXCEPT !.kept = k] : k \in {"part", "head"}} :
       raw' = [raw EXCEPT ![path(entry)] = left]
  /\ UNCHANGED <<manifest, lock, jsonl, relocked>>

KillInManifest ==
  /\ finishing /\ Kill
  /\ manifest' = Broken
  /\ UNCHANGED <<raw, lock, jsonl, relocked>>

KillInLock ==
  /\ pc = "lock" /\ Kill
  /\ lock' = Broken /\ relocked' = <<>>
  /\ UNCHANGED <<raw, manifest, jsonl>>

\* The last line is cut, or the file ends between two lines.
KillInLines ==
  /\ pc \in {"parse", "chunk"} /\ write.data # <<>>
  /\ Kill
  /\ \E left \in {Broken} \cup {SubSeq(write.data, 1, n) : n \in 0..Len(write.data) - 1} :
       jsonl' = [jsonl EXCEPT ![write.file] = left]
  /\ UNCHANGED <<raw, manifest, lock, relocked>>

Next ==
  \/ SourceChanges
  \/ \E config \in Configs, write_lock \in BOOLEAN : StartDownload(config, write_lock)
  \/ FetchFails \/ FetchRaises \/ Save \/ WriteManifest \/ WriteLock
  \/ StartParse \/ StartChunk \/ WriteNext
  \/ KillBetween \/ KillInRaw \/ KillInManifest \/ KillInLock \/ KillInLines

Spec == Init /\ [][Next]_vars

-----------------------------------------------------------------------------
(* Properties.                                                             *)

\* The entry that was saved last under a name: two laws of one name share a file.
LastAt(config, i) == \A j \in DOMAIN config : j > i => path(config[j]) # path(config[i])

\* When a download that checks a lock file exits with success, the raw files are
\* those that the lock names (main, verify_against_lock): no entry failed, and none
\* was replaced by other bytes, whatever was killed or changed before.
SuccessIsVerified ==
  checked.verified =>
    \A i \in DOMAIN args.config : LastAt(args.config, i) =>
      \E j \in DOMAIN lock :
        lock[j].key = url(args.config[i]) /\ lock[j].sha256 = raw[path(args.config[i])]

\* Until the next download begins, the manifest of one that ended tells what is on
\* disk, for the entries that did not match the lock, too (main, write_file).
ManifestTellsDisk ==
  checked.ended =>
    \A i \in DOMAIN manifest :
      (manifest[i].path # Absent /\ \A j \in DOMAIN manifest : j > i => manifest[j].path # manifest[i].path)
        => raw[manifest[i].path] = manifest[i].sha256

\* A download of the configuration that the lock was written for passes the check as
\* long as the sources are what they were: what --write-lock writes, the check of the
\* next run can read, rulings without a version among it (main, build_lock_index).
RelockVerifies ==
  (pc = "idle" /\ exit.script = "download" /\ relocked # <<>> /\ args.config = relocked /\ ~args.write_lock)
    => exit.how \in {"success", "killed"}

\* When the raw files were parsed and then chunked, and no download began meanwhile, the
\* chunks that are served are those of the raw files, each one once, and text and
\* validity of a chunk are of one content, whatever an earlier killed script
\* left in the files (export_chunk_sets, build_chunk_record); and the merged documents
\* name each document once (merge_jsonl_files).
BuildMatchesDisk ==
  build = "chunked" =>
    LET parsed == {p \in there("law") \cup there("case") : raw[p].kept # "head"}
        served == jsonl["legal_chunks.jsonl"]
        merged == jsonl["documents.jsonl"]
    IN /\ ToSet(served) = {chunk(parse(p), raw[p]) : p \in parsed}
       /\ \A c \in ToSet(served) :
            Cardinality({i \in DOMAIN served : served[i] = c})
              = Cardinality({p \in parsed : chunk(parse(p), raw[p]) = c})
       /\ {merged[i].doc_id : i \in DOMAIN merged} = {parse(p).doc_id : p \in parsed}
       /\ \A i, j \in DOMAIN merged : merged[i].doc_id = merged[j].doc_id => i = j
=============================================================================
