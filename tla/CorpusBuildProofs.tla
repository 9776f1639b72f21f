-------------------------- MODULE CorpusBuildProofs --------------------------
(***************************************************************************)
(* What the download and the build of the corpus guarantee, for every      *)
(* configuration and lock file, however many runs, kills and changes of a  *)
(* source there are.                                                       *)
(*                                                                         *)
(* The argument for the download follows the rows.  While it runs, the     *)
(* last row of a file tells the bytes of the file, and a row that is ok,   *)
(* the bytes that the lock asks for; nothing writes a raw file or the lock *)
(* between the end of one download and the beginning of the next.          *)
(*                                                                         *)
(* That for the build follows the writings: the files that are written     *)
(* already hold what is made of the raw files, and the others come next.   *)
(* What is made of them is compared by listing the raw files: a list of    *)
(* all of them gives the merged documents and the served chunks.           *)
(***************************************************************************)
EXTENDS CorpusBuild, FiniteSetTheorems, WellFoundedInduction, TLAPS

Keys == {url(e) : e \in Entries}
Row == [key : Keys, status : {"ok", "mismatch"}, path : RawFiles, sha256 : Contents]
       \cup [key : Keys, status : {"error"}, path : {Absent}, sha256 : {Absent}]

IsLock(l) == Len(l) \in Nat /\ DOMAIN l = 1..Len(l)

\* The types of what the download works with.
Typed ==
  /\ raw = [p \in RawFiles |-> raw[p]]
  /\ pc \in {"idle", "download", "lock", "parse", "chunk"}
  /\ args.config \in Configs \cup {<<>>} /\ args.write_lock \in BOOLEAN
  /\ rows \in Seq(Row)
  /\ lock \notin {Absent, Broken} => IsLock(lock)

downloading == pc \in {"download", "lock"}

\* What the download has read: the lock, unless it is to be written.
Reading ==
  /\ IF downloading THEN args.config \in Configs ELSE rows = <<>>
  /\ pc = "download" =>
       /\ ~checked.ended
       /\ lock # Absent /\ ~args.write_lock => lock # Broken
       /\ args.lock_index = IF lock # Absent /\ ~args.write_lock
                            THEN build_lock_index(lock) ELSE NoLock
  /\ pc = "lock" => args.write_lock /\ args.lock_index = NoLock
  /\ pc = "lock" => Len(rows) = Len(args.config) /\ AllOk(rows)
  /\ checked.verified => checked.ended /\ ~args.write_lock

\* A row is about its entry.  One that was fetched tells what the source held, which is
\* what it holds if it has not changed; one that is ok is what the lock says.
RowTells(r, e) ==
  \/ r = error_row(e)
  \/ /\ ~incomplete(e) /\ r.key = url(e) /\ r.path = path(e) /\ r.sha256 \in Contents
     /\ r.status \in {"ok", "mismatch"}
     /\ args.lock_index = NoLock => r.status = "ok"
     /\ args.lock_index # NoLock /\ r.status = "ok" =>
          url(e) \in DOMAIN args.lock_index /\ args.lock_index[url(e)] = r.sha256
     /\ still => sources[url(e)] \in Revisions /\ r.sha256 = content(url(e), sources[url(e)])

RowsTell ==
  downloading =>
    /\ Len(rows) <= Len(args.config)
    /\ \A i \in DOMAIN rows : RowTells(rows[i], args.config[i])

\* The last row of a file tells what is in it.
TellsDisk(rs, files) ==
  \A i \in DOMAIN rs :
    (rs[i].status # "error" /\ \A j \in DOMAIN rs : j > i => rs[j].path # rs[i].path)
      => files[rs[i].path] = rs[i].sha256

\* The lock that was written for a configuration holds what the sources hold.
LockHolds ==
  relocked # <<>> =>
    /\ relocked \in Configs /\ lock \notin {Absent, Broken}
    /\ DOMAIN lock = DOMAIN relocked
    /\ \A i \in DOMAIN relocked :
         LET u == url(relocked[i])
         IN /\ ~incomplete(relocked[i]) /\ sources[u] \in Revisions
            /\ lock[i].key = u /\ lock[i].sha256 = content(u, sources[u])

\* A download of that configuration finds every source as the lock has it.
Agreeing ==
  (relocked # <<>> /\ args.config = relocked /\ ~args.write_lock /\ pc = "download")
    => args.lock_index # NoLock /\ AllOk(rows)

IInv ==
  /\ Typed /\ Reading /\ RowsTell /\ (downloading => TellsDisk(rows, raw)) /\ LockHolds /\ Agreeing
  /\ SuccessIsVerified /\ ManifestTellsDisk /\ RelockVerifies

-----------------------------------------------------------------------------
(* Facts about the operators.                                              *)

\* A nonempty set of natural numbers has a least element.
LEMMA LeastNatural ==
  ASSUME NEW S, S \subseteq Nat, S # {}
  PROVE  \E n \in S : \A m \in S : n <= m
<1> DEFINE R == {x \in Nat \X Nat : x[1] < x[2]}
<1>1. IsWellFoundedOn(R, Nat)
  BY NatLessThanWellFounded DEF OpToRel
<1>2. PICK n \in S : \A m \in S : ~(<<m, n>> \in R)
  BY <1>1, WFMin
<1>3. \A m \in S : ~(m < n)
  BY <1>2
<1> QED BY <1>3

\* Entries of a configuration, and where they come from and go to.
LEMMA ConfigFacts ==
  ASSUME NEW c \in Configs
  PROVE  /\ Len(c) \in Nat /\ DOMAIN c = 1..Len(c)
         /\ \A i \in DOMAIN c : c[i] \in Entries
<1>1. c \in Seq(Range(c))
  BY ScriptsAssumption
<1>2. \A i \in DOMAIN c : c[i] \in Range(c)
  BY DEF Range
<1>3. Range(c) \subseteq Entries
  BY DEF Entries
<1> QED BY <1>1, <1>2, <1>3

LEMMA EntryFacts ==
  ASSUME NEW e \in Entries, ~incomplete(e)
  PROVE  path(e) \in RawFiles /\ url(e) \in Urls
<1>1. e.type \in {"law", "case"}
  BY ScriptsAssumption
<1> QED BY <1>1 DEF RawFiles, Paths, Urls

\* What the index of a lock says of a source, a row of the lock says, and the index has
\* every source of the lock (build_lock_index).
LEMMA LockIndexFacts ==
  ASSUME NEW l, IsLock(l)
  PROVE  /\ \A j \in DOMAIN l : l[j].key \in DOMAIN build_lock_index(l)
         /\ \A k \in DOMAIN build_lock_index(l) :
              \E j \in DOMAIN l : l[j].key = k /\ build_lock_index(l)[k] = l[j].sha256
<1>1. DOMAIN build_lock_index(l) = {l[j].key : j \in DOMAIN l}
  BY DEF build_lock_index
<1>2. ASSUME NEW k \in DOMAIN build_lock_index(l)
      PROVE  \E j \in DOMAIN l : l[j].key = k /\ build_lock_index(l)[k] = l[j].sha256
  <2> DEFINE of == {j \in DOMAIN l : l[j].key = k}
             from == {Len(l) - j : j \in of}
             LastOf(i) == l[i].key = k /\ \A j \in DOMAIN l : l[j].key = k => j <= i
  <2>1. of # {} /\ of \subseteq 1..Len(l) /\ Len(l) \in Nat
    BY <1>1 DEF IsLock
  <2>2. from \subseteq Nat /\ from # {}
    BY <2>1
  <2>3. PICK n \in from : \A m \in from : n <= m
    BY <2>2, LeastNatural
  <2>4. PICK i \in of : n = Len(l) - i
    BY <2>3
  <2>5. \A j \in of : j <= i
    <3> TAKE j \in of
    <3>1. Len(l) - i <= Len(l) - j
      BY <2>3, <2>4
    <3> QED BY <2>1, <3>1
  <2>6. i \in DOMAIN l /\ LastOf(i)
    BY <2>5
  <2>7. last_row(l, k) = l[CHOOSE h \in DOMAIN l : LastOf(h)]
    BY DEF last_row
  <2>8. /\ (CHOOSE h \in DOMAIN l : LastOf(h)) \in DOMAIN l
        /\ LastOf(CHOOSE h \in DOMAIN l : LastOf(h))
    <3> HIDE DEF LastOf
    <3> QED BY <2>6
  <2>9. build_lock_index(l)[k] = last_row(l, k).sha256
    BY <1>1 DEF build_lock_index
  <2> QED BY <2>7, <2>8, <2>9
<1> QED BY <1>1, <1>2

\* A row that is appended is the last of its file: it tells the bytes that were written
\* with it, and the rows before it what they told of the other files.
LEMMA AppendTells ==
  ASSUME NEW rs \in Seq(Row), NEW r \in Row, NEW files, DOMAIN files = RawFiles,
         TellsDisk(rs, files), NEW others,
         others = IF r.status = "error" THEN files ELSE [files EXCEPT ![r.path] = r.sha256]
  PROVE  TellsDisk(Append(rs, r), others)
<1> DEFINE all == Append(rs, r)
           Later(list, i) == \A j \in DOMAIN list : j > i => list[j].path # list[i].path
<1>1. /\ Len(rs) \in Nat /\ DOMAIN rs = 1..Len(rs) /\ DOMAIN all = 1..(Len(rs) + 1)
      /\ \A i \in DOMAIN rs : all[i] = rs[i] /\ all[Len(rs) + 1] = r
  OBVIOUS
<1>2. ASSUME NEW i \in DOMAIN all, all[i].status # "error", Later(all, i)
      PROVE  others[all[i].path] = all[i].sha256
  <2>1. CASE i = Len(rs) + 1
    <3>1. all[i] = r
      BY <2>1
    <3>2. r.path \in RawFiles
      BY <1>2, <3>1 DEF Row
    <3> QED BY <1>2, <3>1, <3>2
  <2>2. CASE i \in DOMAIN rs
    <3>1. all[i] = rs[i] /\ rs[i] \in Row
      BY <1>1, <2>2
    <3>2. Later(rs, i)
      BY <1>1, <1>2, <2>2
    <3>3. files[rs[i].path] = rs[i].sha256
      BY <1>2, <2>2, <3>1, <3>2 DEF TellsDisk
    <3>4. r.path # rs[i].path
      <4>1. Len(rs) + 1 > i /\ Len(rs) + 1 \in DOMAIN all /\ all[Len(rs) + 1] = r
        BY <1>1, <2>2
      <4> QED BY <1>2, <3>1, <4>1
    <3>5. rs[i].path \in RawFiles
      BY <1>2, <3>1 DEF Row
    <3> QED BY <3>1, <3>3, <3>4, <3>5
  <2> QED BY <1>1, <2>1, <2>2
<1>3. TellsDisk(all, others)
  <2> HIDE DEF all
  <2> QED BY <1>2 DEF TellsDisk
<1> QED BY <1>3

\* The row of an entry that failed, and of one that was fetched (download_law,
\* download_case, verify_against_lock).
LEMMA ErrorRowFacts ==
  ASSUME NEW e \in Entries
  PROVE  error_row(e) \in Row /\ error_row(e).status = "error"
BY DEF error_row, Row, Keys

LEMMA SavedRowFacts ==
  ASSUME NEW e \in Entries, ~incomplete(e), NEW x \in Contents
  PROVE  LET r == saved_row(e, x)
         IN /\ r \in Row /\ r.key = url(e) /\ r.path = path(e) /\ r.sha256 = x
            /\ r.status \in {"ok", "mismatch"}
            /\ args.lock_index = NoLock => r.status = "ok"
            /\ args.lock_index # NoLock =>
                 (r.status = "ok" <=> url(e) \in DOMAIN args.lock_index
                                      /\ args.lock_index[url(e)] = x)
<1> DEFINE r == saved_row(e, x)
           agrees == url(e) \in DOMAIN args.lock_index /\ args.lock_index[url(e)] = x
<1>1. path(e) \in RawFiles /\ url(e) \in Keys
  BY EntryFacts DEF Keys
<1>2. /\ ok_row(e, x) \in Row /\ ok_row(e, x).key = url(e) /\ ok_row(e, x).path = path(e)
      /\ ok_row(e, x).sha256 = x /\ ok_row(e, x).status = "ok"
  BY <1>1 DEF ok_row, Row
<1>3. r = IF args.lock_index # NoLock /\ ~agrees THEN [ok_row(e, x) EXCEPT !.status = "mismatch"]
          ELSE ok_row(e, x)
  BY <1>2 DEF saved_row, verify_against_lock
<1>4. [ok_row(e, x) EXCEPT !.status = "mismatch"]
        = [key |-> url(e), status |-> "mismatch", path |-> path(e), sha256 |-> x]
  BY DEF ok_row
<1>5. CASE args.lock_index # NoLock /\ ~agrees
  <2>1. r = [key |-> url(e), status |-> "mismatch", path |-> path(e), sha256 |-> x]
    BY <1>3, <1>4, <1>5
  <2>2. r \in Row
    BY <1>1, <2>1 DEF Row
  <2> QED BY <1>5, <2>1, <2>2
<1>6. CASE ~(args.lock_index # NoLock /\ ~agrees)
  <2>1. r = ok_row(e, x)
    BY <1>3, <1>6
  <2> QED BY <1>2, <1>6, <2>1
<1> QED BY <1>5, <1>6

-----------------------------------------------------------------------------
(* The inductive invariant.                                                *)

\* It holds at the start.
LEMMA Initially == Init => IInv
<1> SUFFICES ASSUME Init PROVE IInv
  OBVIOUS
<1>1. lock \notin {Absent, Broken} => IsLock(lock)
  <2> SUFFICES ASSUME lock \notin {Absent, Broken} PROVE IsLock(lock)
    OBVIOUS
  <2>1. lock \in Seq(Range(lock))
    BY ScriptsAssumption DEF Init
  <2> QED BY <2>1 DEF IsLock
<1>2. Typed
  <2>1. raw = [p \in RawFiles |-> raw[p]] /\ args.config \in {<<>>} /\ args.write_lock \in BOOLEAN
    BY DEF Init
  <2> QED BY <1>1, <2>1 DEF Init, Typed
<1>3. Reading /\ RowsTell /\ (downloading => TellsDisk(rows, raw)) /\ LockHolds /\ Agreeing
  BY DEF Init, Reading, RowsTell, downloading, LockHolds, Agreeing
<1>4. SuccessIsVerified /\ ManifestTellsDisk /\ RelockVerifies
  BY DEF Init, SuccessIsVerified, ManifestTellsDisk, RelockVerifies
<1> QED BY <1>2, <1>3, <1>4 DEF IInv

\* The steps of the parser and the chunker, and the end of a script that writes nothing.
LEMMA OtherwiseKeeps ==
  ASSUME IInv, UNCHANGED <<sources, raw, manifest, lock, args, checked, relocked, still>>,
         pc' \in {"idle", "parse", "chunk"}, rows' = <<>>, RelockVerifies'
  PROVE  IInv'
<1>1. Typed'
  BY DEF IInv, Typed
<1>2. Reading' /\ RowsTell' /\ (downloading => TellsDisk(rows, raw))' /\ Agreeing'
  BY DEF IInv, Reading, RowsTell, downloading, Agreeing
<1>3. LockHolds'
  BY DEF IInv, LockHolds
<1>4. SuccessIsVerified' /\ ManifestTellsDisk'
  BY DEF IInv, SuccessIsVerified, ManifestTellsDisk, LastAt
<1> QED BY <1>1, <1>2, <1>3, <1>4 DEF IInv

\* A step of no script.
LEMMA StutterKeeps ==
  ASSUME IInv, UNCHANGED vars
  PROVE  IInv'
<1>1. /\ UNCHANGED <<sources, raw, manifest, lock, args, checked, relocked, still>>
      /\ pc' = pc /\ rows' = rows /\ exit' = exit
  BY DEF vars, disk, history
<1>2. Typed' /\ Reading'
  BY <1>1 DEF IInv, Typed, Reading, downloading
<1>3. RowsTell' /\ (downloading => TellsDisk(rows, raw))'
  BY <1>1 DEF IInv, RowsTell, RowTells, downloading
<1>4. LockHolds' /\ Agreeing'
  BY <1>1 DEF IInv, LockHolds, Agreeing
<1>5. SuccessIsVerified' /\ ManifestTellsDisk' /\ RelockVerifies'
  BY <1>1 DEF IInv, SuccessIsVerified, ManifestTellsDisk, LastAt, RelockVerifies
<1> QED BY <1>2, <1>3, <1>4, <1>5 DEF IInv

\* A source changes.
LEMMA SourceChangesKeeps ==
  ASSUME IInv, SourceChanges
  PROVE  IInv'
<1>1. /\ UNCHANGED <<raw, manifest, lock, args, checked>> /\ relocked' = <<>> /\ still' = FALSE
      /\ pc' = pc /\ rows' = rows /\ exit' = exit
  BY DEF SourceChanges, disk
<1>2. Typed' /\ Reading'
  BY <1>1 DEF IInv, Typed, Reading, downloading
<1>3. RowsTell' /\ (downloading => TellsDisk(rows, raw))'
  BY <1>1 DEF IInv, RowsTell, RowTells, downloading
<1>4. LockHolds' /\ Agreeing' /\ RelockVerifies'
  BY <1>1 DEF LockHolds, Agreeing, RelockVerifies
<1>5. SuccessIsVerified' /\ ManifestTellsDisk'
  BY <1>1 DEF IInv, SuccessIsVerified, ManifestTellsDisk, LastAt
<1> QED BY <1>2, <1>3, <1>4, <1>5 DEF IInv

\* A download that begins reads the lock, or cannot and is over.
LEMMA StartDownloadKeeps ==
  ASSUME IInv, NEW config \in Configs, NEW write_lock \in BOOLEAN,
         StartDownload(config, write_lock)
  PROVE  IInv'
<1> DEFINE reads == lock # Absent /\ ~write_lock
<1>1. UNCHANGED <<sources, raw, manifest, lock, jsonl>> /\ pc = "idle"
  BY DEF StartDownload, Begins, disk
<1>2. CASE reads /\ lock = Broken
  <2>1. Ends("download", "raised") /\ UNCHANGED <<args, history>>
    BY <1>2, Zenon DEF StartDownload
  <2>2. /\ UNCHANGED <<args, checked, relocked, still>> /\ pc' = "idle" /\ rows' = <<>>
    BY <2>1 DEF Ends, history
  <2>3. relocked = <<>>
    BY <1>2 DEF IInv, LockHolds
  <2>4. RelockVerifies'
    BY <2>2, <2>3 DEF RelockVerifies
  <2> QED BY <1>1, <2>2, <2>4, OtherwiseKeeps
<1>3. CASE ~(reads /\ lock = Broken)
  <2>1. /\ args' = [config |-> config, write_lock |-> write_lock,
                    lock_index |-> IF reads THEN build_lock_index(lock) ELSE NoLock]
        /\ pc' = "download" /\ checked' = [ended |-> FALSE, verified |-> FALSE]
        /\ UNCHANGED <<rows, relocked>>
    BY <1>3, Zenon DEF StartDownload
  <2>2. rows = <<>> /\ args'.config = config /\ args'.write_lock = write_lock
        /\ args'.lock_index = IF reads THEN build_lock_index(lock) ELSE NoLock
    BY <1>1, <2>1 DEF IInv, Reading, downloading
  <2> HIDE DEF reads
  <2>3. Typed'
    BY <1>1, <2>1, <2>2 DEF IInv, Typed
  <2>4. Reading'
    BY <1>1, <1>3, <2>1, <2>2 DEF Reading, downloading, reads
  <2>5. RowsTell' /\ (downloading => TellsDisk(rows, raw))'
    <3>1. Len(config) \in Nat
      BY ConfigFacts
    <3> QED BY <2>1, <2>2, <3>1 DEF RowsTell, TellsDisk
  <2>6. LockHolds'
    BY <1>1, <2>1 DEF IInv, LockHolds
  <2>7. Agreeing'
    <3> SUFFICES ASSUME relocked # <<>>, config = relocked, ~write_lock
                 PROVE  args'.lock_index # NoLock /\ AllOk(<<>>)
      BY <2>1, <2>2 DEF Agreeing
    <3>1. reads /\ IsLock(lock) /\ DOMAIN lock = DOMAIN config
      BY DEF reads, IInv, LockHolds, Typed
    <3>2. Len(config) \in Nat /\ DOMAIN config = 1..Len(config) /\ config # <<>>
          /\ config \in Seq(Range(config))
      BY ConfigFacts, ScriptsAssumption
    <3>3. 1 \in DOMAIN lock
      BY <3>1, <3>2
    <3>4. DOMAIN build_lock_index(lock) # {}
      BY <3>1, <3>3, LockIndexFacts
    <3> QED BY <2>2, <3>1, <3>4 DEF NoLock, AllOk
  <2>8. SuccessIsVerified' /\ ManifestTellsDisk' /\ RelockVerifies'
    BY <2>1 DEF SuccessIsVerified, ManifestTellsDisk, RelockVerifies
  <2> QED BY <2>3, <2>4, <2>5, <2>6, <2>7, <2>8 DEF IInv
<1> QED BY <1>2, <1>3

\* A row that is appended is about the next entry.
LEMMA AppendRow ==
  ASSUME IInv, fetching, NEW r \in Row, RowTells(r, entry), rows' = Append(rows, r),
         UNCHANGED <<sources, args, still>>, pc' = pc
  PROVE  rows' \in Seq(Row) /\ RowsTell'
<1>1. /\ rows \in Seq(Row) /\ downloading /\ args.config \in Configs
      /\ Len(rows) < Len(args.config)
  BY DEF IInv, Typed, Reading, fetching, downloading
<1>2. Len(args.config) \in Nat /\ rows' \in Seq(Row) /\ Len(rows') = Len(rows) + 1
  BY <1>1, ConfigFacts
<1>3. ASSUME NEW i \in DOMAIN rows' PROVE RowTells(rows'[i], args.config[i])
  <2>1. CASE i \in DOMAIN rows
    BY <1>1, <2>1 DEF IInv, RowsTell
  <2>2. CASE i = Len(rows) + 1
    BY <1>1, <2>2 DEF entry
  <2> QED BY <1>1, <1>3, <2>1, <2>2
<1>4. Len(rows') <= Len(args.config)
  BY <1>1, <1>2
<1> QED BY <1>2, <1>3, <1>4 DEF RowsTell, RowTells

\* The entry that is asked for is one of a configuration.
LEMMA EntryIsOne ==
  ASSUME IInv, fetching
  PROVE  entry \in Entries /\ args.config \in Configs
<1>1. args.config \in Configs /\ Len(rows) \in Nat /\ Len(rows) < Len(args.config)
  BY DEF IInv, Typed, Reading, fetching, downloading
<1> QED BY <1>1, ConfigFacts DEF entry

\* A fetch fails.
LEMMA FetchFailsKeeps ==
  ASSUME IInv, FetchFails
  PROVE  IInv'
<1>1. /\ fetching /\ answer \in {Unreachable, Unusable} /\ pc = "download"
      /\ rows' = Append(rows, error_row(entry)) /\ pc' = pc
      /\ UNCHANGED <<sources, raw, manifest, lock, args, checked, relocked, still, exit>>
  BY DEF FetchFails, fetching, disk, history
<1>2. entry \in Entries /\ error_row(entry) \in Row /\ error_row(entry).status = "error"
  BY <1>1, EntryIsOne, ErrorRowFacts
<1>3. rows' \in Seq(Row) /\ RowsTell'
  BY <1>1, <1>2, AppendRow DEF RowTells
<1>4. Typed'
  BY <1>1, <1>3 DEF IInv, Typed
<1>5. Reading'
  BY <1>1 DEF IInv, Reading, downloading
<1>6. TellsDisk(rows', raw')
  <2>1. TellsDisk(rows, raw) /\ rows \in Seq(Row) /\ DOMAIN raw = RawFiles
    BY <1>1 DEF IInv, Typed, downloading
  <2> QED BY <1>1, <1>2, <2>1, AppendTells
<1>7. LockHolds'
  BY <1>1 DEF IInv, LockHolds
<1>8. Agreeing'
  <2> SUFFICES ASSUME relocked # <<>>, args.config = relocked PROVE FALSE
    BY <1>1 DEF Agreeing
  <2>1. Len(rows) + 1 \in DOMAIN relocked
    <3>1. Len(rows) \in Nat /\ Len(rows) < Len(relocked)
      BY <1>1 DEF IInv, Typed, fetching
    <3> QED BY <3>1, ConfigFacts DEF IInv, LockHolds
  <2>2. ~incomplete(entry) /\ sources[url(entry)] \in Revisions
    BY <2>1 DEF IInv, LockHolds, entry
  <2> QED BY <1>1, <2>2, ScriptsAssumption DEF answer
<1>9. SuccessIsVerified' /\ ManifestTellsDisk' /\ RelockVerifies'
  BY <1>1 DEF IInv, SuccessIsVerified, ManifestTellsDisk, LastAt, RelockVerifies
<1> QED BY <1>3, <1>4, <1>5, <1>6, <1>7, <1>8, <1>9 DEF IInv

\* An answer is saved, and its row compared with the lock.
LEMMA SaveKeeps ==
  ASSUME IInv, Save
  PROVE  IInv'
<1> DEFINE x == content(url(entry), answer)
           r == saved_row(entry, x)
<1>1. /\ fetching /\ answer \in Revisions /\ pc = "download"
      /\ raw' = [raw EXCEPT ![path(entry)] = x]
      /\ rows' = Append(rows, r) /\ pc' = pc
      /\ UNCHANGED <<sources, manifest, lock, args, checked, relocked, still, exit>>
  BY DEF Save, fetching, history
<1>2. ~incomplete(entry) /\ answer = sources[url(entry)] /\ entry \in Entries
  BY <1>1, EntryIsOne, ScriptsAssumption DEF answer
<1>3. x \in Contents
  BY <1>1, <1>2, EntryFacts DEF Contents, content, Kept
<1>4. /\ r \in Row /\ r.key = url(entry) /\ r.path = path(entry) /\ r.sha256 = x
      /\ r.status \in {"ok", "mismatch"}
      /\ args.lock_index = NoLock => r.status = "ok"
      /\ args.lock_index # NoLock =>
           (r.status = "ok" <=> url(entry) \in DOMAIN args.lock_index
                                /\ args.lock_index[url(entry)] = x)
  BY <1>2, <1>3, SavedRowFacts
<1>5. x = content(url(entry), sources[url(entry)]) /\ sources[url(entry)] \in Revisions
  BY <1>1, <1>2
<1> HIDE DEF x, r
<1>6. RowTells(r, entry)
  BY <1>2, <1>3, <1>4, <1>5 DEF RowTells
<1>7. rows' \in Seq(Row) /\ RowsTell'
  BY <1>1, <1>4, <1>6, AppendRow
<1>8. Typed'
  <2>1. raw' = [p \in RawFiles |-> raw'[p]]
    BY <1>1 DEF IInv, Typed
  <2> QED BY <1>1, <1>7, <2>1 DEF IInv, Typed
<1>9. Reading'
  BY <1>1 DEF IInv, Reading, downloading
<1>10. TellsDisk(rows', raw')
  <2>1. TellsDisk(rows, raw) /\ rows \in Seq(Row) /\ DOMAIN raw = RawFiles
    BY <1>1 DEF IInv, Typed, downloading
  <2>2. raw' = IF r.status = "error" THEN raw ELSE [raw EXCEPT ![r.path] = r.sha256]
    BY <1>1, <1>4
  <2> QED BY <1>1, <1>4, <2>1, <2>2, AppendTells
<1>11. LockHolds'
  BY <1>1 DEF IInv, LockHolds
<1>12. Agreeing'
  <2> SUFFICES ASSUME relocked # <<>>, args.config = relocked, ~args.write_lock
               PROVE  args.lock_index # NoLock /\ AllOk(rows')
    BY <1>1 DEF Agreeing
  <2>1. args.lock_index # NoLock /\ AllOk(rows) /\ rows \in Seq(Row)
    BY <1>1 DEF IInv, Agreeing, Typed
  <2>2. Len(rows) + 1 \in DOMAIN relocked /\ entry = relocked[Len(rows) + 1]
    <3>1. Len(rows) \in Nat /\ Len(rows) < Len(relocked)
      BY <1>1 DEF IInv, Typed, fetching
    <3> QED BY <3>1, ConfigFacts DEF IInv, LockHolds, entry
  <2>3. args.lock_index = build_lock_index(lock) /\ IsLock(lock) /\ DOMAIN lock = DOMAIN relocked
    BY <1>1 DEF IInv, Reading, LockHolds, Typed
  <2>4. url(entry) \in DOMAIN args.lock_index
    <3>1. lock[Len(rows) + 1].key = url(entry)
      BY <2>2 DEF IInv, LockHolds
    <3> QED BY <2>2, <2>3, <3>1, LockIndexFacts
  <2>5. args.lock_index[url(entry)] = x
    <3>1. PICK j \in DOMAIN lock : lock[j].key = url(entry) /\ args.lock_index[url(entry)] = lock[j].sha256
      BY <2>3, <2>4, LockIndexFacts
    <3>2. lock[j].sha256 = content(url(entry), sources[url(entry)])
      BY <2>3, <3>1 DEF IInv, LockHolds
    <3> QED BY <1>5, <3>1, <3>2
  <2>6. r.status = "ok"
    BY <1>4, <2>1, <2>4, <2>5
  <2>7. AllOk(rows')
    BY <1>1, <1>4, <2>1, <2>6 DEF AllOk
  <2> QED BY <2>1, <2>7
<1>13. SuccessIsVerified' /\ ManifestTellsDisk' /\ RelockVerifies'
  <2>1. ~checked.ended /\ ~checked.verified
    BY <1>1 DEF IInv, Reading
  <2> QED BY <1>1, <2>1 DEF SuccessIsVerified, ManifestTellsDisk, RelockVerifies
<1> QED BY <1>7, <1>8, <1>9, <1>10, <1>11, <1>12, <1>13 DEF IInv

\* A row of an entry that was fetched tells so; that of one that was not, nothing.
LEMMA RowFacts ==
  ASSUME IInv, downloading, NEW i \in DOMAIN rows
  PROVE  /\ rows[i] \in Row /\ args.config[i] \in Entries /\ RowTells(rows[i], args.config[i])
         /\ rows[i].status = "error" => rows[i].path = Absent
<1>1. rows \in Seq(Row) /\ args.config \in Configs /\ Len(rows) <= Len(args.config)
  BY DEF IInv, Typed, Reading, RowsTell
<1>2. rows[i] \in Row /\ i \in DOMAIN args.config
  BY <1>1, ConfigFacts
<1>3. RowTells(rows[i], args.config[i])
  BY DEF IInv, RowsTell
<1> QED BY <1>1, <1>2, <1>3, ConfigFacts DEF Row

\* The download ends, and leaves its manifest.
LEMMA WriteManifestKeeps ==
  ASSUME IInv, WriteManifest
  PROVE  IInv'
<1>1. /\ pc = "download" /\ downloading /\ Len(rows) = Len(args.config) /\ manifest' = rows
      /\ checked' = [ended |-> TRUE,
                     verified |-> AllOk(rows) /\ ~args.write_lock /\ args.lock_index # NoLock]
      /\ UNCHANGED <<sources, raw, lock, args, relocked, still>>
  BY DEF WriteManifest, finishing, downloading
<1>2. \/ /\ args.write_lock /\ AllOk(rows) /\ pc' = "lock" /\ rows' = rows
      \/ /\ ~(args.write_lock /\ AllOk(rows)) /\ pc' = "idle" /\ rows' = <<>>
         /\ exit'.how = IF AllOk(rows) THEN "success" ELSE "failure"
  BY DEF WriteManifest, Ends
<1>3. /\ rows \in Seq(Row) /\ args.config \in Configs /\ DOMAIN rows = DOMAIN args.config
      /\ TellsDisk(rows, raw)
  <2>1. rows \in Seq(Row) /\ args.config \in Configs
    BY <1>1 DEF IInv, Typed, Reading
  <2> QED BY <1>1, <2>1, ConfigFacts DEF IInv
<1>4. Typed'
  <2>1. rows' \in Seq(Row) /\ pc' \in {"idle", "lock"}
    <3>1. pc' \in {"idle", "lock"} /\ rows' \in {rows, <<>>}
      BY <1>2
    <3>2. {rows, <<>>} \subseteq Seq(Row)
      BY <1>3
    <3> QED BY <3>1, <3>2, Zenon
  <2>2. raw' = [p \in RawFiles |-> raw'[p]]
    BY <1>1 DEF IInv, Typed
  <2>3. lock' \notin {Absent, Broken} => IsLock(lock')
    BY <1>1 DEF IInv, Typed
  <2> QED BY <1>1, <2>1, <2>2, <2>3 DEF IInv, Typed
<1>5. Reading'
  BY <1>1, <1>2, <1>3 DEF IInv, Reading, downloading
<1>6. RowsTell'
  BY <1>1, <1>2 DEF IInv, RowsTell, RowTells, downloading
<1>7. (downloading => TellsDisk(rows, raw))'
  BY <1>1, <1>2, <1>3 DEF downloading
<1>8. LockHolds' /\ Agreeing'
  BY <1>1, <1>2 DEF IInv, LockHolds, Agreeing
<1>9. SuccessIsVerified'
  <2> SUFFICES ASSUME AllOk(rows), ~args.write_lock, args.lock_index # NoLock,
                      NEW i \in DOMAIN args.config, LastAt(args.config, i)
               PROVE  \E j \in DOMAIN lock :
                        lock[j].key = url(args.config[i]) /\ lock[j].sha256 = raw[path(args.config[i])]
    BY <1>1 DEF SuccessIsVerified, LastAt
  <2>1. ASSUME NEW j \in DOMAIN rows
        PROVE  /\ rows[j].status = "ok" /\ rows[j].path = path(args.config[j])
               /\ url(args.config[j]) \in DOMAIN args.lock_index
               /\ args.lock_index[url(args.config[j])] = rows[j].sha256
    <3>1. RowTells(rows[j], args.config[j]) /\ rows[j].status = "ok"
      BY <1>1, RowFacts DEF AllOk
    <3>2. rows[j] # error_row(args.config[j])
      BY <3>1 DEF error_row
    <3> QED BY <3>1, <3>2 DEF RowTells
  <2>2. raw[path(args.config[i])] = rows[i].sha256
    <3>1. i \in DOMAIN rows /\ rows[i].status # "error"
      BY <1>3, <2>1
    <3>2. \A j \in DOMAIN rows : j > i => rows[j].path # rows[i].path
      BY <1>3, <2>1 DEF LastAt
    <3>3. raw[rows[i].path] = rows[i].sha256
      BY <1>3, <3>1, <3>2 DEF TellsDisk
    <3> QED BY <2>1, <3>1, <3>3
  <2>3. args.lock_index = build_lock_index(lock) /\ IsLock(lock)
    BY <1>1 DEF IInv, Reading, Typed
  <2> QED BY <1>3, <2>1, <2>2, <2>3, LockIndexFacts
<1>10. ManifestTellsDisk'
  <2> SUFFICES ASSUME NEW i \in DOMAIN rows, rows[i].path # Absent,
                      \A j \in DOMAIN rows : j > i => rows[j].path # rows[i].path
               PROVE  raw[rows[i].path] = rows[i].sha256
    BY <1>1 DEF ManifestTellsDisk
  <2>1. rows[i].status # "error"
    BY <1>1, RowFacts
  <2> QED BY <1>3, <2>1 DEF TellsDisk
<1>11. RelockVerifies'
  BY <1>1, <1>2 DEF IInv, Agreeing, RelockVerifies
<1> QED BY <1>4, <1>5, <1>6, <1>7, <1>8, <1>9, <1>10, <1>11 DEF IInv

\* The lock is written, from the rows of a download without failures.
LEMMA WriteLockKeeps ==
  ASSUME IInv, WriteLock
  PROVE  IInv'
<1>1. /\ pc = "lock" /\ downloading /\ lock' = rows /\ pc' = "idle" /\ rows' = <<>>
      /\ relocked' = IF still THEN args.config ELSE <<>>
      /\ UNCHANGED <<sources, raw, manifest, args, checked, still>>
  BY DEF WriteLock, Ends, downloading
<1>2. /\ rows \in Seq(Row) /\ args.config \in Configs /\ DOMAIN rows = DOMAIN args.config
      /\ AllOk(rows) /\ args.write_lock /\ args.lock_index = NoLock
  <2>1. /\ rows \in Seq(Row) /\ args.config \in Configs /\ Len(rows) = Len(args.config)
        /\ AllOk(rows) /\ args.write_lock /\ args.lock_index = NoLock
    BY <1>1 DEF IInv, Typed, Reading, downloading
  <2> QED BY <2>1, ConfigFacts
<1>3. ASSUME NEW i \in DOMAIN rows
      PROVE  LET e == args.config[i]
             IN /\ ~incomplete(e) /\ rows[i] = ok_row(e, rows[i].sha256)
                /\ rows[i].key = url(e) /\ rows[i].sha256 \in Contents
                /\ still => sources[url(e)] \in Revisions
                            /\ rows[i].sha256 = content(url(e), sources[url(e)])
  <2> DEFINE e == args.config[i]
  <2>1. RowTells(rows[i], e) /\ rows[i].status = "ok" /\ rows[i] \in Row
    BY <1>1, <1>2, RowFacts DEF AllOk
  <2>2. rows[i] # error_row(e)
    BY <2>1 DEF error_row
  <2>3. /\ ~incomplete(e) /\ rows[i].key = url(e) /\ rows[i].path = path(e)
        /\ rows[i].sha256 \in Contents
        /\ still => sources[url(e)] \in Revisions
                    /\ rows[i].sha256 = content(url(e), sources[url(e)])
    BY <2>1, <2>2 DEF RowTells
  <2>4. rows[i] = ok_row(e, rows[i].sha256)
    BY <2>1, <2>3 DEF Row, ok_row
  <2> QED BY <2>3, <2>4
<1>4. rows \notin {Absent, Broken}
  <2> DEFINE saved == [i \in DOMAIN args.config |-> rows[i].sha256]
  <2>1. saved \in [DOMAIN args.config -> Contents]
    BY <1>2, <1>3
  <2>2. rows = [i \in DOMAIN args.config |-> ok_row(args.config[i], saved[i])]
    <3>1. rows = [i \in DOMAIN rows |-> rows[i]]
      BY <1>2
    <3> QED BY <1>2, <1>3, <3>1
  <2> QED BY <1>2, <2>1, <2>2, ScriptsAssumption
<1>5. Typed'
  <2>1. IsLock(rows)
    BY <1>2 DEF IsLock
  <2> QED BY <1>1, <2>1 DEF IInv, Typed
<1>6. Reading' /\ RowsTell' /\ (downloading => TellsDisk(rows, raw))' /\ Agreeing'
  BY <1>1 DEF IInv, Reading, RowsTell, downloading, Agreeing
<1>7. LockHolds'
  BY <1>1, <1>2, <1>3, <1>4 DEF LockHolds
<1>8. SuccessIsVerified' /\ RelockVerifies'
  BY <1>1, <1>2 DEF IInv, Reading, SuccessIsVerified, RelockVerifies
<1>9. ManifestTellsDisk'
  BY <1>1 DEF IInv, ManifestTellsDisk
<1> QED BY <1>5, <1>6, <1>7, <1>8, <1>9 DEF IInv

\* A script that is killed leaves what it has written, and the file that it was writing
\* cut short.  Nothing has been said of those files yet.
LEMMA KillKeeps ==
  ASSUME IInv, KillBetween \/ KillInRaw \/ KillInManifest \/ KillInLock \/ KillInLines
  PROVE  IInv'
<1>1. /\ pc # "idle" /\ pc' = "idle" /\ rows' = <<>> /\ exit'.how = "killed"
      /\ UNCHANGED <<sources, args, checked, still>>
  BY DEF KillBetween, KillInRaw, KillInManifest, KillInLock, KillInLines, Kill, Ends
<1>2. RelockVerifies'
  BY <1>1 DEF RelockVerifies
<1>3. CASE KillBetween \/ KillInLines
  BY <1>1, <1>2, <1>3, OtherwiseKeeps DEF KillBetween, KillInLines, disk
<1>4. CASE KillInRaw \/ KillInManifest
  <2>1. /\ pc = "download" /\ UNCHANGED <<lock, relocked>>
        /\ raw' = raw \/ \E left : raw' = [raw EXCEPT ![path(entry)] = left]
    BY <1>4 DEF KillInRaw, KillInManifest, fetching, finishing
  <2>2. raw' = [p \in RawFiles |-> raw'[p]]
    BY <2>1 DEF IInv, Typed
  <2>3. Typed'
    BY <1>1, <2>1, <2>2 DEF IInv, Typed
  <2>4. Reading' /\ RowsTell' /\ (downloading => TellsDisk(rows, raw))' /\ Agreeing'
    BY <1>1, <2>1 DEF IInv, Reading, RowsTell, downloading, Agreeing
  <2>5. LockHolds'
    BY <1>1, <2>1 DEF IInv, LockHolds
  <2>6. SuccessIsVerified' /\ ManifestTellsDisk'
    BY <1>1, <2>1 DEF IInv, Reading, SuccessIsVerified, ManifestTellsDisk
  <2> QED BY <1>2, <2>3, <2>4, <2>5, <2>6 DEF IInv
<1>5. CASE KillInLock
  <2>1. pc = "lock" /\ UNCHANGED <<raw, manifest>> /\ lock' = Broken /\ relocked' = <<>>
    BY <1>5 DEF KillInLock
  <2>2. Typed'
    BY <1>1, <2>1 DEF IInv, Typed
  <2>3. Reading' /\ RowsTell' /\ (downloading => TellsDisk(rows, raw))' /\ Agreeing' /\ LockHolds'
    BY <1>1, <2>1 DEF IInv, Reading, RowsTell, downloading, Agreeing, LockHolds
  <2>4. SuccessIsVerified' /\ ManifestTellsDisk'
    BY <1>1, <2>1 DEF IInv, Reading, SuccessIsVerified, ManifestTellsDisk
  <2> QED BY <1>2, <2>2, <2>3, <2>4 DEF IInv
<1> QED BY <1>3, <1>4, <1>5

\* A timeout while an answer is read ends the download.
LEMMA FetchRaisesKeeps ==
  ASSUME IInv, FetchRaises
  PROVE  IInv'
<1>1. /\ fetching /\ answer = Hangs /\ pc' = "idle" /\ rows' = <<>>
      /\ UNCHANGED <<sources, raw, manifest, lock, args, checked, relocked, still>>
  BY DEF FetchRaises, Ends, disk, history
<1>2. RelockVerifies'
  <2> SUFFICES ASSUME relocked # <<>>, args.config = relocked PROVE FALSE
    BY <1>1 DEF RelockVerifies
  <2>1. Len(rows) + 1 \in DOMAIN relocked
    <3>1. Len(rows) \in Nat /\ Len(rows) < Len(relocked)
      BY <1>1 DEF IInv, Typed, fetching
    <3> QED BY <3>1, ConfigFacts DEF IInv, LockHolds
  <2>2. ~incomplete(entry) /\ sources[url(entry)] \in Revisions
    BY <2>1 DEF IInv, LockHolds, entry
  <2> QED BY <1>1, <2>2, ScriptsAssumption DEF answer
<1> QED BY <1>1, <1>2, OtherwiseKeeps

\* The parser and the chunker touch nothing that the download has made.
LEMMA ParseAndChunkKeep ==
  ASSUME IInv, StartParse \/ StartChunk \/ WriteNext
  PROVE  IInv'
<1>1. /\ UNCHANGED <<sources, raw, manifest, lock, args, checked, relocked, still>>
      /\ pc \in {"idle", "parse", "chunk"}
  BY DEF StartParse, StartChunk, WriteNext, Begins, disk
<1>2. rows = <<>>
  BY <1>1 DEF IInv, Reading, downloading
<1>3. /\ pc' \in {"idle", "parse", "chunk"} /\ rows' = <<>>
      /\ pc' = "idle" => exit'.script # "download"
  <2>1. CASE StartParse
    BY <1>2, <2>1 DEF StartParse, Ends
  <2>2. CASE StartChunk
    BY <1>2, <2>2 DEF StartChunk, Ends
  <2>3. CASE WriteNext
    BY <1>2, <2>3 DEF WriteNext, Written, Ends
  <2> QED BY <2>1, <2>2, <2>3
<1>4. RelockVerifies'
  BY <1>3 DEF RelockVerifies
<1> QED BY <1>1, <1>3, <1>4, OtherwiseKeeps

\* IInv is an invariant of the scripts.
THEOREM InductiveInvariant == Spec => []IInv
<1>1. IInv /\ [Next]_vars => IInv'
  BY StutterKeeps, SourceChangesKeeps, StartDownloadKeeps, FetchFailsKeeps, FetchRaisesKeeps,
     SaveKeeps, WriteManifestKeeps, WriteLockKeeps, ParseAndChunkKeep, KillKeeps DEF Next
<1> QED BY <1>1, Initially, PTL DEF Spec

\* A download that exits with success against a lock file has left the raw files that the
\* lock names (main, verify_against_lock).
THEOREM SuccessVerifies == Spec => []SuccessIsVerified
<1>1. IInv => SuccessIsVerified
  BY DEF IInv
<1> QED BY <1>1, InductiveInvariant, PTL

\* The manifest of a download that ended tells what is on disk until the next one begins,
\* for what does not match the lock, too (main).
THEOREM ManifestIsTrue == Spec => []ManifestTellsDisk
<1>1. IInv => ManifestTellsDisk
  BY DEF IInv
<1> QED BY <1>1, InductiveInvariant, PTL

\* As long as no source changes, what --write-lock wrote verifies (main, build_lock_index).
THEOREM LockIsReadable == Spec => []RelockVerifies
<1>1. IInv => RelockVerifies
  BY DEF IInv
<1> QED BY <1>1, InductiveInvariant, PTL

-----------------------------------------------------------------------------
(* What the parser and the chunker make of the raw files.                  *)

\* The raw files that can be read, and the chunks of what was parsed of them.
readable(type) == {p \in there(type) : raw[p].kept # "head"}
whole(type) ==
  [i \in DOMAIN documents(type) |-> chunk(documents(type)[i], documents(type)[i].parsed)]

parsed_laws == writing("laws.jsonl", documents("law"))
parsed_cases == writing("cases.jsonl", documents("case"))
merged_documents ==
  writing("documents.jsonl", merge_jsonl_files(documents("law") \o documents("case")))

law_chunks == writing("laws_chunks.jsonl", whole("law"))
case_chunks == writing("case_chunks.jsonl", whole("case"))
legal_chunks == writing("legal_chunks.jsonl", whole("law") \o whole("case"))

Holds(w) == jsonl[w.file] = w.data

\* Of three files, those that are not written yet are written next.
UnderWay(a, b, c) ==
  \/ writes = <<a, b, c>>
  \/ writes = <<b, c>> /\ Holds(a)
  \/ writes = <<c>> /\ Holds(a) /\ Holds(b)

Parsed == Holds(parsed_laws) /\ Holds(parsed_cases) /\ Holds(merged_documents)
Served == Holds(law_chunks) /\ Holds(case_chunks) /\ Holds(legal_chunks)

\* While a build is under way, the files that it has written hold what is made of the
\* raw files as they are, and the others come next.
Building ==
  /\ DOMAIN jsonl = ParsedFiles \cup ChunkFiles
  /\ IsFiniteSet({p \in RawFiles : raw[p] # Absent})
  /\ pc \in {"download", "lock", "parse"} => build = "none"
  /\ pc = "chunk" => build # "chunked"
  /\ pc = "parse" => UnderWay(parsed_laws, parsed_cases, merged_documents)
  /\ pc = "chunk" /\ build = "parsed" => UnderWay(law_chunks, case_chunks, legal_chunks)
  /\ build # "none" => build \in {"parsed", "chunked"} /\ Parsed
  /\ build = "chunked" => Served

\* What is made of the raw files changes only with them.
LEMMA MadeOfRaw ==
  ASSUME raw' = raw
  PROVE  /\ \A type : readable(type)' = readable(type)
         /\ parsed_laws' = parsed_laws /\ parsed_cases' = parsed_cases
         /\ merged_documents' = merged_documents
         /\ law_chunks' = law_chunks /\ case_chunks' = case_chunks /\ legal_chunks' = legal_chunks
<1>1. \A type : there(type)' = there(type)
  BY DEF there
<1>3. \A type : readable(type)' = readable(type)
  BY <1>1 DEF readable
<1>5. \A type : documents(type)' = documents(type)
  <2> SUFFICES ASSUME NEW type PROVE documents(type)' = documents(type)
    OBVIOUS
  <2> DEFINE list == SetToSeq(readable(type))
  <2>1. list' = list
    BY <1>3
  <2> DEFINE entry_of(p, files) ==
               [doc_id |-> <<files[p].url[1], files[p].url[2]>>, source_path |-> p, parsed |-> files[p]]
  <2>2. documents(type) = [i \in DOMAIN list |-> entry_of(list[i], raw)]
    BY DEF documents, readable, parse
  <2>3. documents(type)' = [i \in DOMAIN list' |-> entry_of((list')[i], raw')]
    BY DEF documents, readable, parse
  <2> HIDE DEF list, entry_of
  <2> QED BY <2>1, <2>2, <2>3
<1>6. \A type : whole(type)' = whole(type)
  BY <1>5 DEF whole, chunk
<1>7. parsed_laws' = parsed_laws /\ parsed_cases' = parsed_cases
  BY <1>5 DEF parsed_laws, parsed_cases, writing
<1>8. merged_documents' = merged_documents
  BY <1>5 DEF merged_documents, writing
<1>9. law_chunks' = law_chunks /\ case_chunks' = case_chunks /\ legal_chunks' = legal_chunks
  BY <1>6 DEF law_chunks, case_chunks, legal_chunks, writing
<1> QED BY <1>3, <1>7, <1>8, <1>9

\* One of three files is written: it was the last, or the others come next.
LEMMA NextOfThree ==
  ASSUME NEW a, NEW b, NEW c, UnderWay(a, b, c), WriteNext, pc \in {"parse", "chunk"},
         a.file # b.file, a.file # c.file, b.file # c.file,
         {a.file, b.file, c.file} \subseteq DOMAIN jsonl
  PROVE  /\ DOMAIN jsonl' = DOMAIN jsonl
         /\ \A f \in DOMAIN jsonl : f \notin {a.file, b.file, c.file} => jsonl'[f] = jsonl[f]
         /\ \/ pc' = pc /\ build' = build /\ UnderWay(a, b, c)'
            \/ /\ pc' = "idle" /\ Holds(a)' /\ Holds(b)' /\ Holds(c)'
               /\ build' = IF pc = "parse" THEN "parsed"
                           ELSE IF build = "parsed" THEN "chunked" ELSE build
<1>1. jsonl' = [jsonl EXCEPT ![Head(writes).file] = Head(writes).data]
  BY DEF WriteNext, write
<1>2. CASE writes = <<a, b, c>>
  <2>1. Head(writes) = a /\ Tail(writes) = <<b, c>> /\ Len(writes) > 1
    BY <1>2
  <2>2. writes' = <<b, c>> /\ pc' = pc /\ build' = build
    BY <2>1 DEF WriteNext, Written
  <2> QED BY <1>1, <2>1, <2>2 DEF UnderWay, Holds
<1>3. CASE writes = <<b, c>> /\ Holds(a)
  <2>1. Head(writes) = b /\ Tail(writes) = <<c>> /\ Len(writes) > 1
    BY <1>3
  <2>2. writes' = <<c>> /\ pc' = pc /\ build' = build
    BY <2>1 DEF WriteNext, Written
  <2> QED BY <1>1, <1>3, <2>1, <2>2 DEF UnderWay, Holds
<1>4. CASE writes = <<c>> /\ Holds(a) /\ Holds(b)
  <2>1. Head(writes) = c /\ ~(Len(writes) > 1)
    BY <1>4
  <2>2. /\ pc' = "idle"
        /\ build' = IF pc = "parse" THEN "parsed" ELSE IF build = "parsed" THEN "chunked" ELSE build
    BY <2>1 DEF WriteNext, Written, Ends
  <2> QED BY <1>1, <1>4, <2>1, <2>2 DEF Holds
<1> QED BY <1>2, <1>3, <1>4 DEF UnderWay

\* The files are six.
LEMMA SixFiles ==
  /\ parsed_laws.file = "laws.jsonl" /\ parsed_cases.file = "cases.jsonl"
  /\ merged_documents.file = "documents.jsonl"
  /\ law_chunks.file = "laws_chunks.jsonl" /\ case_chunks.file = "case_chunks.jsonl"
  /\ legal_chunks.file = "legal_chunks.jsonl"
BY DEF parsed_laws, parsed_cases, merged_documents, law_chunks, case_chunks, legal_chunks, writing

\* A step that changes neither a file of the corpus nor the build keeps it.
LEMMA OtherStepsBuild ==
  ASSUME Building, UNCHANGED <<raw, jsonl, writes, build>>, pc' = pc
  PROVE  Building'
<1>1. (UnderWay(parsed_laws, parsed_cases, merged_documents)
         => UnderWay(parsed_laws, parsed_cases, merged_documents)')
      /\ (UnderWay(law_chunks, case_chunks, legal_chunks)
            => UnderWay(law_chunks, case_chunks, legal_chunks)')
      /\ (Parsed => Parsed') /\ (Served => Served')
  BY MadeOfRaw DEF UnderWay, Holds, Parsed, Served
<1> QED BY <1>1 DEF Building

\* So does a step after which no script runs, if it spares the files that count.
LEMMA EndsBuild ==
  ASSUME Building, raw' = raw, pc' = "idle", build' = build,
         DOMAIN jsonl' = DOMAIN jsonl,
         build # "none" => \A f \in ParsedFiles : jsonl'[f] = jsonl[f],
         build = "chunked" => jsonl' = jsonl
  PROVE  Building'
<1>1. build # "none" => Parsed'
  BY MadeOfRaw, SixFiles DEF Building, Parsed, Holds, ParsedFiles
<1>2. build = "chunked" => Served'
  BY MadeOfRaw DEF Building, Served, Holds
<1> QED BY <1>1, <1>2 DEF Building

\* One more raw file is there, at most.
LEMMA SaveBuilds ==
  ASSUME Building, pc = "download", NEW p, NEW x, raw' = [raw EXCEPT ![p] = x],
         UNCHANGED <<jsonl, build>>, pc' \in {"download", "idle"}
  PROVE  Building'
<1> DEFINE held == {q \in RawFiles : raw[q] # Absent}
           now == {q \in RawFiles : raw'[q] # Absent}
<1>1. now \subseteq held \cup {p}
  OBVIOUS
<1>2. IsFiniteSet(held \cup {p})
  BY FS_AddElement DEF Building
<1>3. IsFiniteSet(now)
  BY <1>1, <1>2, FS_Subset
<1> QED BY <1>3 DEF Building

\* The download changes what is made of the raw files, but there is no build then.
LEMMA DownloadBuilds ==
  ASSUME Building,
         \/ \E config \in Configs, write_lock \in BOOLEAN : StartDownload(config, write_lock)
         \/ FetchFails \/ FetchRaises \/ Save \/ WriteManifest \/ WriteLock
  PROVE  Building'
<1>1. CASE \E config \in Configs, write_lock \in BOOLEAN : StartDownload(config, write_lock)
  <2>1. PICK config \in Configs, write_lock \in BOOLEAN : StartDownload(config, write_lock)
    BY <1>1
  <2>2. raw' = raw /\ jsonl' = jsonl
    BY <2>1 DEF StartDownload, disk
  <2>3. \/ pc' = "idle" /\ build' = build
        \/ pc' = "download" /\ build' = "none"
    BY <2>1 DEF StartDownload, Ends, history
  <2>4. CASE pc' = "idle" /\ build' = build
    BY <2>2, <2>4, EndsBuild
  <2>5. CASE pc' = "download" /\ build' = "none"
    BY <2>2, <2>5 DEF Building
  <2> QED BY <2>3, <2>4, <2>5
<1>2. CASE FetchFails
  BY <1>2, OtherStepsBuild DEF FetchFails, disk, history
<1>3. CASE FetchRaises
  BY <1>3, EndsBuild DEF FetchRaises, Ends, disk, history
<1>4. CASE Save
  BY <1>4, SaveBuilds DEF Save, fetching, history
<1>5. CASE WriteManifest
  <2>1. UNCHANGED <<raw, jsonl, build>> /\ pc = "download" /\ pc' \in {"lock", "idle"}
    BY <1>5 DEF WriteManifest, finishing, Ends
  <2> QED BY <2>1 DEF Building
<1>6. CASE WriteLock
  BY <1>6, EndsBuild DEF WriteLock, Ends
<1> QED BY <1>1, <1>2, <1>3, <1>4, <1>5, <1>6

\* The parser starts a build, and finishes its first half.
LEMMA ParseBuilds ==
  ASSUME Building, StartParse \/ (WriteNext /\ pc = "parse")
  PROVE  Building'
<1>1. CASE StartParse /\ unparsable
  BY <1>1, EndsBuild DEF StartParse, Ends, disk
<1>2. CASE StartParse /\ ~unparsable
  <2>1. /\ pc' = "parse" /\ build' = "none" /\ UNCHANGED <<raw, jsonl>>
        /\ writes' = <<parsed_laws, parsed_cases, merged_documents>>
    BY <1>2 DEF StartParse, disk, parsed_laws, parsed_cases, merged_documents
  <2>2. UnderWay(parsed_laws, parsed_cases, merged_documents)'
    BY <2>1, MadeOfRaw DEF UnderWay
  <2> QED BY <2>1, <2>2 DEF Building
<1>3. CASE WriteNext /\ pc = "parse"
  <2>1. raw' = raw /\ build = "none" /\ UnderWay(parsed_laws, parsed_cases, merged_documents)
    BY <1>3 DEF WriteNext, Building
  <2>2. /\ DOMAIN jsonl' = DOMAIN jsonl
        /\ \/ /\ pc' = pc /\ build' = build
              /\ UnderWay(parsed_laws, parsed_cases, merged_documents)'
           \/ pc' = "idle" /\ build' = "parsed" /\ Parsed'
    <3> DEFINE a == parsed_laws
               b == parsed_cases
               c == merged_documents
    <3>1. a' = a /\ b' = b /\ c' = c
      BY <2>1, MadeOfRaw
    <3>2. /\ a.file # b.file /\ a.file # c.file /\ b.file # c.file
          /\ {a.file, b.file, c.file} \subseteq DOMAIN jsonl
      BY SixFiles DEF Building, ParsedFiles
    <3> HIDE DEF a, b, c
    <3>3. UnderWay(a, b, c)
      BY <2>1 DEF a, b, c
    <3>4. /\ DOMAIN jsonl' = DOMAIN jsonl
          /\ \/ pc' = pc /\ build' = build /\ UnderWay(a, b, c)'
             \/ pc' = "idle" /\ Holds(a)' /\ Holds(b)' /\ Holds(c)' /\ build' = "parsed"
      BY <1>3, <3>1, <3>2, <3>3, NextOfThree
    <3> USE DEF a, b, c
    <3> QED BY <3>4 DEF Parsed
  <2> QED BY <1>3, <2>1, <2>2 DEF Building
<1> QED BY <1>1, <1>2, <1>3

\* The chunker finds the raw files as they were parsed, so it has no choice.
LEMMA ChunksOfDocuments ==
  ASSUME NEW type, NEW list \in build_chunks(documents(type))
  PROVE  list = whole(type)
<1> DEFINE docs == documents(type)
<1>1. \A i \in DOMAIN docs : docs[i].parsed = raw[docs[i].source_path]
  BY DEF documents, parse
<1>2. \A i \in DOMAIN docs : texts(docs[i]) = {docs[i].parsed}
  BY <1>1 DEF texts
<1>3. PICK choice \in [DOMAIN docs -> UNION {texts(docs[i]) : i \in DOMAIN docs}] :
        /\ \A i \in DOMAIN docs : choice[i] \in texts(docs[i])
        /\ list = [i \in DOMAIN docs |-> chunk(docs[i], choice[i])]
  BY DEF build_chunks
<1>4. \A i \in DOMAIN docs : choice[i] = docs[i].parsed
  BY <1>2, <1>3
<1> HIDE DEF docs
<1>5. list = [i \in DOMAIN docs |-> chunk(docs[i], docs[i].parsed)]
  BY <1>3, <1>4
<1> QED BY <1>5 DEF whole, docs

\* The chunker finishes a build, or takes it up once more.
LEMMA ChunkBuilds ==
  ASSUME Building, StartChunk \/ (WriteNext /\ pc = "chunk")
  PROVE  Building'
<1> DEFINE laws == jsonl["laws.jsonl"]
           cases == jsonl["cases.jsonl"]
           raises == unloadable("laws.jsonl") \/ unloadable("cases.jsonl") \/ lost(laws) \/ lost(cases)
<1>1. CASE StartChunk /\ raises
  <2>1. Ends("chunk", "raised") /\ UNCHANGED <<build, raw, jsonl>>
    BY <1>1 DEF StartChunk, disk
  <2> HIDE DEF raises
  <2> QED BY <2>1, EndsBuild DEF Ends
<1>2. CASE StartChunk /\ ~raises
  <2>1. /\ pc' = "chunk" /\ build' = (IF build = "chunked" THEN "parsed" ELSE build)
        /\ UNCHANGED <<raw, jsonl>>
    BY <1>2 DEF StartChunk, disk
  <2>2. PICK of_laws \in build_chunks(laws), of_cases \in build_chunks(cases) :
          writes' = <<writing("laws_chunks.jsonl", of_laws), writing("case_chunks.jsonl", of_cases),
                      writing("legal_chunks.jsonl", of_laws \o of_cases)>>
    BY <1>2 DEF StartChunk
  <2>3. build # "none" => UnderWay(law_chunks, case_chunks, legal_chunks)'
    <3> SUFFICES ASSUME build # "none" PROVE UnderWay(law_chunks, case_chunks, legal_chunks)'
      OBVIOUS
    <3>1. laws = documents("law") /\ cases = documents("case")
      BY DEF Building, Parsed, Holds, parsed_laws, parsed_cases, writing
    <3>2. of_laws = whole("law") /\ of_cases = whole("case")
      BY <2>2, <3>1, ChunksOfDocuments
    <3>3. writes' = <<law_chunks, case_chunks, legal_chunks>>
      BY <2>2, <3>2 DEF law_chunks, case_chunks, legal_chunks
    <3> QED BY <2>1, <3>3, MadeOfRaw DEF UnderWay
  <2>4. Parsed => Parsed'
    BY <2>1, MadeOfRaw DEF Parsed, Holds
  <2> QED BY <2>1, <2>3, <2>4 DEF Building
<1>3. CASE WriteNext /\ pc = "chunk"
  <2>1. raw' = raw /\ build # "chunked"
    BY <1>3 DEF WriteNext, Building
  <2>2. CASE build = "none"
    BY <1>3, <2>1, <2>2 DEF WriteNext, Written, Ends, Building
  <2>3. CASE build = "parsed"
    <3> DEFINE a == law_chunks
               b == case_chunks
               c == legal_chunks
    <3>1. a' = a /\ b' = b /\ c' = c
      BY <2>1, MadeOfRaw
    <3>2. /\ a.file # b.file /\ a.file # c.file /\ b.file # c.file
          /\ {a.file, b.file, c.file} = ChunkFiles
      BY SixFiles DEF ChunkFiles
    <3>3. DOMAIN jsonl = ParsedFiles \cup ChunkFiles
      BY DEF Building
    <3> HIDE DEF a, b, c
    <3>4. UnderWay(a, b, c)
      BY <1>3, <2>3 DEF a, b, c, Building
    <3>5. /\ DOMAIN jsonl' = DOMAIN jsonl
          /\ \A f \in DOMAIN jsonl : f \notin {a.file, b.file, c.file} => jsonl'[f] = jsonl[f]
          /\ \/ pc' = pc /\ build' = build /\ UnderWay(a, b, c)'
             \/ pc' = "idle" /\ Holds(a)' /\ Holds(b)' /\ Holds(c)' /\ build' = "chunked"
      BY <1>3, <2>3, <3>1, <3>2, <3>3, <3>4, NextOfThree
    <3>6. \A f \in ParsedFiles : jsonl'[f] = jsonl[f]
      BY <3>2, <3>3, <3>5 DEF ParsedFiles, ChunkFiles
    <3>7. Parsed'
      BY <2>1, <2>3, <3>6, MadeOfRaw, SixFiles DEF Building, Parsed, Holds, ParsedFiles
    <3> USE DEF a, b, c
    <3>8. Holds(a)' /\ Holds(b)' /\ Holds(c)' => Served'
      BY DEF Served
    <3> QED BY <1>3, <2>1, <2>3, <3>5, <3>7, <3>8 DEF Building
  <2> QED BY <2>1, <2>2, <2>3 DEF Building
<1> QED BY <1>1, <1>2, <1>3

\* A script that is killed leaves a file of the build cut short only when the build has not
\* come so far that the file counts.
LEMMA KillBuilds ==
  ASSUME Building, KillBetween \/ KillInRaw \/ KillInManifest \/ KillInLock \/ KillInLines
  PROVE  Building'
<1>1. pc # "idle" /\ pc' = "idle" /\ build' = build
  BY DEF KillBetween, KillInRaw, KillInManifest, KillInLock, KillInLines, Kill, Ends
<1>2. CASE KillBetween \/ KillInManifest \/ KillInLock
  BY <1>1, <1>2, EndsBuild DEF KillBetween, KillInManifest, KillInLock, disk
<1>3. CASE KillInRaw
  <2>1. PICK left : raw' = [raw EXCEPT ![path(entry)] = left]
    BY <1>3 DEF KillInRaw
  <2>2. pc = "download" /\ jsonl' = jsonl
    BY <1>3 DEF KillInRaw, fetching
  <2> QED BY <1>1, <2>1, <2>2, SaveBuilds
<1>4. CASE KillInLines
  <2>1. /\ raw' = raw /\ pc \in {"parse", "chunk"}
        /\ \E left : jsonl' = [jsonl EXCEPT ![Head(writes).file] = left]
    BY <1>4 DEF KillInLines, write
  <2>2. build # "none" => pc = "chunk" /\ build = "parsed"
    BY <2>1 DEF Building
  <2>3. build # "none" => Head(writes).file \in ChunkFiles
    BY <2>2, SixFiles DEF Building, UnderWay, ChunkFiles
  <2>4. build # "none" => \A f \in ParsedFiles : jsonl'[f] = jsonl[f]
    BY <2>1, <2>3 DEF ParsedFiles, ChunkFiles, Building
  <2> QED BY <1>1, <2>1, <2>2, <2>4, EndsBuild
<1> QED BY <1>2, <1>3, <1>4

\* Building is an invariant of the scripts.
THEOREM BuildInvariant == Spec => []Building
<1>1. Init => Building
  <2> SUFFICES ASSUME Init PROVE Building
    OBVIOUS
  <2>1. {p \in RawFiles : raw[p] # Absent} = {}
    BY DEF Init
  <2> QED BY <2>1, FS_EmptySet DEF Init, Building
<1>2. Building /\ [Next]_vars => Building'
  <2> SUFFICES ASSUME Building, [Next]_vars PROVE Building'
    OBVIOUS
  <2>1. CASE UNCHANGED vars \/ SourceChanges
    BY <2>1, OtherStepsBuild DEF vars, disk, history, SourceChanges
  <2>2. CASE \/ \E config \in Configs, write_lock \in BOOLEAN : StartDownload(config, write_lock)
             \/ FetchFails \/ FetchRaises \/ Save \/ WriteManifest \/ WriteLock
    BY <2>2, DownloadBuilds
  <2>3. CASE StartParse \/ StartChunk \/ WriteNext
    <3>1. WriteNext => pc \in {"parse", "chunk"}
      BY DEF WriteNext
    <3> QED BY <2>3, <3>1, ParseBuilds, ChunkBuilds
  <2>4. CASE KillBetween \/ KillInRaw \/ KillInManifest \/ KillInLock \/ KillInLines
    BY <2>4, KillBuilds
  <2> QED BY <2>1, <2>2, <2>3, <2>4 DEF Next
<1> QED BY <1>1, <1>2, PTL DEF Spec

-----------------------------------------------------------------------------
(* The corpus of a build is that of the raw files.                         *)

\* f lists the elements of S, each one once.
Lists(f, n, S) ==
  /\ n \in Nat /\ f \in [1..n -> S]
  /\ \A i, j \in 1..n : f[i] = f[j] => i = j
  /\ \A x \in S : \E i \in 1..n : f[i] = x

\* A finite set is listed.
LEMMA SetListed ==
  ASSUME NEW S, IsFiniteSet(S)
  PROVE  \E n : Lists(SetToSeq(S), n, S)
<1> DEFINE n == Cardinality(S)
           Once(g) == g \in [1..n -> S] /\ IsInjective(g)
<1>1. n \in Nat /\ ExistsBijection(1..n, S)
  BY FS_CardinalityType
<1>2. PICK g : g \in Bijection(1..n, S)
  BY <1>1 DEF ExistsBijection
<1>3. Once(g)
  BY <1>2 DEF Bijection, Injection, IsInjective
<1>4. SetToSeq(S) = CHOOSE f \in [1..n -> S] : IsInjective(f)
  BY DEF SetToSeq
<1>5. SetToSeq(S) \in [1..n -> S] /\ IsInjective(SetToSeq(S))
  <2> HIDE DEF n
  <2> QED BY <1>3, <1>4
<1> DEFINE f == SetToSeq(S)
<1> HIDE DEF n, f
<1>6. f \in [1..n -> S] /\ \A i, j \in 1..n : f[i] = f[j] => i = j
  BY <1>5 DEF IsInjective, f
<1>7. f \in Surjection(1..n, S)
  <2>1. f \in Injection(1..n, S)
    BY <1>6 DEF Injection, IsInjective
  <2>2. IsFiniteSet(1..n) /\ Cardinality(1..n) = n
    BY <1>1, FS_Interval
  <2> QED BY <2>1, <2>2, FS_Injection DEF n
<1>8. \A x \in S : \E i \in 1..n : f[i] = x
  BY <1>7 DEF Surjection
<1> QED BY <1>1, <1>6, <1>8 DEF Lists, f

\* Where the elements of two sequences are when they are joined.
LEMMA PlacesInJoined ==
  ASSUME NEW A, NEW a \in Seq(A), NEW b \in Seq(A), NEW i \in (Len(a) + 1)..(Len(a) + Len(b))
  PROVE  (a \o b)[i] = b[i - Len(a)]
OBVIOUS

\* Two lists of disjoint sets, one after the other, list both sets.
LEMMA ListedTogether ==
  ASSUME NEW f, NEW n, NEW S, Lists(f, n, S), NEW g, NEW m, NEW T, Lists(g, m, T), S \cap T = {}
  PROVE  Lists(f \o g, n + m, S \cup T)
<1>1. n \in Nat /\ m \in Nat /\ f \in [1..n -> S] /\ g \in [1..m -> T]
  BY DEF Lists
<1>2. /\ DOMAIN (f \o g) = 1..(n + m)
      /\ \A i \in 1..n : (f \o g)[i] = f[i]
      /\ \A i \in (n + 1)..(n + m) : (f \o g)[i] = g[i - n]
      /\ f \o g \in Seq(S \cup T)
  <2>1. f \in Seq(S \cup T) /\ Len(f) = n /\ g \in Seq(S \cup T) /\ Len(g) = m
    BY <1>1
  <2>2. f \o g \in Seq(S \cup T) /\ Len(f \o g) = n + m
    BY <2>1
  <2>3. DOMAIN (f \o g) = 1..(n + m)
    BY <1>1, <2>2
  <2>4. ASSUME NEW i \in 1..n PROVE (f \o g)[i] = f[i]
    BY <1>1, <2>1
  <2>5. ASSUME NEW i \in (n + 1)..(n + m) PROVE (f \o g)[i] = g[i - n]
    BY <1>1, <2>1
  <2> QED BY <2>2, <2>3, <2>4, <2>5
<1> DEFINE h == f \o g
<1> HIDE DEF h
<1>3. \A i \in 1..(n + m) : i \in 1..n \/ i \in (n + 1)..(n + m)
  BY <1>1
<1>4. \A i \in (n + 1)..(n + m) : i - n \in 1..m
  BY <1>1
<1>5. h \in [1..(n + m) -> S \cup T]
  <2>1. h \in Seq(S \cup T) /\ DOMAIN h = 1..(n + m)
    BY <1>2 DEF h
  <2>2. h \in [1..Len(h) -> S \cup T] /\ DOMAIN h = 1..Len(h)
    BY <2>1
  <2> QED BY <2>1, <2>2
<1>6. ASSUME NEW i \in 1..(n + m), NEW j \in 1..(n + m), h[i] = h[j]
      PROVE  i = j
  <2>1. CASE i \in 1..n /\ j \in 1..n
    BY <1>2, <1>6, <2>1 DEF h, Lists
  <2>2. CASE i \in (n + 1)..(n + m) /\ j \in (n + 1)..(n + m)
    <3>1. i - n = j - n
      BY <1>2, <1>4, <1>6, <2>2 DEF h, Lists
    <3> QED BY <1>1, <3>1
  <2>3. CASE i \in 1..n /\ j \in (n + 1)..(n + m)
    <3>1. h[i] \in S /\ h[j] \in T
      BY <1>1, <1>2, <1>4, <2>3 DEF h
    <3> QED BY <1>6, <3>1
  <2>4. CASE j \in 1..n /\ i \in (n + 1)..(n + m)
    <3>1. h[j] \in S /\ h[i] \in T
      BY <1>1, <1>2, <1>4, <2>4 DEF h
    <3> QED BY <1>6, <3>1
  <2> QED BY <1>3, <2>1, <2>2, <2>3, <2>4
<1>7. ASSUME NEW x \in S \cup T
      PROVE  \E i \in 1..(n + m) : h[i] = x
  <2>1. CASE x \in S
    <3>1. PICK i \in 1..n : f[i] = x
      BY <2>1 DEF Lists
    <3>2. i \in 1..(n + m) /\ h[i] = x
      BY <1>1, <1>2, <3>1 DEF h
    <3> QED BY <3>2
  <2>2. CASE x \in T
    <3>1. PICK i \in 1..m : g[i] = x
      BY <2>2 DEF Lists
    <3> DEFINE k == n + i
    <3>2. k \in (n + 1)..(n + m) /\ k \in 1..(n + m) /\ k - n = i
      BY <1>1
    <3> HIDE DEF k
    <3>3. h[k] = g[k - n]
      BY <1>2, <3>2 DEF h
    <3> QED BY <3>1, <3>2, <3>3
  <2> QED BY <2>1, <2>2
<1>8. n + m \in Nat
  BY <1>1
<1> QED BY <1>5, <1>6, <1>7, <1>8 DEF Lists, h

\* s is made of the list f, element by element.
Made(s, made, f, n) == s = [i \in 1..n |-> made[f[i]]]

\* What is made of each element of two lists makes one list, too.
LEMMA MadeTogether ==
  ASSUME NEW f, NEW n, NEW S, Lists(f, n, S), NEW g, NEW m, NEW T, Lists(g, m, T),
         NEW made, S \cup T \subseteq DOMAIN made,
         NEW a, Made(a, made, f, n), NEW b, Made(b, made, g, m)
  PROVE  Made(a \o b, made, f \o g, n + m)
<1> DEFINE h == f \o g
           M == {made[x] : x \in S \cup T}
<1>1. n \in Nat /\ m \in Nat /\ f \in [1..n -> S] /\ g \in [1..m -> T]
  BY DEF Lists
<1>2. \A i \in 1..n : made[f[i]] \in M
  BY <1>1
<1>3. \A i \in 1..m : made[g[i]] \in M
  BY <1>1
<1> HIDE DEF M
<1>4. a \in Seq(M) /\ Len(a) = n
  BY <1>1, <1>2 DEF Made
<1>5. b \in Seq(M) /\ Len(b) = m
  BY <1>1, <1>3 DEF Made
<1>6. f \in Seq(S \cup T) /\ Len(f) = n /\ g \in Seq(S \cup T) /\ Len(g) = m
  BY <1>1
<1>7. a \o b \in Seq(M) /\ Len(a \o b) = n + m
  BY <1>4, <1>5
<1>8. a \o b = [i \in 1..(n + m) |-> (a \o b)[i]]
  <2> DEFINE ab == a \o b
  <2>1. ab \in Seq(M) /\ Len(ab) = n + m
    BY <1>7
  <2> HIDE DEF ab
  <2>2. ab \in [1..Len(ab) -> M]
    BY <2>1
  <2>3. ab = [i \in 1..(n + m) |-> ab[i]]
    BY <2>1, <2>2
  <2> QED BY <2>3 DEF ab
<1>9. ASSUME NEW i \in 1..(n + m) PROVE (a \o b)[i] = made[h[i]]
  <2>1. CASE i <= n
    <3>1. i \in 1..n
      BY <1>1, <2>1
    <3>2. (a \o b)[i] = a[i]
      BY <1>1, <1>4, <1>5, <3>1
    <3>3. h[i] = f[i]
      BY <1>1, <1>6, <3>1
    <3>4. a[i] = made[f[i]]
      BY <3>1 DEF Made
    <3> QED BY <3>2, <3>3, <3>4
  <2>2. CASE ~(i <= n)
    <3>1. i - n \in 1..m /\ i \in (n + 1)..(n + m)
      BY <1>1, <2>2
    <3>2. (a \o b)[i] = b[i - n]
      BY <1>4, <1>5, <3>1, PlacesInJoined
    <3>3. h[i] = g[i - n]
      BY <1>1, <1>6, <3>1
    <3>4. b[i - n] = made[g[i - n]]
      BY <3>1 DEF Made
    <3> QED BY <3>2, <3>3, <3>4
  <2> QED BY <2>1, <2>2
<1> HIDE DEF h
<1>10. a \o b = [i \in 1..(n + m) |-> made[h[i]]]
  BY <1>8, <1>9
<1> QED BY <1>10 DEF Made, h

\* Where a list has what becomes c, and which elements of a set become c.
PlacesOf(c, made, f, n) == {i \in 1..n : made[f[i]] = c}
MakersOf(c, made, S) == {x \in S : made[x] = c}

\* A list has as many places for what is made as the set has elements that make it.
LEMMA CountedOnList ==
  ASSUME NEW f, NEW n, NEW S, Lists(f, n, S), NEW made, NEW c
  PROVE  Cardinality(PlacesOf(c, made, f, n)) = Cardinality(MakersOf(c, made, S))
<1> DEFINE I == {i \in 1..n : made[f[i]] = c}
           X == {x \in S : made[x] = c}
           h == [i \in I |-> f[i]]
<1>1. n \in Nat /\ f \in [1..n -> S]
  BY DEF Lists
<1>2. h \in [I -> X]
  BY <1>1
<1>3. \A i, j \in I : h[i] = h[j] => i = j
  BY DEF Lists
<1>4. \A x \in X : \E i \in I : h[i] = x
  BY DEF Lists
<1>5. IsFiniteSet(I)
  BY <1>1, FS_Interval, FS_Subset
<1> HIDE DEF I, X, h
<1>6. h \in Bijection(I, X)
  BY <1>2, <1>3, <1>4 DEF Bijection, Injection, Surjection, IsInjective
<1> QED BY <1>5, <1>6, FS_Bijection DEF ExistsBijection, I, X, PlacesOf, MakersOf

\* The raw files of the laws, and those of the rulings, are listed as they are parsed.
LEMMA DocumentsListed ==
  ASSUME Building, NEW type \in {"law", "case"}
  PROVE  \E n : LET f == SetToSeq(readable(type))
                IN /\ Lists(f, n, readable(type))
                   /\ documents(type) = [i \in 1..n |-> parse(f[i])]
                   /\ whole(type) = [i \in 1..n |-> chunk(parse(f[i]), raw[f[i]])]
<1> DEFINE f == SetToSeq(readable(type))
<1>1. readable(type) \subseteq {p \in RawFiles : raw[p] # Absent}
  BY DEF readable, there, RawFiles
<1>2. IsFiniteSet(readable(type))
  BY <1>1, FS_Subset DEF Building
<1>3. PICK n : Lists(f, n, readable(type))
  BY <1>2, SetListed
<1>4. DOMAIN f = 1..n
  BY <1>3 DEF Lists
<1>5. documents(type) = [i \in DOMAIN f |-> parse(f[i])]
  BY DEF documents, readable
<1> HIDE DEF f
<1>6. documents(type) = [i \in 1..n |-> parse(f[i])]
  BY <1>4, <1>5
<1>7. \A i \in 1..n : documents(type)[i] = parse(f[i]) /\ parse(f[i]).parsed = raw[f[i]]
  BY <1>6 DEF parse
<1>8. DOMAIN documents(type) = 1..n
  BY <1>6
<1>9. whole(type) = [i \in 1..n |-> chunk(documents(type)[i], documents(type)[i].parsed)]
  BY <1>8 DEF whole
<1>10. whole(type) = [i \in 1..n |-> chunk(parse(f[i]), raw[f[i]])]
  BY <1>7, <1>9
<1> QED BY <1>3, <1>6, <1>10 DEF f

\* So all of them are listed, for the merged documents and for the served chunks.
LEMMA CorpusListed ==
  ASSUME Building
  PROVE  \E f, n :
           /\ Lists(f, n, readable("law") \cup readable("case"))
           /\ documents("law") \o documents("case") = [i \in 1..n |-> parse(f[i])]
           /\ whole("law") \o whole("case") = [i \in 1..n |-> chunk(parse(f[i]), raw[f[i]])]
<1> DEFINE S == readable("law")
           T == readable("case")
           f == SetToSeq(S)
           g == SetToSeq(T)
           docs == [p \in S \cup T |-> parse(p)]
           made == [p \in S \cup T |-> chunk(parse(p), raw[p])]
<1>1. PICK n : /\ Lists(f, n, S)
               /\ documents("law") = [i \in 1..n |-> parse(f[i])]
               /\ whole("law") = [i \in 1..n |-> chunk(parse(f[i]), raw[f[i]])]
  BY DocumentsListed
<1>2. PICK m : /\ Lists(g, m, T)
               /\ documents("case") = [i \in 1..m |-> parse(g[i])]
               /\ whole("case") = [i \in 1..m |-> chunk(parse(g[i]), raw[g[i]])]
  BY DocumentsListed
<1>3. S \cap T = {}
  <2>1. \A p \in S : p[1] = "laws"
    BY DEF readable, there, Paths, path
  <2>2. \A p \in T : p[1] = "cases"
    BY DEF readable, there, Paths, path
  <2> QED BY <2>1, <2>2
<1> DEFINE h == f \o g
<1>4. Lists(h, n + m, S \cup T)
  BY <1>1, <1>2, <1>3, ListedTogether
<1> HIDE DEF S, T, f, g, h
<1>5. /\ \A i \in 1..n : f[i] \in S \cup T
      /\ \A i \in 1..m : g[i] \in S \cup T
      /\ \A i \in 1..(n + m) : h[i] \in S \cup T
  BY <1>1, <1>2, <1>4 DEF Lists
<1>6. Made(documents("law"), docs, f, n) /\ Made(documents("case"), docs, g, m)
  BY <1>1, <1>2, <1>5 DEF Made
<1>7. Made(whole("law"), made, f, n) /\ Made(whole("case"), made, g, m)
  BY <1>1, <1>2, <1>5 DEF Made
<1>8. S \cup T \subseteq DOMAIN docs /\ S \cup T \subseteq DOMAIN made
  OBVIOUS
<1>9. /\ \A i \in 1..(n + m) : docs[h[i]] = parse(h[i])
      /\ \A i \in 1..(n + m) : made[h[i]] = chunk(parse(h[i]), raw[h[i]])
  BY <1>5
<1> HIDE DEF docs, made
<1>10. Made(documents("law") \o documents("case"), docs, h, n + m)
  BY <1>1, <1>2, <1>6, <1>8, MadeTogether DEF h
<1>11. Made(whole("law") \o whole("case"), made, h, n + m)
  BY <1>1, <1>2, <1>7, <1>8, MadeTogether DEF h
<1>12. documents("law") \o documents("case") = [i \in 1..(n + m) |-> parse(h[i])]
  BY <1>9, <1>10 DEF Made
<1>13. whole("law") \o whole("case") = [i \in 1..(n + m) |-> chunk(parse(h[i]), raw[h[i]])]
  BY <1>9, <1>11 DEF Made
<1> QED BY <1>4, <1>12, <1>13 DEF S, T

\* f[k] is what the first k documents leave, up to the n-th.
Seen(merged, d) == \E i \in DOMAIN merged : merged[i].doc_id = d.doc_id
Merges(f, docs, n) ==
  f = [k \in 0..n |-> IF k = 0 THEN <<>>
                      ELSE IF Seen(f[k - 1], docs[k]) THEN f[k - 1]
                      ELSE Append(f[k - 1], docs[k])]

\* One document more is looked at in each step.
LEMMA MergesStep ==
  ASSUME NEW docs, NEW n \in Nat, NEW f, Merges(f, docs, n)
  PROVE  /\ f[0] = <<>>
         /\ \A k \in 1..n : f[k] = IF Seen(f[k - 1], docs[k]) THEN f[k - 1]
                                   ELSE Append(f[k - 1], docs[k])
<1> DEFINE h == [k \in 0..n |-> IF k = 0 THEN <<>>
                                ELSE IF Seen(f[k - 1], docs[k]) THEN f[k - 1]
                                ELSE Append(f[k - 1], docs[k])]
<1>1. f = h
  BY DEF Merges
<1>2. /\ h[0] = <<>>
      /\ \A k \in 1..n : h[k] = IF Seen(f[k - 1], docs[k]) THEN f[k - 1]
                                ELSE Append(f[k - 1], docs[k])
  OBVIOUS
<1> HIDE DEF h
<1> QED BY <1>1, <1>2

\* Any number of documents can be merged.
LEMMA MergesExists ==
  ASSUME NEW docs, NEW n \in Nat
  PROVE  \E f : Merges(f, docs, n)
<1> DEFINE Mergeable(k) == \E f : Merges(f, docs, k)
           Failing == {k \in Nat : ~Mergeable(k)}
<1>1. Mergeable(0)
  <2>1. Merges([k \in 0..0 |-> <<>>], docs, 0)
    BY DEF Merges
  <2> QED BY <2>1
<1>2. ASSUME NEW k \in Nat, Mergeable(k) PROVE Mergeable(k + 1)
  <2>1. PICK f : Merges(f, docs, k)
    BY <1>2
  <2> DEFINE g == [j \in 0..(k + 1) |-> IF j = 0 THEN <<>>
                                        ELSE IF Seen(f[j - 1], docs[j]) THEN f[j - 1]
                                        ELSE Append(f[j - 1], docs[j])]
  <2>2. \A j \in 0..k : f[j] = g[j]
    <3> TAKE j \in 0..k
    <3>1. CASE j = 0
      BY <2>1, <3>1, MergesStep
    <3>2. CASE j # 0
      BY <2>1, <3>2, MergesStep
    <3> QED BY <3>1, <3>2
  <2>3. \A j \in 0..(k + 1) : j # 0 => j - 1 \in 0..k
    OBVIOUS
  <2>4. Merges(g, docs, k + 1)
    BY <2>2, <2>3 DEF Merges
  <2> QED BY <2>4
<1> HIDE DEF Mergeable
<1>3. Failing = {}
  <2> SUFFICES ASSUME Failing # {} PROVE FALSE
    OBVIOUS
  <2>1. PICK k \in Failing : \A m \in Failing : k <= m
    BY LeastNatural
  <2>2. k # 0 /\ k - 1 \in Nat /\ k - 1 \notin Failing
    BY <1>1, <2>1
  <2> QED BY <1>2, <2>1, <2>2
<1> QED BY <1>3 DEF Mergeable

\* Merging goes from the first document to the last.
LEMMA MergedIsLast ==
  ASSUME NEW docs, Len(docs) \in Nat
  PROVE  \E f : Merges(f, docs, Len(docs)) /\ merge_jsonl_files(docs) = f[Len(docs)]
<1> DEFINE F == CHOOSE f : Merges(f, docs, Len(docs))
<1>1. Merges(F, docs, Len(docs))
  <2>1. PICK f : Merges(f, docs, Len(docs))
    BY MergesExists
  <2> QED BY <2>1, Zenon
<1>2. merge_jsonl_files(docs) = F[Len(docs)]
  BY DEF merge_jsonl_files, Merges, Seen
<1> QED BY <1>1, <1>2

\* merged names what docs names, each name once.
NamesOnce(merged, docs) ==
  /\ {merged[i].doc_id : i \in DOMAIN merged} = {docs[i].doc_id : i \in DOMAIN docs}
  /\ \A i, j \in DOMAIN merged : merged[i].doc_id = merged[j].doc_id => i = j

\* Each document is merged once: the first one of its name.
LEMMA MergedOnce ==
  ASSUME NEW A, NEW docs \in Seq(A)
  PROVE  NamesOnce(merge_jsonl_files(docs), docs)
<1> DEFINE n == Len(docs)
<1>1. n \in Nat /\ DOMAIN docs = 1..n /\ \A k \in 1..n : docs[k] \in A
  OBVIOUS
<1>2. PICK f : Merges(f, docs, n) /\ merge_jsonl_files(docs) = f[n]
  BY <1>1, MergedIsLast
<1> DEFINE Ids(s) == {s[i].doc_id : i \in DOMAIN s}
           Right(k) == /\ f[k] \in Seq(A)
                       /\ Ids(f[k]) = {docs[i].doc_id : i \in 1..k}
                       /\ \A i, j \in DOMAIN f[k] : f[k][i].doc_id = f[k][j].doc_id => i = j
           Failing == {k \in 0..n : ~Right(k)}
<1> HIDE DEF n
<1>3. Right(0)
  <2>1. f[0] = <<>>
    BY <1>1, <1>2, MergesStep
  <2> QED BY <2>1
<1>4. ASSUME NEW k \in 1..n, Right(k - 1) PROVE Right(k)
  <2> DEFINE before == f[k - 1]
             d == docs[k]
             after == f[k]
  <2>1. after = IF Seen(before, d) THEN before ELSE Append(before, d)
    BY <1>1, <1>2, MergesStep
  <2>2. before \in Seq(A) /\ d \in A
    BY <1>1, <1>4
  <2>3. Ids(before) = {docs[i].doc_id : i \in 1..(k - 1)}
    BY <1>4
  <2>4. \A i, j \in DOMAIN before : before[i].doc_id = before[j].doc_id => i = j
    BY <1>4
  <2>5. {docs[i].doc_id : i \in 1..k} = {docs[i].doc_id : i \in 1..(k - 1)} \cup {d.doc_id}
    <3>1. \A i : i \in 1..k <=> i \in 1..(k - 1) \/ i = k
      BY <1>1
    <3> QED BY <3>1
  <2> HIDE DEF before, d, after
  <2>6. CASE Seen(before, d)
    <3>1. after = before /\ d.doc_id \in Ids(before)
      BY <2>1, <2>6 DEF Seen
    <3>2. after \in Seq(A)
      BY <2>2, <3>1
    <3>3. Ids(after) = {docs[i].doc_id : i \in 1..k}
      BY <2>3, <2>5, <3>1
    <3>4. \A i, j \in DOMAIN after : after[i].doc_id = after[j].doc_id => i = j
      BY <2>4, <3>1
    <3> QED BY <3>2, <3>3, <3>4 DEF after
  <2>7. CASE ~Seen(before, d)
    <3>1. after = Append(before, d)
      BY <2>1, <2>7
    <3>2. /\ Len(before) \in Nat /\ DOMAIN before = 1..Len(before)
          /\ DOMAIN after = 1..(Len(before) + 1)
          /\ \A i \in 1..Len(before) : after[i] = before[i]
          /\ after[Len(before) + 1] = d
      BY <2>2, <3>1
    <3>3. after \in Seq(A)
      BY <2>2, <3>1
    <3>4. Ids(after) = Ids(before) \cup {d.doc_id}
      BY <3>2
    <3>5. \A i \in DOMAIN before : before[i].doc_id # d.doc_id
      BY <2>7 DEF Seen
    <3>6. \A i, j \in DOMAIN after : after[i].doc_id = after[j].doc_id => i = j
      BY <2>4, <3>2, <3>5
    <3>7. Ids(after) = {docs[i].doc_id : i \in 1..k}
      BY <2>3, <2>5, <3>4
    <3> QED BY <3>3, <3>6, <3>7 DEF after
  <2> QED BY <2>6, <2>7
<1> HIDE DEF Right
<1>5. Failing = {}
  <2> SUFFICES ASSUME Failing # {} PROVE FALSE
    OBVIOUS
  <2>1. Failing \subseteq Nat
    BY <1>1
  <2>2. PICK k \in Failing : \A m \in Failing : k <= m
    BY <2>1, LeastNatural
  <2>3. k \in 1..n /\ k - 1 \in 0..n /\ k - 1 \notin Failing
    BY <1>1, <1>3, <2>2
  <2> QED BY <1>4, <2>2, <2>3
<1>6. Right(n)
  BY <1>1, <1>5
<1> QED BY <1>1, <1>2, <1>6 DEF Right, NamesOnce

\* A build that was finished serves the chunks of the raw files, each one once, and the
\* merged documents name each document once, whatever was killed before
\* (export_chunk_sets, build_chunk_record, merge_jsonl_files).
THEOREM BuildIsCurrent == Spec => []BuildMatchesDisk
<1>1. Building => BuildMatchesDisk
  <2> SUFFICES ASSUME Building, build = "chunked" PROVE BuildMatchesDisk
    BY DEF BuildMatchesDisk
  <2> DEFINE parsed == {p \in there("law") \cup there("case") : raw[p].kept # "head"}
             served == jsonl["legal_chunks.jsonl"]
             merged == jsonl["documents.jsonl"]
             docs == documents("law") \o documents("case")
             made == [p \in parsed |-> chunk(parse(p), raw[p])]
  <2>1. parsed = readable("law") \cup readable("case")
    BY DEF readable
  <2>2. PICK f, n : /\ Lists(f, n, readable("law") \cup readable("case"))
                    /\ docs = [i \in 1..n |-> parse(f[i])]
                    /\ whole("law") \o whole("case") = [i \in 1..n |-> chunk(parse(f[i]), raw[f[i]])]
    BY CorpusListed
  <2>3. served = whole("law") \o whole("case") /\ merged = merge_jsonl_files(docs)
    BY DEF Building, Parsed, Served, Holds, merged_documents, legal_chunks, writing
  <2> HIDE DEF parsed, served, merged, docs
  <2>4. Lists(f, n, parsed)
    BY <2>1, <2>2
  <2>5. n \in Nat /\ f \in [1..n -> parsed] /\ \A p \in parsed : \E i \in 1..n : f[i] = p
    BY <2>4 DEF Lists
  <2>6. served = [i \in 1..n |-> made[f[i]]]
    BY <2>2, <2>3, <2>5
  <2>7. \A p \in parsed : made[p] = chunk(parse(p), raw[p])
    OBVIOUS
  <2> HIDE DEF made
  <2>8. DOMAIN served = 1..n /\ \A i \in 1..n : served[i] = made[f[i]]
    BY <2>6
  <2>9. ToSet(served) = {chunk(parse(p), raw[p]) : p \in parsed}
    <3>1. ToSet(served) = {made[f[i]] : i \in 1..n}
      BY <2>8 DEF ToSet
    <3>2. {made[f[i]] : i \in 1..n} = {made[p] : p \in parsed}
      BY <2>5
    <3> QED BY <2>7, <3>1, <3>2
  <2>10. ASSUME NEW c
         PROVE  Cardinality({i \in DOMAIN served : served[i] = c})
                  = Cardinality({p \in parsed : chunk(parse(p), raw[p]) = c})
    <3>1. {i \in DOMAIN served : served[i] = c} = PlacesOf(c, made, f, n)
      BY <2>8 DEF PlacesOf
    <3>2. {p \in parsed : chunk(parse(p), raw[p]) = c} = MakersOf(c, made, parsed)
      BY <2>7 DEF MakersOf
    <3> QED BY <2>4, <3>1, <3>2, CountedOnList
  <2>11. docs \in Seq({parse(p) : p \in parsed}) /\ DOMAIN docs = 1..n
    BY <2>2, <2>5
  <2>12. {docs[i].doc_id : i \in DOMAIN docs} = {parse(p).doc_id : p \in parsed}
    <3>1. \A i \in 1..n : docs[i] = parse(f[i])
      BY <2>2
    <3> QED BY <2>5, <2>11, <3>1
  <2>13. /\ {merged[i].doc_id : i \in DOMAIN merged} = {docs[i].doc_id : i \in DOMAIN docs}
         /\ \A i, j \in DOMAIN merged : merged[i].doc_id = merged[j].doc_id => i = j
    <3> DEFINE A == {parse(p) : p \in parsed}
    <3> HIDE DEF A
    <3>1. docs \in Seq(A)
      BY <2>11 DEF A
    <3>2. NamesOnce(merge_jsonl_files(docs), docs)
      BY <3>1, MergedOnce
    <3> QED BY <2>3, <3>2 DEF NamesOnce
  <2>14. {merged[i].doc_id : i \in DOMAIN merged} = {parse(p).doc_id : p \in parsed}
    BY <2>12, <2>13
  <2> USE DEF parsed, served, merged
  <2> QED BY <2>9, <2>10, <2>13, <2>14 DEF BuildMatchesDisk
<1> QED BY <1>1, BuildInvariant, PTL
=============================================================================
