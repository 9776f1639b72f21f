------------------------ MODULE InMemoryCachedAgent ------------------------
(***************************************************************************)
(* CachedCorrectiveRAGAgent over one InMemorySemanticCache, as the API     *)
(* runs it: a synchronous endpoint, so requests run on the threads of a    *)
(* pool and share the cache, which takes no lock.  A step is one operation *)
(* on the shared dictionary or on one of its lists.                        *)
(*                                                                         *)
(* A Python list is an object: get replaces the list of its key by a new   *)
(* one, while a set that already holds the old one appends to it.  heap    *)
(* maps list identities to their contents.                                 *)
(***************************************************************************)
EXTENDS CachePolicy

CONSTANTS Threads, Lists, NoList, NoRequest, NoResponse, NoEntry,
          MaxTime,     \* bounds the clock
          MaxRequests  \* bounds the requests begun

ASSUME ThreadAssumption ==
  /\ MaxTime \in Nat /\ MaxRequests \in Nat
  /\ NoList \notin Lists
  /\ NoRequest \notin Requests
  /\ NoResponse \notin Response
  /\ NoEntry \notin Entry

VARIABLES
  now,
  begun,   \* the number of requests begun
  table,   \* self._entries: key to list, NoList for a key never looked up
  heap,    \* the contents of each list object
  pc,      \* per thread: the next operation of its request
  req, clock,
  list,    \* per thread: live_entries in get, the list it appends to in set
  resp,
  reused,  \* per thread: the entry a hit returned
  new,     \* per thread: the entry that set is about to append
  stored,  \* history: every entry whose set returned True
  clash,   \* history: a get of the same key replaced the list under this set
  quiet    \* history: the entries whose set no get of the same key overlapped

shared == <<table, heap>>
local == <<req, clock, list, resp, reused, new>>
history == <<stored, clash, quiet>>
vars == <<now, begun, shared, pc, local, history>>

key(t) == CacheKey(req[t])

Goto(t, from, to) == pc[t] = from /\ pc' = [pc EXCEPT ![t] = to]

Referenced == {table[k] : k \in Keys} \cup {list[t] : t \in Threads}

Init ==
  /\ now = 0 /\ begun = 0
  /\ table = [k \in Keys |-> NoList]
  /\ heap = [l \in Lists |-> {}]
  /\ pc = [t \in Threads |-> "idle"]
  /\ req = [t \in Threads |-> NoRequest]
  /\ clock = [t \in Threads |-> Unread]
  /\ list = [t \in Threads |-> NoList]
  /\ resp = [t \in Threads |-> NoResponse]
  /\ reused = [t \in Threads |-> NoEntry]
  /\ new = [t \in Threads |-> NoEntry]
  /\ stored = {} /\ quiet = {}
  /\ clash = [t \in Threads |-> FALSE]

-----------------------------------------------------------------------------
Tick ==
  /\ now < MaxTime
  /\ now' = now + 1
  /\ UNCHANGED <<begun, shared, pc, local, history>>

Begin(t) ==
  /\ begun < MaxRequests
  /\ begun' = begun + 1
  /\ Goto(t, "idle", "clock")
  /\ \E r \in Requests : req' = [req EXCEPT ![t] = r]
  /\ UNCHANGED <<now, shared, clock, list, resp, reused, new, history>>

\* get: now = time()
ReadClock(t) ==
  /\ Goto(t, "clock", "filter")
  /\ clock' = [clock EXCEPT ![t] = now]
  /\ UNCHANGED <<now, begun, shared, req, list, resp, reused, new, history>>

visible(k) == IF table[k] = NoList THEN {} ELSE heap[table[k]]

\* The identity of a list object about to be created.
NewList == CHOOSE l \in Lists : l \notin Referenced

\* A slip, for the mutants: expired entries are kept.
FilterNothing(t) ==
  /\ Goto(t, "filter", "writeback")
  /\ Lists \ Referenced # {}
  /\ heap' = [heap EXCEPT ![NewList] = visible(key(t))]
  /\ list' = [list EXCEPT ![t] = NewList]
  /\ UNCHANGED <<now, begun, table, req, clock, resp, reused, new, history>>

\* get: live_entries, a new list of the entries that have not expired
Filter(t) ==
  /\ Goto(t, "filter", "writeback")
  /\ Lists \ Referenced # {}
  /\ heap' = [heap EXCEPT ![NewList] = live(visible(key(t)), clock[t])]
  /\ list' = [list EXCEPT ![t] = NewList]
  /\ UNCHANGED <<now, begun, table, req, clock, resp, reused, new, history>>

\* Threads between setdefault and append on the same key as t.
appending(t) == {u \in Threads : pc[u] \in {"stamp", "append"} /\ key(u) = key(t)}

\* The lists that nothing refers to after the step are collected.
Collect == heap' = [l \in Lists |-> IF l \in Referenced' THEN heap[l] ELSE {}]

\* get: self._entries[key] = live_entries
WriteBack(t) ==
  /\ Goto(t, "writeback", "scan")
  /\ table' = [table EXCEPT ![key(t)] = list[t]]
  /\ clash' = [u \in Threads |-> clash[u] \/ u \in appending(t)]
  /\ UNCHANGED <<now, begun, local, stored, quiet>>
  /\ Collect

\* A slip, for the mutants: the entry is returned instead of its response.
HitReturnsEntry(t) ==
  /\ Goto(t, "scan", "done")
  /\ \E e \in matches(heap[list[t]], req[t].query) :
       /\ resp' = [resp EXCEPT ![t] = e]
       /\ reused' = [reused EXCEPT ![t] = e]
  /\ list' = [list EXCEPT ![t] = NoList]
  /\ UNCHANGED <<now, begun, table, req, clock, new, history>>
  /\ Collect

\* get: return the response of a similar entry ...
Hit(t) ==
  /\ Goto(t, "scan", "done")
  /\ \E e \in matches(heap[list[t]], req[t].query) :
       /\ resp' = [resp EXCEPT ![t] = e.response]
       /\ reused' = [reused EXCEPT ![t] = e]
  /\ list' = [list EXCEPT ![t] = NoList]
  /\ UNCHANGED <<now, begun, table, req, clock, new, history>>
  /\ Collect

\* ... or None, and the request goes on to the agent.
Miss(t) ==
  /\ Goto(t, "scan", "answer")
  /\ matches(heap[list[t]], req[t].query) = {}
  /\ list' = [list EXCEPT ![t] = NoList]
  /\ UNCHANGED <<now, begun, table, req, clock, resp, reused, new, history>>
  /\ Collect

Answer(t) ==
  /\ Goto(t, "answer", "set")
  /\ \E a \in AgentAnswers(req[t]) : resp' = [resp EXCEPT ![t] = a]
  /\ UNCHANGED <<now, begun, shared, req, clock, list, reused, new, history>>

\* The agent raises, on a request that RetrievalRequest rejects or an error of the
\* dense index: the exception leaves answer, and the request has no response.
AgentRaises(t) ==
  /\ Goto(t, "answer", "failed")
  /\ UNCHANGED <<now, begun, shared, local, history>>

\* set: return False
Reject(t) ==
  /\ Goto(t, "set", "done")
  /\ ~can_cache_response(resp[t])
  /\ UNCHANGED <<now, begun, shared, local, history>>

\* set: self._entries.setdefault(key, []).  The get of the same request has
\* put a list there and nothing removes it.
SetDefault(t) ==
  /\ Goto(t, "set", "stamp")
  /\ can_cache_response(resp[t])
  /\ list' = [list EXCEPT ![t] = table[key(t)]]
  /\ clash' = [clash EXCEPT ![t] = FALSE]
  /\ UNCHANGED <<now, begun, shared, req, clock, resp, reused, new, stored, quiet>>

\* set: _CacheEntry(...), which expires ttl_seconds after this time()
Stamp(t) ==
  /\ Goto(t, "stamp", "append")
  /\ new' = [new EXCEPT ![t] = NewEntry(resp[t], now)]
  /\ UNCHANGED <<now, begun, shared, req, clock, list, resp, reused, history>>

\* A get of the same key has read the old list and not yet replaced it.
overlapped(t) ==
  clash[t] \/ \E u \in Threads : pc[u] = "writeback" /\ key(u) = key(t)

\* A slip, for the mutants: the list is replaced by the new entry alone.
AppendReplaces(t) ==
  /\ Goto(t, "append", "done")
  /\ heap' = [heap EXCEPT ![list[t]] = {new[t]}]
  /\ stored' = stored \cup {new[t]}
  /\ quiet' = IF overlapped(t) THEN quiet ELSE quiet \cup {new[t]}
  /\ UNCHANGED <<now, begun, table, local, clash>>

\* set: .append(...), return True
Append(t) ==
  /\ Goto(t, "append", "done")
  /\ heap' = [heap EXCEPT ![list[t]] = @ \cup {new[t]}]
  /\ stored' = stored \cup {new[t]}
  /\ quiet' = IF overlapped(t) THEN quiet ELSE quiet \cup {new[t]}
  /\ UNCHANGED <<now, begun, table, local, clash>>

Finish(t) ==
  /\ pc[t] \in {"done", "failed"}
  /\ pc' = [pc EXCEPT ![t] = "idle"]
  /\ req' = [req EXCEPT ![t] = NoRequest]
  /\ clock' = [clock EXCEPT ![t] = Unread]
  /\ list' = [list EXCEPT ![t] = NoList]
  /\ resp' = [resp EXCEPT ![t] = NoResponse]
  /\ reused' = [reused EXCEPT ![t] = NoEntry]
  /\ new' = [new EXCEPT ![t] = NoEntry]
  /\ clash' = [clash EXCEPT ![t] = FALSE]
  /\ UNCHANGED <<now, begun, table, stored, quiet>>
  /\ Collect

Step(t) ==
  \/ ReadClock(t) \/ Filter(t) \/ WriteBack(t) \/ Hit(t) \/ Miss(t)
  \/ Answer(t) \/ AgentRaises(t) \/ Reject(t) \/ SetDefault(t) \/ Stamp(t)
  \/ Append(t) \/ Finish(t)

\* The bounds are used up and nobody waits for anything: the model may stop.
Rest ==
  /\ now = MaxTime /\ begun = MaxRequests
  /\ \A t \in Threads : pc[t] = "idle"
  /\ UNCHANGED vars

Next == Tick \/ Rest \/ \E t \in Threads : Begin(t) \/ Step(t)

Spec == Init /\ [][Next]_vars

-----------------------------------------------------------------------------
(* Properties.                                                             *)

PCs == {"idle", "clock", "filter", "writeback", "scan", "answer", "set",
        "stamp", "append", "done", "failed"}

\* The types of the variables.
TypeOK ==
  /\ now \in 0..MaxTime /\ begun \in 0..MaxRequests
  /\ table \in [Keys -> Lists \cup {NoList}]
  /\ heap \in [Lists -> SUBSET Entry]
  /\ pc \in [Threads -> PCs]
  /\ req \in [Threads -> Requests \cup {NoRequest}]
  /\ clock \in [Threads -> {Unread} \cup 0..MaxTime]
  /\ list \in [Threads -> Lists \cup {NoList}]
  /\ resp \in [Threads -> Response \cup {NoResponse}]
  /\ reused \in [Threads -> Entry \cup {NoEntry}]
  /\ new \in [Threads -> Entry \cup {NoEntry}]
  /\ stored \in SUBSET Entry
  /\ clash \in [Threads -> BOOLEAN]
  /\ quiet \in SUBSET stored

\* A cached answer is reused only for the role, jurisdiction, retrieval method,
\* source scope and validity date it was produced for, and a similar query: no
\* interleaving of get's write-back with set's append files an answer under
\* another namespace (app/cache.py:81-103, ADR 013).
ReuseWithinNamespace ==
  \A t \in Threads : reused[t] # NoEntry =>
    LET asked == req[t]
        made == reused[t].response.req
    IN /\ made.role = asked.role
       /\ JurisdictionName(made.jurisdiction) = JurisdictionName(asked.jurisdiction)
       /\ made.method = asked.method
       /\ made.source_types = asked.source_types
       /\ effective_as_of_date(made) = effective_as_of_date(asked)
       /\ <<asked.query, made.query>> \in Similar

\* Whatever is reused was a relevant answer, drawn from public chunks only, to a
\* query without an exact identifier, and had not expired when the request
\* read the clock (docs/architecture.md:13, semantic_cache.py:56-92).
ReuseIsPublicAndFresh ==
  \A t \in Threads : reused[t] # NoEntry =>
    /\ reused[t].response.outcome = "answered"
    /\ reused[t].response.grade = "relevant"
    /\ reused[t].response.req.query \notin Exact
    /\ \A c \in reused[t].response.sources : ClassOf[c] = "public"
    /\ reused[t].expires > clock[t]

\* No response, reused or fresh, cites a chunk that the RBAC filter would deny
\* the role that asked: a public chunk may still be closed to a role.
NoForeignSource ==
  \A t \in Threads : resp[t] # NoResponse =>
    resp[t].sources \subseteq Readable[req[t].role]

\* An answer whose set overlapped no get of its key stays where lookups find it
\* until it expires.  Overlapped ones can be lost, though set returned True: a
\* get that filtered the list before the append replaces it afterwards.
QuietStoreSurvives ==
  \A e \in quiet : e.expires > now => e \in visible(CacheKey(e.response.req))

-----------------------------------------------------------------------------
(* The threads' cache implements the abstract answer cache.                *)

phase == [t \in Threads |->
  CASE pc[t] \in {"idle", "done", "failed"} -> pc[t]
    [] pc[t] = "clock" -> "asked"
    [] pc[t] \in {"filter", "writeback", "scan", "answer"} -> "looking"
    [] pc[t] \in {"set", "stamp", "append"} -> "generated"]

Promise == INSTANCE AnswerCache WITH Clients <- Threads

\* Each step of the threads is a step of the abstract cache or invisible to it:
\* what a lookup returns was stored under the same key and is still fresh.
ImplementsAnswerCache == Promise!Spec

-----------------------------------------------------------------------------
(* What the documents say, and the code does not do.                       *)

\* "The namespace key prevents answers from crossing role or
\* corpus/model-version boundaries" (ADR 013:34).
ReuseWithinCorpus ==
  \A t \in Threads : reused[t] # NoEntry =>
    reused[t].response.req.corpus = req[t].corpus
=============================================================================
