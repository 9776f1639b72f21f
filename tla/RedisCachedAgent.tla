-------------------------- MODULE RedisCachedAgent --------------------------
(***************************************************************************)
(* CachedCorrectiveRAGAgent over RedisSemanticCache.  All the entries of a *)
(* key are one Redis string, so set is a GET, a filter and a SETEX of the  *)
(* whole list, get writes the list back when it drops expired entries, and *)
(* clear_namespace deletes the string; nothing makes these atomic, and the *)
(* clients are threads and processes that share only the server.  A step   *)
(* is one command at the server or one read of the client's clock.         *)
(*                                                                         *)
(* Clients and server are taken to have one clock.  Serialization is the   *)
(* identity on the entries this adapter writes.                            *)
(***************************************************************************)
EXTENDS CachePolicy

CONSTANTS Clients, NoRequest, NoResponse, NoEntry,
          MaxTime,      \* bounds the clock
          MaxRequests,  \* bounds the requests begun
          MaxClears,    \* bounds the calls of clear_namespace
          MaxFailures   \* bounds the Redis calls that raise

ASSUME ClientAssumption ==
  /\ {MaxTime, MaxRequests, MaxClears, MaxFailures} \subseteq Nat
  /\ NoRequest \notin Requests
  /\ NoResponse \notin Response
  /\ NoEntry \notin Entry

VARIABLES
  now, begun, clears, failures,
  value,     \* at the server: the entries of each key
  deadline,  \* at the server: when each key expires
  pc,        \* per client: the next operation of its request
  req, clock,
  entries,   \* per client: the list it has read and filtered
  resp,
  new,       \* per client: the entry that set appends
  reused,    \* per client: the entry a hit returned
  stored,    \* history: every entry written by a set
  quiet,     \* history: those no pending write of their key can drop
  cleared    \* history: those deleted when no write of their key was pending

budget == <<begun, clears, failures>>
server == <<value, deadline>>
local == <<req, clock, entries, resp, new, reused>>
history == <<stored, quiet, cleared>>
vars == <<now, budget, server, pc, local, history>>

key(c) == CacheKey(req[c])

Goto(c, from, to) == pc[c] = from /\ pc' = [pc EXCEPT ![c] = to]

Init ==
  /\ now = 0 /\ begun = 0 /\ clears = 0 /\ failures = 0
  /\ value = [k \in Keys |-> {}]
  /\ deadline = [k \in Keys |-> 0]
  /\ pc = [c \in Clients |-> "idle"]
  /\ req = [c \in Clients |-> NoRequest]
  /\ clock = [c \in Clients |-> Unread]
  /\ entries = [c \in Clients |-> {}]
  /\ resp = [c \in Clients |-> NoResponse]
  /\ new = [c \in Clients |-> NoEntry]
  /\ reused = [c \in Clients |-> NoEntry]
  /\ stored = {} /\ quiet = {} /\ cleared = {}

-----------------------------------------------------------------------------
(* The server's commands.                                                  *)

\* GET: {} stands for a missing key, which the adapter never stores as a value.
Read(k) == IF deadline[k] > now THEN value[k] ELSE {}

\* A slip, for the mutants: the key keeps the deadline it had.
SetWithoutRenewal(k, es) ==
  /\ value' = [value EXCEPT ![k] = es]
  /\ deadline' = [deadline EXCEPT ![k] = IF @ > now THEN @ ELSE now + TTL]

\* SETEX with the full TTL
SetEx(k, es) ==
  /\ value' = [value EXCEPT ![k] = es]
  /\ deadline' = [deadline EXCEPT ![k] = now + TTL]

\* A slip, for the mutants: another key than the one written is deleted.
DeleteNothing(k) == UNCHANGED server

\* DELETE
Delete(k) ==
  /\ value' = [value EXCEPT ![k] = {}]
  /\ deadline' = [deadline EXCEPT ![k] = 0]

\* _store_entries
store_entries(k, es) == IF es = {} THEN Delete(k) ELSE SetEx(k, es)

\* The clients that have read k's list and may still write it back.
Pending(k) ==
  {c \in Clients : /\ pc[c] \in {"filter", "prune", "setfilter", "setprune",
                                 "append", "setex"}
                   /\ key(c) = k}

-----------------------------------------------------------------------------
Tick ==
  /\ now < MaxTime
  /\ now' = now + 1
  /\ UNCHANGED <<budget, server, pc, local, history>>

Begin(c) ==
  /\ begun < MaxRequests
  /\ begun' = begun + 1
  /\ Goto(c, "idle", "get")
  /\ \E r \in Requests : req' = [req EXCEPT ![c] = r]
  /\ UNCHANGED <<now, clears, failures, server, clock, entries, resp, new,
                 reused, history>>

\* _live_entries: the GET.  Without a value there is nothing to filter.
ReadList(c, from, present, absent) ==
  /\ Goto(c, from, IF Read(key(c)) = {} THEN absent ELSE present)
  /\ entries' = [entries EXCEPT ![c] = Read(key(c))]
  /\ UNCHANGED <<now, budget, server, req, clock, resp, new, reused, history>>

\* A slip, for the mutants: expired entries are kept.
FilterNothing(c, from, prune, next) ==
  /\ Goto(c, from, next)
  /\ UNCHANGED <<now, budget, server, req, entries, resp, new, reused, history>>

\* _live_entries: drop what has expired, and write back if that is anything.
FilterList(c, from, prune, next) ==
  LET kept == live(entries[c], now) IN
  /\ Goto(c, from, IF kept = entries[c] THEN next ELSE prune)
  /\ entries' = [entries EXCEPT ![c] = kept]
  /\ UNCHANGED <<now, budget, server, req, resp, new, reused, history>>

PruneList(c, from, next) ==
  /\ Goto(c, from, next)
  /\ store_entries(key(c), entries[c])
  /\ UNCHANGED <<now, budget, local, history>>

Get(c) == ReadList(c, "get", "filter", "scan")
GetFilter(c) ==
  /\ FilterList(c, "filter", "prune", "scan")
  /\ clock' = [clock EXCEPT ![c] = now]
GetPrune(c) == PruneList(c, "prune", "scan")

\* A slip, for the mutants: the entry is returned instead of its response.
HitReturnsEntry(c) ==
  /\ Goto(c, "scan", "done")
  /\ \E e \in matches(entries[c], req[c].query) :
       /\ resp' = [resp EXCEPT ![c] = e]
       /\ reused' = [reused EXCEPT ![c] = e]
  /\ UNCHANGED <<now, budget, server, req, clock, entries, new, history>>

Hit(c) ==
  /\ Goto(c, "scan", "done")
  /\ \E e \in matches(entries[c], req[c].query) :
       /\ resp' = [resp EXCEPT ![c] = e.response]
       /\ reused' = [reused EXCEPT ![c] = e]
  /\ UNCHANGED <<now, budget, server, req, clock, entries, new, history>>

Miss(c) ==
  /\ Goto(c, "scan", "answer")
  /\ matches(entries[c], req[c].query) = {}
  /\ entries' = [entries EXCEPT ![c] = {}]
  /\ UNCHANGED <<now, budget, server, req, clock, resp, new, reused, history>>

Answer(c) ==
  /\ Goto(c, "answer", "set")
  /\ \E a \in AgentAnswers(req[c]) : resp' = [resp EXCEPT ![c] = a]
  /\ UNCHANGED <<now, budget, server, req, clock, entries, new, reused, history>>

\* The agent raises: the exception leaves answer.
AgentRaises(c) ==
  /\ Goto(c, "answer", "failed")
  /\ UNCHANGED <<now, budget, server, local, history>>

Reject(c) ==
  /\ Goto(c, "set", "done")
  /\ ~can_cache_response(resp[c])
  /\ UNCHANGED <<now, budget, server, local, history>>

SetGet(c) ==
  /\ ReadList(c, "set", "setfilter", "append")
  /\ can_cache_response(resp[c])
SetFilter(c) ==
  /\ FilterList(c, "setfilter", "setprune", "append")
  /\ UNCHANGED clock
SetPrune(c) == PruneList(c, "setprune", "append")

\* set: the new entry is stamped now, the list is written later.
AppendEntry(c) ==
  /\ Goto(c, "append", "setex")
  /\ new' = [new EXCEPT ![c] = NewEntry(resp[c], now)]
  /\ entries' = [entries EXCEPT ![c] = @ \cup {new'[c]}]
  /\ UNCHANGED <<now, budget, server, req, clock, resp, reused, history>>

\* The write of set, as the server sees it.
WriteList(c) ==
  /\ store_entries(key(c), entries[c])
  /\ stored' = stored \cup {new[c]}
  /\ quiet' = IF Pending(key(c)) = {c} THEN quiet \cup {new[c]} ELSE quiet
  /\ cleared' = cleared \ {new[c]}

SetStore(c) ==
  /\ Goto(c, "setex", "done")
  /\ WriteList(c)
  /\ UNCHANGED <<now, budget, local>>

\* A call raises: the exception leaves answer, so the request has no response.
\* The server may have carried the command out before the client gave up.
RedisError(c) ==
  /\ failures < MaxFailures
  /\ failures' = failures + 1
  /\ pc[c] \in {"get", "prune", "set", "setprune", "setex"}
  /\ pc[c] = "set" => can_cache_response(resp[c])
  /\ \/ UNCHANGED <<server, history>>
     \/ /\ pc[c] \in {"prune", "setprune"}
        /\ store_entries(key(c), entries[c])
        /\ UNCHANGED history
     \/ /\ pc[c] = "setex"
        /\ WriteList(c)
  /\ pc' = [pc EXCEPT ![c] = "failed"]
  /\ resp' = [resp EXCEPT ![c] = NoResponse]
  /\ UNCHANGED <<now, begun, clears, req, clock, entries, new, reused>>

Finish(c) ==
  /\ pc[c] \in {"done", "failed"}
  /\ pc' = [pc EXCEPT ![c] = "idle"]
  /\ req' = [req EXCEPT ![c] = NoRequest]
  /\ clock' = [clock EXCEPT ![c] = Unread]
  /\ entries' = [entries EXCEPT ![c] = {}]
  /\ resp' = [resp EXCEPT ![c] = NoResponse]
  /\ new' = [new EXCEPT ![c] = NoEntry]
  /\ reused' = [reused EXCEPT ![c] = NoEntry]
  /\ UNCHANGED <<now, budget, server, history>>

\* clear_namespace, called by whoever operates the cache.
ClearNamespace(k) ==
  /\ clears < MaxClears
  /\ clears' = clears + 1
  /\ Delete(k)
  /\ quiet' = {e \in quiet : CacheKey(e.response.req) # k}
  /\ cleared' = IF Pending(k) = {} THEN cleared \cup value[k] ELSE cleared
  /\ UNCHANGED <<now, begun, failures, pc, local, stored>>

\* The bounds are used up and nobody waits for anything: the model may stop.
Rest ==
  /\ now = MaxTime /\ begun = MaxRequests /\ clears = MaxClears
  /\ \A c \in Clients : pc[c] = "idle"
  /\ UNCHANGED vars

Step(c) ==
  \/ Get(c) \/ GetFilter(c) \/ GetPrune(c) \/ Hit(c) \/ Miss(c) \/ Answer(c)
  \/ AgentRaises(c) \/ Reject(c) \/ SetGet(c) \/ SetFilter(c) \/ SetPrune(c) \/ AppendEntry(c)
  \/ SetStore(c) \/ RedisError(c) \/ Finish(c)

Next ==
  \/ Tick \/ Rest
  \/ \E c \in Clients : Begin(c) \/ Step(c)
  \/ \E k \in Keys : ClearNamespace(k)

Spec == Init /\ [][Next]_vars

-----------------------------------------------------------------------------
(* Properties.                                                             *)

PCs == {"idle", "get", "filter", "prune", "scan", "answer", "set", "setfilter",
        "setprune", "append", "setex", "done", "failed"}

\* The types of the variables.
TypeOK ==
  /\ now \in 0..MaxTime
  /\ begun \in 0..MaxRequests /\ clears \in 0..MaxClears
  /\ failures \in 0..MaxFailures
  /\ value \in [Keys -> SUBSET Entry]
  /\ deadline \in [Keys -> Nat]
  /\ pc \in [Clients -> PCs]
  /\ req \in [Clients -> Requests \cup {NoRequest}]
  /\ clock \in [Clients -> {Unread} \cup 0..MaxTime]
  /\ entries \in [Clients -> SUBSET Entry]
  /\ resp \in [Clients -> Response \cup {NoResponse}]
  /\ new \in [Clients -> Entry \cup {NoEntry}]
  /\ reused \in [Clients -> Entry \cup {NoEntry}]
  /\ stored \in SUBSET Entry
  /\ quiet \in SUBSET stored
  /\ cleared \in SUBSET stored

\* The server holds, under each key, only answers made for that key that the
\* policy lets be cached, however the writers' read-modify-writes interleave
\* and whichever of them fails (ADR 013:13-18).
ServerHoldsCacheable ==
  \A k \in Keys : \A e \in value[k] :
    /\ CacheKey(e.response.req) = k
    /\ e.response.outcome = "answered"
    /\ e.response.req.query \notin Exact
    /\ \A p \in e.response.sources : ClassOf[p] = "public"

\* An entry written while no other client was between its GET and its write of
\* the same key stays readable until it expires (or is cleared): later writers
\* carry it along, and the key's own deadline, renewed by every SETEX, is never
\* earlier than the entry's.  An entry with a pending writer can be lost.
QuietStoreSurvives ==
  \A e \in quiet : e.expires > now => e \in Read(CacheKey(e.response.req))

\* What clear_namespace deletes while no write of the key is pending does not
\* come back; a pending writer may put back a list that it read before.
QuietClearIsFinal == \A k \in Keys : Read(k) \cap cleared = {}

-----------------------------------------------------------------------------
(* The Redis cache implements the abstract answer cache.                   *)

phase == [c \in Clients |->
  CASE pc[c] \in {"idle", "done", "failed"} -> pc[c]
    [] pc[c] \in {"get", "filter", "prune", "scan", "answer"} ->
         IF clock[c] = Unread THEN "asked" ELSE "looking"
    [] OTHER -> "generated"]

Promise == INSTANCE AnswerCache

\* Every request that Redis answers gets a fresh answer, or one stored earlier
\* under the same key and still unexpired when the client filtered the list; one
\* that fails in the middle gets none.
ImplementsAnswerCache == Promise!Spec
=============================================================================
