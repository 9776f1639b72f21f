----------------------- MODULE RedisCachedAgentProofs -----------------------
(***************************************************************************)
(* What the Redis cache keeps and what it promises, for any number of      *)
(* clients, keys, failures and clears.                                     *)
(*                                                                         *)
(* The argument: a client carries a list of one key from its GET to its    *)
(* SETEX, so all that can be written under a key are entries of that key   *)
(* that were stored before, and the one that the client adds.              *)
(***************************************************************************)
EXTENDS RedisCachedAgent, TLAPS

\* e was made by the agent for a request of key k and may be cached.
EntryFor(e, k) ==
  /\ e \in Entry
  /\ e.response \in AgentAnswers(e.response.req)
  /\ can_cache_response(e.response)
  /\ CacheKey(e.response.req) = k

\* An agent's answer is a response to its request, within the role's reach.
LEMMA AnswerFacts ==
  ASSUME NEW r \in Requests, NEW a \in AgentAnswers(r)
  PROVE  /\ a \in Response
         /\ a.req = r
         /\ a.sources \subseteq Readable[r.role]
  BY PolicyAssumption DEF AgentAnswers, Answering, Response, Draft

\* The entry made of a cacheable answer is one of the request's key, and is
\* live for whoever read the clock before.
LEMMA NewEntryFacts ==
  ASSUME NEW r \in Requests, NEW a \in AgentAnswers(r), can_cache_response(a),
         NEW at \in Nat
  PROVE  /\ EntryFor(NewEntry(a, at), CacheKey(r))
         /\ \A c \in 0..at : NewEntry(a, at).expires > c
  <1> DEFINE e == NewEntry(a, at)
  <1>1. a \in Response /\ a.req = r
    BY AnswerFacts
  <1>2. e.response = a /\ e.expires = at + TTL /\ TTL \in Nat \ {0}
    BY PolicyAssumption DEF NewEntry
  <1>3. e \in Entry
    BY <1>1, <1>2 DEF NewEntry, Entry
  <1>4. EntryFor(e, CacheKey(r))
    BY <1>1, <1>2, <1>3 DEF EntryFor
  <1> QED
    BY <1>2, <1>4

\* Every request has a key.
LEMMA KeyInKeys ==
  ASSUME NEW r \in Requests
  PROVE  CacheKey(r) \in Keys
  BY DEF Keys

\* An entry was made for a request, which has a key.
LEMMA EntryKey ==
  ASSUME NEW e \in Entry
  PROVE  e.response.req \in Requests /\ CacheKey(e.response.req) \in Keys /\ e.expires \in Nat
  BY KeyInKeys DEF Entry, Response

-----------------------------------------------------------------------------
Running(c) == pc[c] # "idle"

\* Where a client has added its own entry to the list, and after that.
Added == {"setex", "done", "failed"}

\* What a client holds at each point of its request.
Control ==
  \A c \in Clients :
    /\ Running(c) => req[c] \in Requests
    /\ pc[c] = "idle" => entries[c] = {}
    /\ pc[c] \in {"idle", "get", "filter"} => clock[c] = Unread
    /\ pc[c] = "prune" => clock[c] \in 0..now
    /\ pc[c] = "scan" => clock[c] \in 0..now \/ entries[c] = {}
    /\ pc[c] \in {"set", "setfilter", "setprune", "append", "setex"} =>
         resp[c] \in AgentAnswers(req[c])
    /\ pc[c] \in {"setfilter", "setprune", "append", "setex"} => can_cache_response(resp[c])
    /\ pc[c] \in {"idle", "get", "filter", "prune", "scan", "answer"} => resp[c] = NoResponse
    /\ pc[c] = "setex" => new[c] \in entries[c] /\ \E at \in 0..now : new[c] = NewEntry(resp[c], at)
    /\ pc[c] \notin Added => new[c] = NoEntry

\* The server, and every client under way, hold entries of one key that were stored;
\* a lookup is about to return from a list without what has expired.
Filed ==
  /\ \A k \in Keys : \A e \in value[k] : EntryFor(e, k) /\ e \in stored
  /\ \A c \in Clients : Running(c) =>
       \A e \in entries[c] :
         EntryFor(e, key(c)) /\ (e \in stored \/ (pc[c] \in Added /\ e = new[c]))
  /\ \A c \in Clients : pc[c] \in {"prune", "scan"} =>
       \A e \in entries[c] : e.expires > clock[c]
  /\ \A e \in stored : e.expires <= now + TTL

IInv == TypeOK /\ Control /\ Filed

-----------------------------------------------------------------------------
\* What the server holds after a write, whichever command carries it out.
LEMMA StoreWrites ==
  ASSUME TypeOK, NEW k \in Keys, NEW es \in SUBSET Entry, store_entries(k, es)
  PROVE  /\ value' = [value EXCEPT ![k] = es]
         /\ value' \in [Keys -> SUBSET Entry]
         /\ deadline' \in [Keys -> Nat]
         /\ deadline' = [deadline EXCEPT ![k] = IF es = {} THEN 0 ELSE now + TTL]
  <1>1. now + TTL \in Nat
    BY PolicyAssumption, ClientAssumption DEF TypeOK
  <1>2. CASE es = {}
    BY <1>2 DEF TypeOK, store_entries, Delete
  <1>3. CASE es # {}
    BY <1>1, <1>3 DEF TypeOK, store_entries, SetEx
  <1> QED
    BY <1>2, <1>3

\* A GET returns what the server holds under the key, or nothing.
LEMMA ReadReturns ==
  ASSUME NEW k \in Keys
  PROVE  Read(k) \subseteq value[k]
  BY DEF Read

\* An entry that a client is about to store is one of its key.
LEMMA AddedEntry ==
  ASSUME IInv, NEW c \in Clients, pc[c] = "setex"
  PROVE  /\ EntryFor(new[c], key(c)) /\ new[c] \in Entry
         /\ new[c].expires <= now + TTL
         /\ new[c] \in entries[c]
  <1> PICK at \in 0..now : new[c] = NewEntry(resp[c], at)
    BY DEF IInv, Control
  <1>1. /\ req[c] \in Requests /\ resp[c] \in AgentAnswers(req[c]) /\ can_cache_response(resp[c])
        /\ now \in Nat /\ new[c] \in entries[c]
    BY ClientAssumption DEF IInv, TypeOK, Control, Running
  <1>2. EntryFor(new[c], key(c))
    BY <1>1, NewEntryFacts DEF key
  <1>3. new[c].expires = at + TTL
    BY DEF NewEntry
  <1> QED
    BY <1>1, <1>2, <1>3, PolicyAssumption DEF EntryFor

LEMMA ClientKey ==
  ASSUME IInv, NEW c \in Clients, Running(c)
  PROVE  req[c] \in Requests /\ key(c) \in Keys
  BY KeyInKeys DEF IInv, Control, key

-----------------------------------------------------------------------------
LEMMA InitIInv == Init => IInv
  BY ClientAssumption DEF Init, IInv, TypeOK, Control, Filed, Running, PCs, Added

LEMMA TickIInv ==
  ASSUME IInv, Tick
  PROVE  IInv'
  <1> USE DEF Tick, IInv, budget, server, local, history
  <1>1. TypeOK'
    BY ClientAssumption DEF TypeOK
  <1>2. Control'
    BY ClientAssumption DEF Control, TypeOK, Running
  <1>3. Filed'
    <2>1. \A e \in stored : e.expires <= now' + TTL
      BY ClientAssumption, PolicyAssumption, EntryKey DEF Filed, TypeOK
    <2> QED
      BY <2>1 DEF Filed, Running, key
  <1> QED
    BY <1>1, <1>2, <1>3

LEMMA BeginIInv ==
  ASSUME IInv, NEW c \in Clients, Begin(c)
  PROVE  IInv'
  <1> PICK r \in Requests : req' = [req EXCEPT ![c] = r]
    BY DEF Begin
  <1> USE DEF Begin, Goto, IInv, server, history
  <1>1. TypeOK'
    BY ClientAssumption DEF TypeOK, PCs
  <1>2. Control'
    BY DEF Control, TypeOK, Running, Added
  <1>3. Filed'
    BY DEF Control, Filed, TypeOK, Running, key, Added
  <1> QED
    BY <1>1, <1>2, <1>3

LEMMA ReadListIInv ==
  ASSUME IInv, NEW c \in Clients, Get(c) \/ SetGet(c)
  PROVE  IInv'
  <1> DEFINE es == Read(key(c))
  <1>1. /\ \/ pc[c] = "get" /\ pc' = [pc EXCEPT ![c] = IF es = {} THEN "scan" ELSE "filter"]
           \/ /\ pc[c] = "set" /\ pc' = [pc EXCEPT ![c] = IF es = {} THEN "append" ELSE "setfilter"]
              /\ can_cache_response(resp[c])
        /\ entries' = [entries EXCEPT ![c] = es]
        /\ UNCHANGED <<now, budget, server, req, clock, resp, new, reused, history>>
    BY DEF Get, SetGet, ReadList, Goto
  <1>2. Running(c) /\ req[c] \in Requests /\ key(c) \in Keys
    BY <1>1, ClientKey DEF Running
  <1>3. es \in SUBSET Entry /\ \A e \in es : EntryFor(e, key(c)) /\ e \in stored
    BY <1>2, ReadReturns DEF IInv, TypeOK, Filed
  <1> HIDE DEF es
  <1> USE DEF IInv, budget, server, history
  <1>4. TypeOK'
    BY <1>1, <1>3 DEF TypeOK, PCs
  <1>5. Control'
    BY <1>1 DEF Control, TypeOK, Running, Added
  <1>6. Filed'
    BY <1>1, <1>2, <1>3 DEF Filed, TypeOK, Running, key, Added
  <1> QED
    BY <1>4, <1>5, <1>6

LEMMA FilterListIInv ==
  ASSUME IInv, NEW c \in Clients, GetFilter(c) \/ SetFilter(c)
  PROVE  IInv'
  <1> DEFINE es == live(entries[c], now)
  <1>1. /\ \/ /\ pc[c] = "filter" /\ clock' = [clock EXCEPT ![c] = now]
              /\ pc' = [pc EXCEPT ![c] = IF es = entries[c] THEN "scan" ELSE "prune"]
           \/ /\ pc[c] = "setfilter" /\ clock' = clock
              /\ pc' = [pc EXCEPT ![c] = IF es = entries[c] THEN "append" ELSE "setprune"]
        /\ entries' = [entries EXCEPT ![c] = es]
        /\ UNCHANGED <<now, budget, server, req, resp, new, reused, history>>
    BY DEF GetFilter, SetFilter, FilterList, Goto
  <1>2. es \subseteq entries[c] /\ \A e \in es : e.expires > now
    BY DEF live
  <1>3. now \in 0..MaxTime
    BY DEF IInv, TypeOK
  <1> HIDE DEF es
  <1> USE DEF IInv, budget, server, history
  <1>4. TypeOK'
    BY <1>1, <1>2, <1>3 DEF TypeOK, PCs
  <1>5. Control'
    BY <1>1, <1>3, ClientAssumption DEF Control, TypeOK, Running, Added
  <1>6. Filed'
    BY <1>1, <1>2, <1>3 DEF Filed, TypeOK, Running, key, Added
  <1> QED
    BY <1>4, <1>5, <1>6

LEMMA PruneListIInv ==
  ASSUME IInv, NEW c \in Clients, GetPrune(c) \/ SetPrune(c)
  PROVE  IInv'
  <1>1. /\ \/ pc[c] = "prune" /\ pc' = [pc EXCEPT ![c] = "scan"]
           \/ pc[c] = "setprune" /\ pc' = [pc EXCEPT ![c] = "append"]
        /\ store_entries(key(c), entries[c])
        /\ UNCHANGED <<now, budget, local, history>>
    BY DEF GetPrune, SetPrune, PruneList, Goto
  <1>2. Running(c) /\ key(c) \in Keys
    BY <1>1, ClientKey DEF Running
  <1>3. entries[c] \in SUBSET Entry /\ \A e \in entries[c] : EntryFor(e, key(c)) /\ e \in stored
    BY <1>1, <1>2 DEF IInv, TypeOK, Filed, Added
  <1>4. /\ value' = [value EXCEPT ![key(c)] = entries[c]]
        /\ value' \in [Keys -> SUBSET Entry] /\ deadline' \in [Keys -> Nat]
    BY <1>1, <1>2, <1>3, StoreWrites DEF IInv
  <1> USE DEF IInv, budget, local, history
  <1>5. TypeOK'
    BY <1>1, <1>4 DEF TypeOK, PCs
  <1>6. Control'
    BY <1>1 DEF Control, TypeOK, Running, Added
  <1>7. Filed'
    BY <1>1, <1>2, <1>3, <1>4 DEF Filed, TypeOK, Running, key, Added
  <1> QED
    BY <1>5, <1>6, <1>7

LEMMA HitIInv ==
  ASSUME IInv, NEW c \in Clients, Hit(c)
  PROVE  IInv'
  <1> PICK e \in matches(entries[c], req[c].query) :
           /\ resp' = [resp EXCEPT ![c] = e.response]
           /\ reused' = [reused EXCEPT ![c] = e]
    BY DEF Hit
  <1>1. /\ pc[c] = "scan" /\ pc' = [pc EXCEPT ![c] = "done"]
        /\ UNCHANGED <<now, budget, server, req, clock, entries, new, history>>
    BY DEF Hit, Goto
  <1>2. e \in Entry /\ e.response \in Response
    BY <1>1 DEF matches, IInv, TypeOK, Entry
  <1> USE DEF IInv, budget, server, history
  <1>3. TypeOK'
    BY <1>1, <1>2 DEF TypeOK, PCs
  <1>4. \A u \in Clients : u # c => resp'[u] = resp[u] /\ pc'[u] = pc[u]
    BY <1>1 DEF TypeOK
  <1>5. Control'
    BY <1>1, <1>4 DEF Control, TypeOK, Running, Added
  <1>6. Filed'
    BY <1>1 DEF Filed, TypeOK, Running, key, Added
  <1> QED
    BY <1>3, <1>5, <1>6

LEMMA MissIInv ==
  ASSUME IInv, NEW c \in Clients, Miss(c)
  PROVE  IInv'
  <1>1. /\ pc[c] = "scan" /\ pc' = [pc EXCEPT ![c] = "answer"]
        /\ entries' = [entries EXCEPT ![c] = {}]
        /\ UNCHANGED <<now, budget, server, req, clock, resp, new, reused, history>>
    BY DEF Miss, Goto
  <1> USE DEF IInv, budget, server, history
  <1>2. TypeOK'
    BY <1>1 DEF TypeOK, PCs
  <1>3. Control'
    BY <1>1 DEF Control, TypeOK, Running, Added
  <1>4. Filed'
    BY <1>1 DEF Filed, TypeOK, Running, key, Added
  <1> QED
    BY <1>2, <1>3, <1>4

LEMMA AnswerIInv ==
  ASSUME IInv, NEW c \in Clients, Answer(c)
  PROVE  IInv'
  <1> PICK a \in AgentAnswers(req[c]) : resp' = [resp EXCEPT ![c] = a]
    BY DEF Answer
  <1>1. /\ pc[c] = "answer" /\ pc' = [pc EXCEPT ![c] = "set"]
        /\ UNCHANGED <<now, budget, server, req, clock, entries, new, reused, history>>
    BY DEF Answer, Goto
  <1>2. a \in Response
    BY <1>1, AnswerFacts DEF IInv, Control, Running
  <1> USE DEF IInv, budget, server, history
  <1>3. TypeOK'
    BY <1>1, <1>2 DEF TypeOK, PCs
  <1>4. Control'
    BY <1>1 DEF Control, TypeOK, Running, Added
  <1>5. Filed'
    BY <1>1 DEF Filed, TypeOK, Running, key, Added
  <1> QED
    BY <1>3, <1>4, <1>5

LEMMA LeaveIInv ==
  ASSUME IInv, NEW c \in Clients, AgentRaises(c) \/ Reject(c)
  PROVE  IInv'
  <1>1. /\ pc[c] \in {"answer", "set"} /\ \E to \in {"done", "failed"} : pc' = [pc EXCEPT ![c] = to]
        /\ UNCHANGED <<now, budget, server, local, history>>
    BY DEF AgentRaises, Reject, Goto
  <1> USE DEF IInv, budget, server, local, history
  <1>2. TypeOK'
    BY <1>1 DEF TypeOK, PCs
  <1>3. Control'
    BY <1>1 DEF Control, TypeOK, Running, Added
  <1>4. Filed'
    BY <1>1 DEF Filed, TypeOK, Running, key, Added
  <1> QED
    BY <1>2, <1>3, <1>4

LEMMA AppendEntryIInv ==
  ASSUME IInv, NEW c \in Clients, AppendEntry(c)
  PROVE  IInv'
  <1> DEFINE e == NewEntry(resp[c], now)
  <1>1. /\ pc[c] = "append" /\ pc' = [pc EXCEPT ![c] = "setex"]
        /\ new' = [new EXCEPT ![c] = e]
        /\ entries' = [entries EXCEPT ![c] = @ \cup {e}]
        /\ UNCHANGED <<now, budget, server, req, clock, resp, reused, history>>
    BY DEF AppendEntry, Goto, IInv, TypeOK
  <1>2. /\ req[c] \in Requests /\ resp[c] \in AgentAnswers(req[c]) /\ can_cache_response(resp[c])
        /\ now \in Nat
    BY <1>1 DEF IInv, Control, Running, TypeOK
  <1>3. EntryFor(e, key(c)) /\ e \in Entry
    BY <1>2, NewEntryFacts DEF key, EntryFor
  <1>4. \E at \in 0..now : e = NewEntry(resp[c], at)
    BY <1>2
  <1> HIDE DEF e
  <1> USE DEF IInv, budget, server, history
  <1>5. TypeOK'
    BY <1>1, <1>3 DEF TypeOK, PCs
  <1>6. Control'
    BY <1>1, <1>4 DEF Control, TypeOK, Running, Added
  <1>7. Filed'
    BY <1>1, <1>3 DEF Filed, TypeOK, Running, key, Added
  <1> QED
    BY <1>5, <1>6, <1>7

\* The write of set files the client's entry with those it had read.
LEMMA WriteListFiles ==
  ASSUME IInv, NEW c \in Clients, pc[c] = "setex", WriteList(c), UNCHANGED <<now, begun, clears>>,
         UNCHANGED <<req, clock, entries, new, reused>>, failures' \in 0..MaxFailures,
         resp' = resp \/ resp' = [resp EXCEPT ![c] = NoResponse],
         \E to \in {"done", "failed"} : pc' = [pc EXCEPT ![c] = to]
  PROVE  IInv'
  <1>1. Running(c) /\ key(c) \in Keys
    BY ClientKey DEF Running
  <1>2. /\ EntryFor(new[c], key(c)) /\ new[c] \in Entry /\ new[c].expires <= now + TTL
        /\ new[c] \in entries[c]
    BY AddedEntry
  <1>3. /\ entries[c] \in SUBSET Entry
        /\ \A e \in entries[c] : EntryFor(e, key(c)) /\ e \in stored \cup {new[c]}
    BY <1>1 DEF IInv, TypeOK, Filed
  <1>4. /\ value' = [value EXCEPT ![key(c)] = entries[c]]
        /\ value' \in [Keys -> SUBSET Entry] /\ deadline' \in [Keys -> Nat]
    BY <1>1, <1>3, StoreWrites DEF IInv, WriteList
  <1>5. /\ stored' = stored \cup {new[c]}
        /\ quiet' \in {quiet, quiet \cup {new[c]}} /\ cleared' = cleared \ {new[c]}
    BY DEF WriteList
  <1> USE DEF IInv
  <1>6. TypeOK'
    <2>1. stored' \in SUBSET Entry /\ quiet' \in SUBSET stored' /\ cleared' \in SUBSET stored'
      BY <1>2, <1>5 DEF TypeOK
    <2>2. pc' \in [Clients -> PCs] /\ resp' \in [Clients -> Response \cup {NoResponse}]
      BY DEF TypeOK, PCs
    <2> QED
      BY <1>4, <2>1, <2>2 DEF TypeOK
  <1>7. Control'
    <2>1. \A u \in Clients : u # c => resp'[u] = resp[u] /\ pc'[u] = pc[u]
      BY DEF TypeOK
    <2>2. pc'[c] \in {"done", "failed"}
      BY DEF TypeOK
    <2> QED
      BY <2>1, <2>2 DEF Control, Running, Added
  <1>8. Filed'
    <2>1. \A u \in Clients : /\ pc'[u] = pc[u] \/ (u = c /\ pc'[u] \in {"done", "failed"})
                             /\ key(u)' = key(u)
      BY DEF TypeOK, key
    <2>2. \A k \in Keys : \A e \in value'[k] : EntryFor(e, k) /\ e \in stored'
      BY <1>1, <1>3, <1>4, <1>5 DEF Filed, TypeOK
    <2>3. \A u \in Clients : Running(u)' =>
            \A e \in entries'[u] :
              EntryFor(e, key(u)') /\ (e \in stored' \/ (pc'[u] \in Added /\ e = new'[u]))
      BY <1>5, <2>1 DEF Filed, Running, Added
    <2>4. \A u \in Clients : pc'[u] \in {"prune", "scan"} =>
            \A e \in entries'[u] : e.expires > clock'[u]
      BY <2>1 DEF Filed
    <2>5. \A e \in stored' : e.expires <= now' + TTL
      BY <1>2, <1>5 DEF Filed
    <2> QED
      BY <2>2, <2>3, <2>4, <2>5 DEF Filed
  <1> QED
    BY <1>6, <1>7, <1>8

LEMMA SetStoreIInv ==
  ASSUME IInv, NEW c \in Clients, SetStore(c)
  PROVE  IInv'
  BY WriteListFiles DEF SetStore, Goto, budget, local, IInv, TypeOK

LEMMA RedisErrorIInv ==
  ASSUME IInv, NEW c \in Clients, RedisError(c)
  PROVE  IInv'
  <1>1. /\ pc[c] \in {"get", "prune", "set", "setprune", "setex"}
        /\ pc' = [pc EXCEPT ![c] = "failed"] /\ resp' = [resp EXCEPT ![c] = NoResponse]
        /\ failures' \in 0..MaxFailures
        /\ UNCHANGED <<now, begun, clears, req, clock, entries, new, reused>>
    BY ClientAssumption DEF RedisError, IInv, TypeOK
  <1>2. CASE pc[c] = "setex" /\ WriteList(c)
    BY <1>1, <1>2, WriteListFiles
  <1>3. CASE \/ UNCHANGED <<server, history>>
             \/ /\ pc[c] \in {"prune", "setprune"} /\ store_entries(key(c), entries[c])
                /\ UNCHANGED history
    <2>1. Running(c) /\ key(c) \in Keys
      BY <1>1, ClientKey DEF Running
    <2>2. \A e \in entries[c] : pc[c] \in {"prune", "setprune"} => EntryFor(e, key(c)) /\ e \in stored
      BY <2>1 DEF IInv, Filed, Added
    <2>3. /\ value' \in [Keys -> SUBSET Entry] /\ deadline' \in [Keys -> Nat]
          /\ \A k \in Keys : value'[k] = value[k] \/ (k = key(c) /\ value'[k] = entries[c]
                                                    /\ pc[c] \in {"prune", "setprune"})
      BY <1>3, <2>1, StoreWrites DEF IInv, TypeOK, server
    <2> USE DEF IInv, history
    <2>4. TypeOK'
      BY <1>1, <1>3, <2>3 DEF TypeOK, PCs
    <2>5. Control'
      BY <1>1 DEF Control, TypeOK, Running, Added
    <2>6. Filed'
      BY <1>1, <1>3, <2>1, <2>2, <2>3 DEF Filed, TypeOK, Running, key, Added
    <2> QED
      BY <2>4, <2>5, <2>6
  <1> QED
    BY <1>2, <1>3 DEF RedisError

LEMMA FinishIInv ==
  ASSUME IInv, NEW c \in Clients, Finish(c)
  PROVE  IInv'
  <1>1. /\ pc[c] \in {"done", "failed"} /\ pc' = [pc EXCEPT ![c] = "idle"]
        /\ req' = [req EXCEPT ![c] = NoRequest]
        /\ clock' = [clock EXCEPT ![c] = Unread]
        /\ entries' = [entries EXCEPT ![c] = {}]
        /\ resp' = [resp EXCEPT ![c] = NoResponse]
        /\ new' = [new EXCEPT ![c] = NoEntry]
        /\ reused' = [reused EXCEPT ![c] = NoEntry]
        /\ UNCHANGED <<now, budget, server, history>>
    BY DEF Finish
  <1> USE DEF IInv, budget, server, history
  <1>2. TypeOK'
    BY <1>1 DEF TypeOK, PCs
  <1>3. Control'
    BY <1>1 DEF Control, TypeOK, Running, Added
  <1>4. Filed'
    BY <1>1 DEF Filed, TypeOK, Running, key, Added
  <1> QED
    BY <1>2, <1>3, <1>4

LEMMA ClearIInv ==
  ASSUME IInv, NEW k \in Keys, ClearNamespace(k)
  PROVE  IInv'
  <1>1. /\ clears' \in 0..MaxClears
        /\ value' = [value EXCEPT ![k] = {}] /\ deadline' = [deadline EXCEPT ![k] = 0]
        /\ quiet' \subseteq quiet /\ cleared' \in {cleared, cleared \cup value[k]}
        /\ UNCHANGED <<now, begun, failures, pc, local, stored>>
    BY ClientAssumption DEF ClearNamespace, Delete, IInv, TypeOK
  <1> USE DEF IInv, local
  <1>2. TypeOK'
    <2>1. value[k] \subseteq stored
      BY DEF Filed
    <2> QED
      BY <1>1, <2>1 DEF TypeOK
  <1>3. Control'
    BY <1>1 DEF Control, TypeOK, Running, Added
  <1>4. Filed'
    BY <1>1 DEF Filed, TypeOK, Running, key, Added
  <1> QED
    BY <1>2, <1>3, <1>4

LEMMA StutterIInv == IInv /\ UNCHANGED vars => IInv'
  BY DEF vars, budget, server, local, history, IInv, TypeOK, Control, Filed, Running, key, Added

-----------------------------------------------------------------------------
\* IInv is an inductive invariant of the specification: one lemma per action.
THEOREM InductiveInvariant == Spec => []IInv
  <1>1. IInv /\ [Next]_vars => IInv'
    <2> SUFFICES ASSUME IInv, [Next]_vars PROVE IInv'
      OBVIOUS
    <2>1. ASSUME NEW c \in Clients, Step(c) PROVE IInv'
      BY <2>1, ReadListIInv, FilterListIInv, PruneListIInv, HitIInv, MissIInv, AnswerIInv,
         LeaveIInv, AppendEntryIInv, SetStoreIInv, RedisErrorIInv, FinishIInv DEF Step
    <2>2. CASE Rest \/ UNCHANGED vars
      BY <2>2, StutterIInv DEF Rest
    <2> QED
      BY <2>1, <2>2, TickIInv, BeginIInv, ClearIInv DEF Next
  <1> QED
    BY InitIInv, <1>1, PTL DEF Spec

\* The variables keep their types.
THEOREM TypeCorrect == Spec => []TypeOK
  <1>1. IInv => TypeOK
    BY DEF IInv
  <1> QED
    BY <1>1, InductiveInvariant, PTL

\* Whatever the clients' reads and writes do to one another, and whichever of them fails,
\* the server holds under a key only public answers made for that key.
THEOREM OnlyCacheableHeld == Spec => []ServerHoldsCacheable
  <1>1. IInv => ServerHoldsCacheable
    <2> SUFFICES ASSUME IInv, NEW k \in Keys, NEW e \in value[k]
                 PROVE  /\ CacheKey(e.response.req) = k
                        /\ e.response.outcome = "answered"
                        /\ e.response.req.query \notin Exact
                        /\ \A p \in e.response.sources : ClassOf[p] = "public"
      BY DEF ServerHoldsCacheable
    <2>1. CacheKey(e.response.req) = k /\ can_cache_response(e.response)
      BY DEF IInv, Filed, EntryFor
    <2>2. \A p \in e.response.sources : ClassOf[p] = "public"
      BY <2>1 DEF can_cache_response, classifications
    <2> QED
      BY <2>1, <2>2 DEF can_cache_response
  <1> QED
    BY <1>1, InductiveInvariant, PTL

-----------------------------------------------------------------------------
(* Stores and clears that no pending write of their key can undo.          *)

\* Where a client has a list that it may still write.
Writing == {"filter", "prune", "setfilter", "setprune", "append", "setex"}

\* A live entry of quiet is at the server, whose key outlives it, and in the list of
\* every client that may still write that key.
Carried ==
  \A e \in quiet : e.expires > now =>
    LET k == CacheKey(e.response.req)
    IN /\ e \in value[k] /\ e.expires <= deadline[k]
       /\ \A c \in Clients : pc[c] \in Writing /\ key(c) = k => e \in entries[c]

\* A step without a write, after which no client carries less than before.
LEMMA CarriedKept ==
  ASSUME IInv, Carried, UNCHANGED <<value, deadline>>, quiet' \subseteq quiet,
         now' \in Nat, now' >= now,
         \A u \in Clients : pc'[u] \in Writing =>
           pc[u] \in Writing /\ req'[u] = req[u] /\ entries[u] \subseteq entries'[u]
  PROVE  Carried'
  <1> SUFFICES ASSUME NEW e \in quiet, e.expires > now'
               PROVE  LET k == CacheKey(e.response.req)
                      IN /\ e \in value[k] /\ e.expires <= deadline[k]
                         /\ \A c \in Clients : pc'[c] \in Writing /\ key(c)' = k => e \in entries'[c]
    BY DEF Carried
  <1>1. e.expires > now
    BY EntryKey DEF IInv, TypeOK
  <1> QED
    BY <1>1 DEF Carried, key

\* What a GET returns holds the quiet entries of its key, and so does what is left of it.
LEMMA ReadCarries ==
  ASSUME IInv, Carried, NEW c \in Clients, Get(c) \/ SetGet(c) \/ GetFilter(c) \/ SetFilter(c)
  PROVE  Carried'
  <1>1. /\ UNCHANGED <<now, value, deadline, req, quiet>>
        /\ \A u \in Clients : u # c => pc'[u] = pc[u] /\ entries'[u] = entries[u]
        /\ \/ /\ pc[c] \in {"get", "set"} /\ entries'[c] = Read(key(c))
           \/ /\ pc[c] \in {"filter", "setfilter"} /\ entries'[c] = live(entries[c], now)
    BY DEF Get, SetGet, GetFilter, SetFilter, ReadList, FilterList, Goto, IInv, TypeOK, server,
           history
  <1> SUFFICES ASSUME NEW e \in quiet, e.expires > now
               PROVE  LET k == CacheKey(e.response.req)
                      IN /\ e \in value[k] /\ e.expires <= deadline[k]
                         /\ \A u \in Clients : pc'[u] \in Writing /\ key(u) = k => e \in entries'[u]
    BY <1>1 DEF Carried, key
  <1> DEFINE k == CacheKey(e.response.req)
  <1>2. /\ e \in value[k] /\ e.expires <= deadline[k]
        /\ \A u \in Clients : pc[u] \in Writing /\ key(u) = k => e \in entries[u]
    BY DEF Carried
  <1>3. e \in Entry /\ e.expires \in Nat /\ k \in Keys /\ now \in Nat /\ deadline[k] \in Nat
    BY EntryKey, ClientAssumption DEF IInv, TypeOK
  <1>4. e \in Read(k)
    BY <1>2, <1>3 DEF Read
  <1>5. key(c) = k => e \in entries'[c]
    BY <1>1, <1>2, <1>4 DEF live, Writing
  <1> QED
    BY <1>1, <1>2, <1>5

\* A client that writes its list carries along what is quiet, and may add its own entry.
LEMMA WriteCarries ==
  ASSUME IInv, Carried, NEW c \in Clients, pc[c] \in Writing,
         store_entries(key(c), entries[c]), UNCHANGED <<now, req, entries>>,
         \A u \in Clients : u # c => pc'[u] = pc[u],
         \/ quiet' = quiet
         \/ /\ quiet' = quiet \cup {new[c]} /\ pc[c] = "setex" /\ Pending(key(c)) = {c}
            /\ pc'[c] \notin Writing
  PROVE  Carried'
  <1>1. Running(c) /\ key(c) \in Keys
    BY ClientKey DEF Running, Writing
  <1>2. /\ value' = [value EXCEPT ![key(c)] = entries[c]]
        /\ deadline' = [deadline EXCEPT ![key(c)] = IF entries[c] = {} THEN 0 ELSE now + TTL]
    BY <1>1, StoreWrites DEF IInv, TypeOK
  <1> SUFFICES ASSUME NEW e \in quiet', e.expires > now
               PROVE  LET k == CacheKey(e.response.req)
                      IN /\ e \in value'[k] /\ e.expires <= deadline'[k]
                         /\ \A u \in Clients : pc'[u] \in Writing /\ key(u) = k => e \in entries[u]
    BY DEF Carried, key
  <1>3. CASE e \in quiet
    <2> DEFINE k == CacheKey(e.response.req)
    <2>1. /\ e \in value[k] /\ e.expires <= deadline[k]
          /\ \A u \in Clients : pc[u] \in Writing /\ key(u) = k => e \in entries[u]
      BY <1>3 DEF Carried
    <2>2. k \in Keys /\ e.expires <= now + TTL
      BY <1>3, EntryKey DEF IInv, TypeOK, Filed
    <2> QED
      BY <1>1, <1>2, <2>1, <2>2 DEF IInv, TypeOK
  <1>4. CASE e = new[c] /\ pc[c] = "setex" /\ Pending(key(c)) = {c} /\ pc'[c] \notin Writing
    <2>1. CacheKey(e.response.req) = key(c) /\ e.expires <= now + TTL /\ e \in entries[c]
      BY <1>4, AddedEntry DEF EntryFor
    <2>2. \A u \in Clients : pc'[u] \in Writing => key(u) # key(c)
      BY <1>4 DEF Pending, Writing
    <2> QED
      BY <1>1, <1>2, <2>1, <2>2 DEF IInv, TypeOK
  <1> QED
    BY <1>3, <1>4

\* An entry that was stored while no other client could write its key stays readable
\* until it expires or is cleared.
THEOREM QuietStoresSurvive == Spec => []QuietStoreSurvives
  <1>1. Init => Carried
    BY DEF Init, Carried
  <1>2. IInv /\ Carried /\ [Next]_vars => Carried'
    <2> SUFFICES ASSUME IInv, Carried, [Next]_vars PROVE Carried'
      OBVIOUS
    <2>0. now \in Nat
      BY ClientAssumption DEF IInv, TypeOK
    <2>1. CASE Tick
      BY <2>0, <2>1, CarriedKept DEF Tick, server, local, history
    <2>2. ASSUME NEW c \in Clients,
                 \/ Begin(c) \/ Hit(c) \/ Miss(c) \/ Answer(c) \/ AgentRaises(c) \/ Reject(c)
                 \/ AppendEntry(c) \/ Finish(c)
          PROVE  Carried'
      <3>1. /\ UNCHANGED <<value, deadline, quiet, now>>
            /\ \A u \in Clients : u # c => pc'[u] = pc[u] /\ req'[u] = req[u] /\ entries'[u] = entries[u]
            /\ pc'[c] \in Writing => pc[c] \in Writing /\ req'[c] = req[c] /\ entries[c] \subseteq entries'[c]
        BY <2>2 DEF Begin, Hit, Miss, Answer, AgentRaises, Reject, AppendEntry, Finish, Goto,
                    server, local, history, IInv, TypeOK, Writing
      <3> QED
        BY <2>0, <3>1, CarriedKept
    <2>3. ASSUME NEW c \in Clients, GetPrune(c) \/ SetPrune(c) PROVE Carried'
      BY <2>3, WriteCarries DEF GetPrune, SetPrune, PruneList, Goto, local, history, IInv, TypeOK,
                                Writing
    <2>4. ASSUME NEW c \in Clients, pc[c] = "setex", WriteList(c), UNCHANGED <<now, req, entries>>,
                 \E to \in {"done", "failed"} : pc' = [pc EXCEPT ![c] = to]
          PROVE  Carried'
      BY <2>4, WriteCarries DEF WriteList, IInv, TypeOK, Writing
    <2>5. ASSUME NEW c \in Clients, RedisError(c) PROVE Carried'
      <3>1. /\ pc' = [pc EXCEPT ![c] = "failed"]
            /\ UNCHANGED <<now, req, entries>>
        BY <2>5 DEF RedisError
      <3>2. CASE UNCHANGED <<server, history>>
        BY <2>0, <3>1, <3>2, CarriedKept DEF server, history, IInv, TypeOK, Writing
      <3>3. CASE /\ pc[c] \in {"prune", "setprune"} /\ store_entries(key(c), entries[c])
                 /\ UNCHANGED history
        BY <3>1, <3>3, WriteCarries DEF history, IInv, TypeOK, Writing
      <3>4. CASE pc[c] = "setex" /\ WriteList(c)
        BY <2>4, <3>1, <3>4
      <3> QED
        BY <2>5, <3>2, <3>3, <3>4 DEF RedisError
    <2>6. ASSUME NEW k \in Keys, ClearNamespace(k) PROVE Carried'
      <3>1. /\ value' = [value EXCEPT ![k] = {}] /\ deadline' = [deadline EXCEPT ![k] = 0]
            /\ quiet' = {e \in quiet : CacheKey(e.response.req) # k}
            /\ UNCHANGED <<now, pc, req, entries>>
        BY <2>6 DEF ClearNamespace, Delete, local
      <3> QED
        BY <3>1, EntryKey DEF Carried, IInv, TypeOK, key
    <2>7. ASSUME NEW c \in Clients, Step(c) PROVE Carried'
      BY <2>2, <2>3, <2>4, <2>5, <2>7, ReadCarries DEF Step, SetStore, Goto, budget, local
    <2>8. CASE Rest \/ UNCHANGED vars
      BY <2>8 DEF Rest, vars, server, local, history, Carried, key
    <2> QED
      BY <2>1, <2>2, <2>6, <2>7, <2>8 DEF Next
  <1>3. IInv /\ Carried => QuietStoreSurvives
    <2> SUFFICES ASSUME IInv, Carried, NEW e \in quiet, e.expires > now
                 PROVE  e \in Read(CacheKey(e.response.req))
      BY DEF QuietStoreSurvives
    <2>1. /\ e \in Entry /\ e.expires \in Nat /\ now \in Nat
          /\ deadline[CacheKey(e.response.req)] \in Nat
      BY EntryKey, ClientAssumption DEF IInv, TypeOK
    <2> QED
      BY <2>1 DEF Carried, Read
  <1> QED
    BY <1>1, <1>2, <1>3, InductiveInvariant, PTL DEF Spec

\* What was cleared is at no key, and in no list that may still be written, except
\* that a client may be about to store the like of it anew.
Gone ==
  /\ \A k \in Keys : value[k] \cap cleared = {}
  /\ \A c \in Clients : pc[c] \in Writing => (entries[c] \ {new[c]}) \cap cleared = {}

\* A step without a write, after which no client carries more than before but its own entry.
LEMMA GoneKept ==
  ASSUME IInv, Gone, UNCHANGED <<value, cleared>>,
         \A u \in Clients : pc'[u] \in Writing =>
           /\ pc[u] \in Writing
           /\ new'[u] = new[u] \/ new[u] = NoEntry
           /\ entries'[u] \ {new'[u]} \subseteq entries[u]
  PROVE  Gone'
  <1> SUFFICES ASSUME NEW u \in Clients, pc'[u] \in Writing,
                      NEW e \in entries'[u] \ {new'[u]}, e \in cleared
               PROVE  FALSE
    BY DEF Gone
  <1>1. e \in entries[u] /\ pc[u] \in Writing /\ e \in Entry
    BY DEF IInv, TypeOK
  <1>2. e \in entries[u] \ {new[u]}
    BY <1>1, ClientAssumption
  <1> QED
    BY <1>1, <1>2 DEF Gone

\* A client that writes its list puts nothing back that was cleared.
LEMMA WriteGone ==
  ASSUME IInv, Gone, NEW c \in Clients, pc[c] \in Writing,
         store_entries(key(c), entries[c]), UNCHANGED <<entries, new>>,
         \A u \in Clients : u # c => pc'[u] = pc[u],
         \/ cleared' = cleared /\ pc[c] # "setex"
         \/ cleared' = cleared \ {new[c]}
  PROVE  Gone'
  <1>1. Running(c) /\ key(c) \in Keys
    BY ClientKey DEF Running, Writing
  <1>2. value' = [value EXCEPT ![key(c)] = entries[c]]
    BY <1>1, StoreWrites DEF IInv, TypeOK
  <1>3. cleared' \subseteq cleared
    OBVIOUS
  <1>4. entries[c] \cap cleared' = {}
    <2>1. CASE cleared' = cleared \ {new[c]}
      BY <2>1 DEF Gone
    <2>2. CASE cleared' = cleared /\ pc[c] # "setex"
      <3>1. new[c] \notin entries[c]
        BY <2>2, ClientAssumption DEF IInv, Control, TypeOK, Writing, Added
      <3> QED
        BY <2>2, <3>1 DEF Gone
    <2> QED
      BY <2>1, <2>2
  <1>5. \A k \in Keys : value'[k] \cap cleared' = {}
    BY <1>2, <1>3, <1>4 DEF Gone, IInv, TypeOK
  <1>6. \A u \in Clients : pc'[u] \in Writing => (entries[u] \ {new[u]}) \cap cleared' = {}
    BY <1>3, <1>4 DEF Gone
  <1> QED
    BY <1>5, <1>6 DEF Gone

\* What is deleted while no client may write the key is at no other key, and carried by no client.
LEMMA ClearGone ==
  ASSUME IInv, Gone, NEW k \in Keys, ClearNamespace(k)
  PROVE  Gone'
  <1>1. /\ value' = [value EXCEPT ![k] = {}]
        /\ cleared' = IF Pending(k) = {} THEN cleared \cup value[k] ELSE cleared
        /\ UNCHANGED <<pc, entries, new>>
    BY DEF ClearNamespace, Delete, local
  <1>2. ASSUME Pending(k) = {}, NEW e \in value[k]
        PROVE  /\ \A j \in Keys : j # k => e \notin value[j]
               /\ \A c \in Clients : pc[c] \in Writing => e \notin entries[c]
    <2>1. CacheKey(e.response.req) = k
      BY DEF IInv, Filed, EntryFor
    <2>2. \A j \in Keys : e \in value[j] => j = k
      BY <2>1 DEF IInv, Filed, EntryFor
    <2>3. ASSUME NEW c \in Clients, pc[c] \in Writing PROVE e \notin entries[c]
      <3>1. key(c) # k /\ Running(c)
        BY <1>2, <2>3 DEF Pending, Writing, Running
      <3> QED
        BY <2>1, <3>1 DEF IInv, Filed, EntryFor
    <2> QED
      BY <2>2, <2>3
  <1>3. \A j \in Keys : value'[j] = IF j = k THEN {} ELSE value[j]
    BY <1>1 DEF IInv, TypeOK
  <1>4. CASE Pending(k) = {}
    BY <1>1, <1>2, <1>3, <1>4 DEF Gone
  <1>5. CASE Pending(k) # {}
    BY <1>1, <1>3, <1>5 DEF Gone
  <1> QED
    BY <1>4, <1>5

\* What is cleared while no client may write its key does not come back.
THEOREM QuietClearsAreFinal == Spec => []QuietClearIsFinal
  <1>1. Init => Gone
    BY DEF Init, Gone
  <1>2. IInv /\ Gone /\ [Next]_vars => Gone'
    <2> SUFFICES ASSUME IInv, Gone, [Next]_vars PROVE Gone'
      OBVIOUS
    <2>1. CASE Tick
      BY <2>1 DEF Tick, server, local, history, Gone
    <2>2. ASSUME NEW c \in Clients,
                 \/ Begin(c) \/ Hit(c) \/ Miss(c) \/ Answer(c) \/ AgentRaises(c) \/ Reject(c)
                 \/ GetFilter(c) \/ SetFilter(c) \/ AppendEntry(c) \/ Finish(c)
          PROVE  Gone'
      <3>1. /\ UNCHANGED <<value, cleared>>
            /\ \A u \in Clients : u # c => pc'[u] = pc[u] /\ new'[u] = new[u] /\ entries'[u] = entries[u]
        BY <2>2 DEF Begin, Hit, Miss, Answer, AgentRaises, Reject, GetFilter, SetFilter,
                    FilterList, AppendEntry, Finish, Goto, server, local, history, IInv, TypeOK
      <3>2. pc'[c] \in Writing => /\ pc[c] \in Writing
                                  /\ new'[c] = new[c] \/ new[c] = NoEntry
                                  /\ entries'[c] \ {new'[c]} \subseteq entries[c]
        BY <2>2 DEF Begin, Hit, Miss, Answer, AgentRaises, Reject, GetFilter, SetFilter,
                    FilterList, AppendEntry, Finish, Goto, server, local, history, IInv, TypeOK,
                    Writing, Control, Added, live
      <3> QED
        BY <3>1, <3>2, GoneKept
    <2>3. ASSUME NEW c \in Clients, Get(c) \/ SetGet(c) PROVE Gone'
      <3>1. /\ UNCHANGED <<value, cleared, new>>
            /\ \A u \in Clients : u # c => pc'[u] = pc[u] /\ entries'[u] = entries[u]
            /\ pc[c] \in {"get", "set"} /\ entries'[c] = Read(key(c))
        BY <2>3 DEF Get, SetGet, ReadList, Goto, server, history, IInv, TypeOK
      <3>2. key(c) \in Keys
        BY <3>1, ClientKey DEF Running
      <3> QED
        BY <3>1, <3>2, ReadReturns DEF Gone
    <2>4. ASSUME NEW c \in Clients, GetPrune(c) \/ SetPrune(c) PROVE Gone'
      BY <2>4, WriteGone DEF GetPrune, SetPrune, PruneList, Goto, local, history, IInv, TypeOK,
                             Writing
    <2>5. ASSUME NEW c \in Clients, pc[c] = "setex", WriteList(c), UNCHANGED <<entries, new>>,
                 \E to \in {"done", "failed"} : pc' = [pc EXCEPT ![c] = to]
          PROVE  Gone'
      BY <2>5, WriteGone DEF WriteList, IInv, TypeOK, Writing
    <2>6. ASSUME NEW c \in Clients, RedisError(c) PROVE Gone'
      <3>1. /\ pc' = [pc EXCEPT ![c] = "failed"]
            /\ UNCHANGED <<entries, new>>
        BY <2>6 DEF RedisError
      <3>2. CASE UNCHANGED <<server, history>>
        BY <3>1, <3>2 DEF server, history, Gone, IInv, TypeOK, Writing
      <3>3. CASE /\ pc[c] \in {"prune", "setprune"} /\ store_entries(key(c), entries[c])
                 /\ UNCHANGED history
        BY <3>1, <3>3, WriteGone DEF history, IInv, TypeOK, Writing
      <3>4. CASE pc[c] = "setex" /\ WriteList(c)
        BY <2>5, <3>1, <3>4
      <3> QED
        BY <2>6, <3>2, <3>3, <3>4 DEF RedisError
    <2>7. ASSUME NEW c \in Clients, Step(c) PROVE Gone'
      BY <2>2, <2>3, <2>4, <2>5, <2>6, <2>7 DEF Step, SetStore, Goto, budget, local
    <2>8. CASE Rest \/ UNCHANGED vars
      BY <2>8 DEF Rest, vars, server, local, history, Gone
    <2> QED
      BY <2>1, <2>2, <2>7, <2>8, ClearGone DEF Next
  <1>3. Gone => QuietClearIsFinal
    BY ReadReturns DEF Gone, QuietClearIsFinal
  <1> QED
    BY <1>1, <1>2, <1>3, InductiveInvariant, PTL DEF Spec

-----------------------------------------------------------------------------
(* The clients implement the abstract answer cache.                        *)

\* The policy of the abstract cache is this one.
LEMMA SamePolicy ==
  /\ \A r : Promise!CacheKey(r) = CacheKey(r)
  /\ \A r : Promise!AgentAnswers(r) = AgentAnswers(r)
  /\ \A a : Promise!can_cache_response(a) = can_cache_response(a)
  /\ \A es, at : Promise!live(es, at) = live(es, at)
  /\ \A es, q : Promise!matches(es, q) = matches(es, q)
  /\ \A a, at : Promise!NewEntry(a, at) = NewEntry(a, at)
  /\ Promise!Unread = Unread
  <1>1. \A r : Promise!CacheKey(r) = CacheKey(r)
    BY DEF Promise!CacheKey, CacheKey, Promise!JurisdictionName, JurisdictionName,
           Promise!effective_as_of_date, effective_as_of_date
  <1>2. \A r : Promise!AgentAnswers(r) = AgentAnswers(r)
    BY DEF Promise!AgentAnswers, AgentAnswers, Promise!Answering, Answering
  <1>3. \A a : Promise!can_cache_response(a) = can_cache_response(a)
    BY DEF Promise!can_cache_response, can_cache_response, Promise!classifications,
           classifications
  <1> QED
    BY <1>1, <1>2, <1>3 DEF Promise!live, live, Promise!matches, matches,
       Promise!NewEntry, NewEntry, Promise!Unread, Unread

\* Where a client is, in the terms of the abstract cache.
PhaseOf(place, at) ==
  CASE place \in {"idle", "done", "failed"} -> place
    [] place \in {"get", "filter", "prune", "scan", "answer"} ->
         IF at = Unread THEN "asked" ELSE "looking"
    [] OTHER -> "generated"

LEMMA PhaseMoves ==
  ASSUME TypeOK, NEW c \in Clients,
         \A u \in Clients : u # c => pc'[u] = pc[u] /\ clock'[u] = clock[u]
  PROVE  /\ phase[c] = PhaseOf(pc[c], clock[c])
         /\ phase' = [phase EXCEPT ![c] = PhaseOf(pc'[c], clock'[c])]
  <1>1. phase = [u \in Clients |-> PhaseOf(pc[u], clock[u])]
    BY DEF phase, PhaseOf
  <1>2. phase' = [u \in Clients |-> PhaseOf(pc'[u], clock'[u])]
    BY DEF phase, PhaseOf
  <1> QED
    BY <1>1, <1>2

\* A step that the abstract cache does not see.
LEMMA Unseen ==
  ASSUME TypeOK, NEW c \in Clients,
         \A u \in Clients : u # c => pc'[u] = pc[u] /\ clock'[u] = clock[u],
         PhaseOf(pc'[c], clock'[c]) = PhaseOf(pc[c], clock[c]),
         UNCHANGED <<now, stored, req, clock, resp, reused>>
  PROVE  UNCHANGED Promise!vars
  <1>1. phase[c] = PhaseOf(pc[c], clock[c]) /\ phase' = [phase EXCEPT ![c] = phase[c]]
    BY PhaseMoves
  <1>2. phase' = phase
    BY <1>1 DEF phase
  <1> QED
    BY <1>2 DEF Promise!vars

\* A step of a client is a step of the abstract cache, or one that it does not see.
LEMMA StepImplements ==
  ASSUME IInv, NEW c \in Clients, Step(c)
  PROVE  [Promise!Next]_Promise!vars
  <1> USE DEF Goto, history, local, server, budget
  <1>0. TypeOK /\ now \in Nat /\ now # Unread
    BY ClientAssumption DEF IInv, TypeOK, Unread
  <1>1. CASE \/ Get(c) \/ GetPrune(c) \/ Miss(c)
             \/ SetGet(c) \/ SetFilter(c) \/ SetPrune(c) \/ AppendEntry(c)
    <2>1. /\ \A u \in Clients : u # c => pc'[u] = pc[u]
          /\ UNCHANGED <<now, stored, req, clock, resp, reused>>
          /\ \/ pc[c] \in {"get", "prune", "scan"} /\ pc'[c] \in {"filter", "scan", "answer"}
             \/ /\ pc[c] \in {"set", "setfilter", "setprune", "append"}
                /\ pc'[c] \in {"setfilter", "setprune", "append", "setex"}
      BY <1>0, <1>1 DEF Get, GetPrune, Miss, SetGet, SetFilter, SetPrune, AppendEntry, ReadList,
                        FilterList, PruneList, TypeOK
    <2> QED
      BY <1>0, <2>1, Unseen DEF PhaseOf
  <1>2. CASE GetFilter(c)
    <2>1. /\ pc[c] = "filter" /\ clock[c] = Unread
          /\ \A u \in Clients : u # c => pc'[u] = pc[u] /\ clock'[u] = clock[u]
          /\ pc'[c] \in {"scan", "prune"} /\ clock'[c] = now
          /\ clock' = [clock EXCEPT ![c] = now]
          /\ UNCHANGED <<now, stored, req, resp, reused>>
      BY <1>0, <1>2 DEF GetFilter, FilterList, TypeOK, IInv, Control
    <2>2. phase[c] = "asked" /\ phase' = [phase EXCEPT ![c] = "looking"]
      BY <1>0, <2>1, PhaseMoves DEF PhaseOf
    <2> QED
      BY <2>1, <2>2 DEF Promise!Next, Promise!ReadClock
  <1>3. CASE Hit(c)
    <2>1. PICK e \in matches(entries[c], req[c].query) :
            resp' = [resp EXCEPT ![c] = e.response] /\ reused' = [reused EXCEPT ![c] = e]
      BY <1>3 DEF Hit
    <2>2. /\ pc[c] = "scan" /\ pc' = [pc EXCEPT ![c] = "done"]
          /\ UNCHANGED <<now, stored, req, clock>>
      BY <1>3 DEF Hit
    <2>3. e \in entries[c] /\ <<req[c].query, e.response.req.query>> \in Similar
      BY DEF matches
    <2>4. clock[c] \in 0..now /\ clock[c] # Unread
      BY <1>0, <2>2, <2>3 DEF IInv, Control, Unread
    <2>5. e \in stored /\ e.expires > clock[c] /\ CacheKey(e.response.req) = CacheKey(req[c])
      BY <2>2, <2>3 DEF IInv, Filed, Running, Added, EntryFor, key
    <2>6. e \in matches(live(stored, clock[c]), req[c].query)
      BY <2>3, <2>5 DEF matches, live
    <2>7. phase[c] = "looking" /\ phase' = [phase EXCEPT ![c] = "done"]
      BY <1>0, <2>2, <2>4, PhaseMoves DEF PhaseOf, TypeOK
    <2> QED
      BY <2>1, <2>2, <2>5, <2>6, <2>7, SamePolicy DEF Promise!Next, Promise!Reuse
  <1>4. CASE Answer(c)
    <2>1. phase[c] \in {"asked", "looking"} /\ phase' = [phase EXCEPT ![c] = "generated"]
      BY <1>0, <1>4, PhaseMoves DEF Answer, PhaseOf, TypeOK
    <2> QED
      BY <1>4, <2>1, SamePolicy DEF Answer, Promise!Next, Promise!Generate
  <1>5. CASE AgentRaises(c)
    <2>1. phase[c] \in {"asked", "looking"} /\ phase' = [phase EXCEPT ![c] = "failed"]
      BY <1>0, <1>5, PhaseMoves DEF AgentRaises, PhaseOf, TypeOK
    <2>2. resp' = [resp EXCEPT ![c] = NoResponse]
      BY <1>5 DEF AgentRaises, IInv, TypeOK, Control
    <2> QED
      BY <1>5, <2>1, <2>2 DEF AgentRaises, Promise!Next, Promise!Fail
  <1>6. CASE Reject(c)
    <2>1. phase[c] = "generated" /\ phase' = [phase EXCEPT ![c] = "done"]
      BY <1>0, <1>6, PhaseMoves DEF Reject, PhaseOf, TypeOK
    <2> QED
      BY <1>6, <2>1, SamePolicy DEF Reject, Promise!Next, Promise!Reject
  <1>7. ASSUME pc[c] = "setex", WriteList(c)
        PROVE  /\ can_cache_response(resp[c])
               /\ \E at \in 0..now : stored' = stored \cup {NewEntry(resp[c], at)}
    BY <1>7 DEF IInv, Control, WriteList
  <1>8. CASE SetStore(c)
    <2>1. phase[c] = "generated" /\ phase' = [phase EXCEPT ![c] = "done"]
      BY <1>0, <1>8, PhaseMoves DEF SetStore, PhaseOf, TypeOK
    <2>2. pc[c] = "setex" /\ WriteList(c) /\ UNCHANGED <<now, req, clock, resp, reused>>
      BY <1>8 DEF SetStore
    <2> QED
      BY <1>7, <2>1, <2>2, SamePolicy DEF Promise!Next, Promise!Store
  <1>9. CASE RedisError(c)
    <2>1. /\ pc[c] \in {"get", "prune", "set", "setprune", "setex"}
          /\ pc' = [pc EXCEPT ![c] = "failed"] /\ resp' = [resp EXCEPT ![c] = NoResponse]
          /\ UNCHANGED <<now, req, clock, reused>>
          /\ stored' = stored \/ (pc[c] = "setex" /\ WriteList(c))
      BY <1>9 DEF RedisError
    <2>2. /\ phase[c] \in {"asked", "looking", "generated"}
          /\ pc[c] = "setex" => phase[c] = "generated"
          /\ phase' = [phase EXCEPT ![c] = "failed"]
      BY <1>0, <2>1, PhaseMoves DEF PhaseOf, TypeOK
    <2> QED
      BY <1>7, <2>1, <2>2, SamePolicy DEF Promise!Next, Promise!Fail
  <1>10. CASE Finish(c)
    <2>1. phase[c] \in {"done", "failed"} /\ phase' = [phase EXCEPT ![c] = "idle"]
      BY <1>0, <1>10, PhaseMoves DEF Finish, PhaseOf, TypeOK
    <2> QED
      BY <1>10, <2>1, SamePolicy DEF Finish, Promise!Next, Promise!Finish
  <1> QED
    BY <1>1, <1>2, <1>3, <1>4, <1>5, <1>6, <1>8, <1>9, <1>10 DEF Step

\* Every behaviour of the clients is one of the abstract cache: what a request reuses was
\* stored under its key, for a similar query, and was fresh when the list was filtered, and
\* a request that fails in the middle of its calls has no response.
THEOREM ClientsImplementAnswerCache == Spec => ImplementsAnswerCache
  <1>1. Init => Promise!Init
    BY SamePolicy DEF Init, Promise!Init, phase
  <1>2. IInv /\ [Next]_vars => [Promise!Next]_Promise!vars
    <2> SUFFICES ASSUME IInv, [Next]_vars
                 PROVE  [Promise!Next]_Promise!vars
      OBVIOUS
    <2> USE DEF history, local, server, budget
    <2>1. CASE Tick
      <3>1. phase' = phase
        BY <2>1 DEF Tick, phase
      <3> QED
        BY <2>1, <3>1 DEF Tick, Promise!Next, Promise!Tick
    <2>2. ASSUME NEW c \in Clients, Begin(c) PROVE [Promise!Next]_Promise!vars
      <3>1. /\ pc[c] = "idle" /\ pc' = [pc EXCEPT ![c] = "get"]
            /\ UNCHANGED clock /\ clock[c] = Unread /\ TypeOK
        BY <2>2 DEF Begin, Goto, IInv, Control
      <3>2. phase[c] = "idle" /\ phase' = [phase EXCEPT ![c] = "asked"]
        BY <3>1, PhaseMoves DEF PhaseOf, TypeOK
      <3> QED
        BY <2>2, <3>2 DEF Begin, Promise!Next, Promise!Ask
    <2>3. ASSUME NEW c \in Clients, Step(c) PROVE [Promise!Next]_Promise!vars
      BY <2>3, StepImplements
    <2>4. ASSUME NEW k \in Keys, ClearNamespace(k) PROVE [Promise!Next]_Promise!vars
      <3>1. phase' = phase
        BY <2>4 DEF ClearNamespace, phase
      <3> QED
        BY <2>4, <3>1 DEF ClearNamespace, Promise!vars
    <2>5. CASE Rest \/ UNCHANGED vars
      <3>1. UNCHANGED vars
        BY <2>5 DEF Rest
      <3>2. phase' = phase
        BY <3>1 DEF vars, phase
      <3> QED
        BY <3>1, <3>2 DEF vars, Promise!vars
    <2> QED
      BY <2>1, <2>2, <2>3, <2>4, <2>5 DEF Next
  <1> QED
    BY <1>1, <1>2, InductiveInvariant, PTL DEF Spec, ImplementsAnswerCache, Promise!Spec
=============================================================================
