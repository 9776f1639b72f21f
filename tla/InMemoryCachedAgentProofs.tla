--------------------- MODULE InMemoryCachedAgentProofs ---------------------
(***************************************************************************)
(* The reuse guarantees of the threaded in-memory cache, for any number of *)
(* threads, requests, chunks and ticks.                                    *)
(*                                                                         *)
(* The argument: a list object is only ever reached through one key, so    *)
(* what a thread appends, to the current list or to one that has just been *)
(* replaced, lands among entries of its own key.                           *)
(***************************************************************************)
EXTENDS InMemoryCachedAgent, TLAPS

\* e was made by the agent for a request of key k and may be cached.
EntryFor(e, k) ==
  /\ e \in Entry
  /\ e.response \in AgentAnswers(e.response.req)
  /\ can_cache_response(e.response)
  /\ CacheKey(e.response.req) = k

\* An agent's answer is a response to its request, within the role's reach.
LEMMA AnswerFacts ==
  ASSUME NEW r \in Requests, NEW a \in AgentAnswers(r)
  PROVE  /\ a \in Response
         /\ a.req = r
         /\ a.sources \subseteq Readable[r.role]
  BY PolicyAssumption DEF AgentAnswers, Answering, Response, Draft

\* The entry made of a cacheable answer is one of the request's key, and is
\* live for whoever read the clock before.
LEMMA NewEntryFacts ==
  ASSUME NEW r \in Requests, NEW a \in AgentAnswers(r), can_cache_response(a),
         NEW at \in Nat
  PROVE  /\ EntryFor(NewEntry(a, at), CacheKey(r))
         /\ \A c \in 0..at : NewEntry(a, at).expires > c
  <1> DEFINE e == NewEntry(a, at)
  <1>1. a \in Response /\ a.req = r
    BY AnswerFacts
  <1>2. e.response = a /\ e.expires = at + TTL /\ TTL \in Nat \ {0}
    BY PolicyAssumption DEF NewEntry
  <1>3. e \in Entry
    BY <1>1, <1>2 DEF NewEntry, Entry
  <1>4. EntryFor(e, CacheKey(r))
    BY <1>1, <1>2, <1>3 DEF EntryFor
  <1> QED
    BY <1>2, <1>4

\* Every request has a key.
LEMMA KeyInKeys ==
  ASSUME NEW r \in Requests
  PROVE  CacheKey(r) \in Keys
  BY DEF Keys

\* An entry was made for a request, which has a key.
LEMMA EntryKey ==
  ASSUME NEW e \in Entry
  PROVE  e.response.req \in Requests /\ CacheKey(e.response.req) \in Keys /\ e.expires \in Nat
  BY KeyInKeys DEF Entry, Response

-----------------------------------------------------------------------------
Running(t) == pc[t] # "idle"

\* What a thread holds at each point of its request.
Control ==
  \A t \in Threads :
    /\ Running(t) => req[t] \in Requests
    /\ pc[t] \in {"writeback", "scan", "stamp", "append"} => list[t] \in Lists
    /\ pc[t] \in {"idle", "clock", "filter"} => list[t] = NoList
    /\ pc[t] \notin {"idle", "clock"} => clock[t] \in 0..now
    /\ pc[t] \in {"scan", "answer", "set", "stamp", "append"} => table[key(t)] \in Lists
    /\ pc[t] \in {"set", "stamp", "append"} => resp[t] \in AgentAnswers(req[t])
    /\ pc[t] \in {"stamp", "append"} => can_cache_response(resp[t])
    /\ pc[t] # "done" => reused[t] = NoEntry
    /\ pc[t] \in {"idle", "clock", "filter", "writeback", "scan", "answer",
                 "failed"} => resp[t] = NoResponse

\* A list is reached through one key only.
OneKeyPerList ==
  /\ \A k, j \in Keys : table[k] = table[j] /\ table[k] \in Lists => k = j
  /\ \A t \in Threads, k \in Keys :
       Running(t) /\ list[t] = table[k] /\ list[t] \in Lists => key(t) = k
  /\ \A t, u \in Threads :
       Running(t) /\ Running(u) /\ list[t] = list[u] /\ list[t] \in Lists =>
         key(t) = key(u)

\* The lists of a key hold entries for that key, and the list a lookup is about
\* to return from holds nothing that had expired when it read the clock.
Filed ==
  /\ \A k \in Keys : table[k] \in Lists =>
       \A e \in heap[table[k]] : EntryFor(e, k)
  /\ \A t \in Threads : Running(t) /\ list[t] \in Lists =>
       \A e \in heap[list[t]] : EntryFor(e, key(t))
  /\ \A t \in Threads : pc[t] \in {"writeback", "scan"} =>
       \A e \in heap[list[t]] : e.expires > clock[t]

\* e is an entry of response a, made by now.
EntryOf(e, a) == \E at \in 0..now : e = NewEntry(a, at)

\* What is about to be appended was made of the response.  Appended to the list that a
\* lookup scans, it had not expired when the lookup read the clock: the list is younger
\* than that, and the entry than the list.
Dated ==
  \A t \in Threads : pc[t] = "append" =>
    /\ EntryOf(new[t], resp[t])
    /\ \A u \in Threads : pc[u] \in {"writeback", "scan"} /\ list[t] = list[u] =>
         new[t].expires > clock[u]

\* A response is a hit of this key, or the agent's own answer to this request.
Justified ==
  \A t \in Threads : Running(t) =>
    /\ reused[t] # NoEntry =>
         /\ EntryFor(reused[t], key(t))
         /\ <<req[t].query, reused[t].response.req.query>> \in Similar
         /\ reused[t].expires > clock[t]
         /\ resp[t] = reused[t].response
    /\ reused[t] = NoEntry /\ resp[t] # NoResponse =>
         resp[t] \in AgentAnswers(req[t])

IInv == TypeOK /\ Control /\ OneKeyPerList /\ Filed /\ Dated /\ Justified

-----------------------------------------------------------------------------
\* A thread that comes neither to append nor to scan leaves it so.
LEMMA DatedKept ==
  ASSUME IInv, now' = now,
         \A u \in Threads :
           /\ pc'[u] \in {"writeback", "scan"} => pc[u] \in {"writeback", "scan"}
           /\ pc'[u] = "append" => pc[u] = "append" /\ new'[u] = new[u] /\ resp'[u] = resp[u]
           /\ pc'[u] \in {"writeback", "scan", "append"} =>
                list'[u] = list[u] /\ clock'[u] = clock[u]
  PROVE  Dated'
  BY DEF IInv, Dated, EntryOf

LEMMA InitIInv == Init => IInv
  <1> SUFFICES ASSUME Init PROVE IInv
    OBVIOUS
  <1>1. TypeOK
    BY ThreadAssumption DEF Init, TypeOK, PCs
  <1>2. Control /\ Justified
    BY DEF Init, Control, Justified, Running
  <1>3. OneKeyPerList /\ Filed /\ Dated
    BY ThreadAssumption DEF Init, OneKeyPerList, Filed, Dated, Running
  <1> QED
    BY <1>1, <1>2, <1>3 DEF IInv

LEMMA TickIInv == IInv /\ Tick => IInv'
  <1> SUFFICES ASSUME IInv, Tick PROVE IInv'
    OBVIOUS
  <1> USE DEF Tick, IInv, shared, local, history
  <1>1. TypeOK'
    BY ThreadAssumption DEF TypeOK
  <1>2. Control'
    BY ThreadAssumption DEF Control, TypeOK, Running, key
  <1>3. OneKeyPerList' /\ Filed' /\ Dated' /\ Justified'
    <2>1. now \in Nat /\ now' = now + 1
      BY DEF TypeOK
    <2>2. \A e, a : EntryOf(e, a) => EntryOf(e, a)'
      BY <2>1 DEF EntryOf, NewEntry
    <2> QED
      BY <2>2 DEF OneKeyPerList, Filed, Dated, Justified, Running, key
  <1> QED
    BY <1>1, <1>2, <1>3

LEMMA BeginIInv ==
  ASSUME IInv, NEW t \in Threads, Begin(t)
  PROVE  IInv'
  <1> PICK r \in Requests : req' = [req EXCEPT ![t] = r]
    BY DEF Begin
  <1> USE DEF Begin, Goto, IInv, shared, history
  <1>1. TypeOK'
    BY ThreadAssumption DEF TypeOK, PCs
  <1>2. Control'
    BY ThreadAssumption DEF Control, TypeOK, Running, key
  <1>3. OneKeyPerList'
    BY ThreadAssumption DEF Control, TypeOK, OneKeyPerList, Running, key
  <1>4. Filed'
    BY ThreadAssumption DEF Control, TypeOK, Filed, Running, key
  <1>5. Justified'
    BY DEF Control, TypeOK, Justified, Running, key
  <1>6. Dated'
    BY DatedKept DEF TypeOK
  <1> QED
    BY <1>1, <1>2, <1>3, <1>4, <1>5, <1>6

LEMMA ReadClockIInv ==
  ASSUME IInv, NEW t \in Threads, ReadClock(t)
  PROVE  IInv'
  <1> USE DEF ReadClock, Goto, IInv, shared, history
  <1>1. TypeOK'
    BY ThreadAssumption DEF TypeOK, PCs
  <1>2. Control'
    BY ThreadAssumption DEF Control, TypeOK, Running, key
  <1>3. OneKeyPerList'
    BY DEF Control, TypeOK, OneKeyPerList, Running, key
  <1>4. Filed'
    BY DEF Control, TypeOK, Filed, Running, key
  <1>5. Justified'
    BY DEF Control, TypeOK, Justified, Running, key
  <1>6. Dated'
    BY DatedKept DEF TypeOK
  <1> QED
    BY <1>1, <1>2, <1>3, <1>4, <1>5, <1>6

LEMMA FilterIInv ==
  ASSUME IInv, NEW t \in Threads, Filter(t)
  PROVE  IInv'
  <1> DEFINE l == NewList
             kept == live(visible(key(t)), clock[t])
  <1>1. l \in Lists /\ l \notin Referenced
    BY DEF Filter, NewList
  <1>2. req[t] \in Requests /\ key(t) \in Keys /\ clock[t] \in 0..now
    BY KeyInKeys DEF Filter, Goto, IInv, Control, Running, key
  <1>3. \A e \in kept : EntryFor(e, key(t)) /\ e.expires > clock[t]
    BY <1>2 DEF IInv, Filed, live, visible, TypeOK
  <1>4. kept \in SUBSET Entry
    BY <1>3 DEF EntryFor
  <1>5. /\ heap' = [heap EXCEPT ![l] = kept] /\ list' = [list EXCEPT ![t] = l]
        /\ pc[t] = "filter" /\ pc' = [pc EXCEPT ![t] = "writeback"]
        /\ UNCHANGED <<now, begun, table, req, clock, resp, reused, new, history>>
    BY DEF Filter, Goto
  <1>6. \A k \in Keys : table[k] # l
    BY <1>1 DEF Referenced
  <1>7. \A u \in Threads : list[u] # l
    BY <1>1 DEF Referenced
  <1> HIDE DEF l, kept
  <1>8. TypeOK'
    BY <1>1, <1>4, <1>5 DEF IInv, TypeOK, PCs, history
  <1>9. Control'
    BY <1>1, <1>5 DEF IInv, Control, TypeOK, Running, key
  <1>10. OneKeyPerList'
    BY <1>1, <1>5, <1>6, <1>7 DEF IInv, OneKeyPerList, TypeOK, Running, key
  <1>11. Filed'
    BY <1>1, <1>3, <1>5, <1>6, <1>7 DEF IInv, Filed, Control, TypeOK, Running, key
  <1>12. Justified'
    BY <1>5 DEF IInv, Justified, TypeOK, Running, key
  <1>13. Dated'
    BY <1>1, <1>5, <1>7 DEF IInv, Dated, EntryOf, TypeOK
  <1> QED
    BY <1>8, <1>9, <1>10, <1>11, <1>12, <1>13 DEF IInv

\* Collecting leaves the contents of every list that is still referenced.
LEMMA CollectKeeps ==
  ASSUME Collect
  PROVE  /\ \A k \in Keys : table'[k] \in Lists => heap'[table'[k]] = heap[table'[k]]
         /\ \A u \in Threads : list'[u] \in Lists => heap'[list'[u]] = heap[list'[u]]
  BY DEF Collect, Referenced

LEMMA CollectType ==
  ASSUME Collect, heap \in [Lists -> SUBSET Entry]
  PROVE  heap' \in [Lists -> SUBSET Entry]
  BY DEF Collect

LEMMA WriteBackIInv ==
  ASSUME IInv, NEW t \in Threads, WriteBack(t)
  PROVE  IInv'
  <1> DEFINE k == key(t)
  <1>1. /\ table' = [table EXCEPT ![k] = list[t]]
        /\ pc[t] = "writeback" /\ pc' = [pc EXCEPT ![t] = "scan"]
        /\ UNCHANGED <<now, begun, local, stored, quiet>>
        /\ clash' \in [Threads -> BOOLEAN]
        /\ Collect
    BY DEF WriteBack, Goto, TypeOK, IInv
  <1>2. k \in Keys /\ list[t] \in Lists
    BY <1>1, KeyInKeys DEF IInv, Control, Running, key
  <1>3. /\ \A j \in Keys : table'[j] \in Lists => heap'[table'[j]] = heap[table'[j]]
        /\ \A u \in Threads : list[u] \in Lists => heap'[list[u]] = heap[list[u]]
    BY <1>1, CollectKeeps DEF local
  <1>4. TypeOK'
    BY <1>1, <1>2, CollectType DEF IInv, TypeOK, PCs, local
  <1>5. \A j \in Keys : table'[j] = IF j = k THEN list[t] ELSE table[j]
    BY <1>1 DEF IInv, TypeOK
  <1>6. Control'
    BY <1>1, <1>2, <1>5, KeyInKeys DEF IInv, Control, TypeOK, Running, key, local
  <1>7. OneKeyPerList'
    <2>1. \A u \in Threads : key(u)' = key(u) /\ list'[u] = list[u]
      BY <1>1 DEF key, local
    <2>2. \A u \in Threads : Running(u)' <=> Running(u)
      BY <1>1 DEF Running, IInv, TypeOK
    <2>3. Running(t)
      BY <1>1 DEF Running
    <2> QED
      BY <1>2, <1>5, <2>1, <2>2, <2>3 DEF IInv, OneKeyPerList
  <1>8. Filed'
    <2>1. \A j \in Keys : table'[j] \in Lists => \A e \in heap'[table'[j]] : EntryFor(e, j)
      BY <1>1, <1>2, <1>3, <1>5 DEF IInv, Filed, Running
    <2>2. \A u \in Threads : Running(u)' /\ list'[u] \in Lists =>
            \A e \in heap'[list'[u]] : EntryFor(e, key(u)')
      BY <1>1, <1>3 DEF IInv, Filed, Running, TypeOK, key, local
    <2>3. \A u \in Threads : pc'[u] \in {"writeback", "scan"} =>
            \A e \in heap'[list'[u]] : e.expires > clock'[u]
      BY <1>1, <1>3 DEF IInv, Filed, TypeOK, Control, local
    <2> QED
      BY <2>1, <2>2, <2>3 DEF Filed
  <1>9. Justified'
    BY <1>1 DEF IInv, Justified, TypeOK, Running, key, local
  <1>10. Dated'
    BY <1>1, DatedKept DEF IInv, TypeOK, local
  <1> QED
    BY <1>4, <1>6, <1>7, <1>8, <1>9, <1>10 DEF IInv

\* A step that drops t's list, or moves t on without touching the table, keeps
\* every list filed under its key.
LEMMA ReleaseKeepsFiling ==
  ASSUME IInv, NEW t \in Threads, Running(t), Collect,
         UNCHANGED <<table, now>>, list' = [list EXCEPT ![t] = NoList],
         \A u \in Threads \ {t} : pc'[u] = pc[u] /\ clock'[u] = clock[u] /\ req'[u] = req[u],
         pc'[t] \notin {"writeback", "scan"}
  PROVE  OneKeyPerList' /\ Filed'
  <1>1. /\ \A j \in Keys : table[j] \in Lists => heap'[table[j]] = heap[table[j]]
        /\ \A u \in Threads \ {t} : list[u] \in Lists => heap'[list[u]] = heap[list[u]]
    BY CollectKeeps DEF IInv, TypeOK
  <1>2. list'[t] \notin Lists /\ \A u \in Threads \ {t} : list'[u] = list[u]
    BY ThreadAssumption DEF IInv, TypeOK
  <1>3. \A u \in Threads \ {t} : key(u)' = key(u) /\ (Running(u)' <=> Running(u))
    BY DEF key, Running
  <1>4. OneKeyPerList'
    BY <1>2, <1>3 DEF IInv, OneKeyPerList
  <1>5. \A j \in Keys : table'[j] \in Lists => \A e \in heap'[table'[j]] : EntryFor(e, j)
    BY <1>1 DEF IInv, Filed
  <1>6. \A u \in Threads : Running(u)' /\ list'[u] \in Lists =>
          \A e \in heap'[list'[u]] : EntryFor(e, key(u)')
    BY <1>1, <1>2, <1>3 DEF IInv, Filed
  <1>7. \A u \in Threads : pc'[u] \in {"writeback", "scan"} =>
          \A e \in heap'[list'[u]] : e.expires > clock'[u]
    BY <1>1, <1>2 DEF IInv, Filed, Control
  <1> QED
    BY <1>4, <1>5, <1>6, <1>7 DEF Filed

LEMMA HitIInv ==
  ASSUME IInv, NEW t \in Threads, Hit(t)
  PROVE  IInv'
  <1> PICK e \in matches(heap[list[t]], req[t].query) :
           /\ resp' = [resp EXCEPT ![t] = e.response]
           /\ reused' = [reused EXCEPT ![t] = e]
    BY DEF Hit
  <1>1. /\ pc[t] = "scan" /\ pc' = [pc EXCEPT ![t] = "done"]
        /\ list' = [list EXCEPT ![t] = NoList]
        /\ UNCHANGED <<now, begun, table, req, clock, new, history>>
        /\ Collect
    BY DEF Hit, Goto
  <1>2. /\ EntryFor(e, key(t)) /\ e.expires > clock[t]
        /\ <<req[t].query, e.response.req.query>> \in Similar
    BY <1>1 DEF IInv, Control, Filed, Running, matches
  <1>3. e \in Entry /\ e.response \in Response
    BY <1>2 DEF EntryFor, Entry
  <1>4. TypeOK'
    BY <1>1, <1>3, CollectType DEF IInv, TypeOK, PCs, history
  <1>5. Control'
    BY <1>1, <1>3, ThreadAssumption DEF IInv, Control, TypeOK, Running, key
  <1>6. OneKeyPerList' /\ Filed'
    BY <1>1, ReleaseKeepsFiling DEF IInv, TypeOK, Running
  <1>7. Justified'
    BY <1>1, <1>2, <1>3, ThreadAssumption DEF IInv, Justified, TypeOK, Running, key
  <1>8. Dated'
    BY <1>1, DatedKept DEF IInv, TypeOK
  <1> QED
    BY <1>4, <1>5, <1>6, <1>7, <1>8 DEF IInv

LEMMA MissIInv ==
  ASSUME IInv, NEW t \in Threads, Miss(t)
  PROVE  IInv'
  <1>1. /\ pc[t] = "scan" /\ pc' = [pc EXCEPT ![t] = "answer"]
        /\ list' = [list EXCEPT ![t] = NoList]
        /\ UNCHANGED <<now, begun, table, req, clock, resp, reused, new, history>>
        /\ Collect
    BY DEF Miss, Goto
  <1>2. TypeOK'
    BY <1>1, CollectType DEF IInv, TypeOK, PCs, history
  <1>3. Control'
    BY <1>1 DEF IInv, Control, TypeOK, Running, key
  <1>4. OneKeyPerList' /\ Filed'
    BY <1>1, ReleaseKeepsFiling DEF IInv, TypeOK, Running
  <1>5. Justified'
    BY <1>1 DEF IInv, Justified, TypeOK, Running, key
  <1>6. Dated'
    BY <1>1, DatedKept DEF IInv, TypeOK
  <1> QED
    BY <1>2, <1>3, <1>4, <1>5, <1>6 DEF IInv

LEMMA AnswerIInv ==
  ASSUME IInv, NEW t \in Threads, Answer(t)
  PROVE  IInv'
  <1> PICK a \in AgentAnswers(req[t]) : resp' = [resp EXCEPT ![t] = a]
    BY DEF Answer
  <1>1. /\ pc[t] = "answer" /\ pc' = [pc EXCEPT ![t] = "set"]
        /\ UNCHANGED <<now, begun, shared, req, clock, list, reused, new, history>>
    BY DEF Answer, Goto
  <1>2. req[t] \in Requests /\ a \in Response
    BY <1>1, AnswerFacts DEF IInv, Control, Running
  <1>3. TypeOK'
    BY <1>1, <1>2 DEF IInv, TypeOK, PCs, history, shared
  <1>4. Control'
    BY <1>1, <1>2 DEF IInv, Control, TypeOK, Running, key, shared
  <1>5. OneKeyPerList' /\ Filed'
    BY <1>1 DEF IInv, OneKeyPerList, Filed, TypeOK, Running, key, shared
  <1>6. Justified'
    BY <1>1, <1>2 DEF IInv, Justified, Control, TypeOK, Running, key
  <1>7. Dated'
    BY <1>1, DatedKept DEF IInv, TypeOK
  <1> QED
    BY <1>3, <1>4, <1>5, <1>6, <1>7 DEF IInv

LEMMA AgentRaisesIInv ==
  ASSUME IInv, NEW t \in Threads, AgentRaises(t)
  PROVE  IInv'
  <1>1. /\ pc[t] = "answer" /\ pc' = [pc EXCEPT ![t] = "failed"]
        /\ UNCHANGED <<now, begun, shared, local, history>>
    BY DEF AgentRaises, Goto
  <1>2. TypeOK'
    BY <1>1 DEF IInv, TypeOK, PCs, history, shared, local
  <1>3. Control'
    BY <1>1 DEF IInv, Control, TypeOK, Running, key, shared, local
  <1>4. OneKeyPerList' /\ Filed'
    BY <1>1 DEF IInv, OneKeyPerList, Filed, TypeOK, Running, key, shared, local
  <1>5. Justified'
    BY <1>1 DEF IInv, Justified, TypeOK, Running, key, local
  <1>6. Dated'
    BY <1>1, DatedKept DEF IInv, TypeOK, local
  <1> QED
    BY <1>2, <1>3, <1>4, <1>5, <1>6 DEF IInv

LEMMA RejectIInv ==
  ASSUME IInv, NEW t \in Threads, Reject(t)
  PROVE  IInv'
  <1>1. /\ pc[t] = "set" /\ pc' = [pc EXCEPT ![t] = "done"]
        /\ UNCHANGED <<now, begun, shared, local, history>>
    BY DEF Reject, Goto
  <1>2. TypeOK'
    BY <1>1 DEF IInv, TypeOK, PCs, history, shared, local
  <1>3. Control'
    BY <1>1 DEF IInv, Control, TypeOK, Running, key, shared, local
  <1>4. OneKeyPerList' /\ Filed'
    BY <1>1 DEF IInv, OneKeyPerList, Filed, TypeOK, Running, key, shared, local
  <1>5. Justified'
    BY <1>1 DEF IInv, Justified, TypeOK, Running, key, local
  <1>6. Dated'
    BY <1>1, DatedKept DEF IInv, TypeOK, local
  <1> QED
    BY <1>2, <1>3, <1>4, <1>5, <1>6 DEF IInv

LEMMA SetDefaultIInv ==
  ASSUME IInv, NEW t \in Threads, SetDefault(t)
  PROVE  IInv'
  <1> DEFINE l == table[key(t)]
  <1>1. /\ pc[t] = "set" /\ pc' = [pc EXCEPT ![t] = "stamp"]
        /\ can_cache_response(resp[t])
        /\ list' = [list EXCEPT ![t] = l]
        /\ clash' = [clash EXCEPT ![t] = FALSE]
        /\ UNCHANGED <<now, begun, shared, req, clock, resp, reused, new, stored, quiet>>
    BY DEF SetDefault, Goto
  <1>2. req[t] \in Requests /\ key(t) \in Keys /\ l \in Lists
    BY <1>1, KeyInKeys DEF IInv, Control, Running, key
  <1>3. TypeOK'
    BY <1>1, <1>2 DEF IInv, TypeOK, PCs, shared
  <1>4. Control'
    BY <1>1, <1>2 DEF IInv, Control, TypeOK, Running, key, shared
  <1>5. \A u \in Threads : key(u)' = key(u) /\ (Running(u)' <=> Running(u))
    BY <1>1 DEF IInv, TypeOK, Running, key
  <1>6. \A u \in Threads : list'[u] = IF u = t THEN l ELSE list[u]
    BY <1>1 DEF IInv, TypeOK
  <1> HIDE DEF l
  <1>7. OneKeyPerList'
    <2>1. \A j \in Keys : l = table[j] => key(t) = j
      BY <1>2 DEF IInv, OneKeyPerList, l
    <2>2. \A u \in Threads : Running(u) /\ list[u] = l => key(u) = key(t)
      BY <1>2 DEF IInv, OneKeyPerList, l
    <2> QED
      BY <1>1, <1>5, <1>6, <2>1, <2>2 DEF IInv, OneKeyPerList, shared
  <1>8. Filed'
    <2>1. \A e \in heap[l] : EntryFor(e, key(t))
      BY <1>2 DEF IInv, Filed, l
    <2>2. \A u \in Threads : pc'[u] \in {"writeback", "scan"} => u # t /\ pc[u] = pc'[u]
      BY <1>1 DEF IInv, TypeOK
    <2> QED
      BY <1>1, <1>5, <1>6, <2>1, <2>2 DEF IInv, Filed, shared
  <1>9. Justified'
    BY <1>1, <1>5 DEF IInv, Justified
  <1>10. Dated'
    BY <1>1, DatedKept DEF IInv, TypeOK
  <1> QED
    BY <1>3, <1>4, <1>7, <1>8, <1>9, <1>10 DEF IInv

LEMMA StampIInv ==
  ASSUME IInv, NEW t \in Threads, Stamp(t)
  PROVE  IInv'
  <1>1. /\ pc[t] = "stamp" /\ pc' = [pc EXCEPT ![t] = "append"]
        /\ new' = [new EXCEPT ![t] = NewEntry(resp[t], now)]
        /\ UNCHANGED <<now, begun, shared, req, clock, list, resp, reused, history>>
    BY DEF Stamp, Goto
  <1>2. /\ req[t] \in Requests /\ now \in Nat
        /\ resp[t] \in AgentAnswers(req[t]) /\ can_cache_response(resp[t])
    BY <1>1 DEF IInv, TypeOK, Control, Running
  <1>3. NewEntry(resp[t], now) \in Entry /\ \A c \in 0..now : NewEntry(resp[t], now).expires > c
    BY <1>2, NewEntryFacts DEF EntryFor
  <1>4. TypeOK'
    BY <1>1, <1>3 DEF IInv, TypeOK, PCs, shared, history
  <1>5. Control'
    BY <1>1, <1>2 DEF IInv, Control, TypeOK, Running, key, shared
  <1>6. OneKeyPerList' /\ Filed'
    BY <1>1 DEF IInv, OneKeyPerList, Filed, TypeOK, Running, key, shared
  <1>7. Justified'
    BY <1>1 DEF IInv, Justified, TypeOK, Running, key
  <1>8. Dated'
    <2> SUFFICES ASSUME NEW u \in Threads, NEW v \in Threads,
                        pc'[u] = "append", pc'[v] \in {"writeback", "scan"}, list[u] = list[v]
                 PROVE  new'[u].expires > clock[v]
      <3>1. \A u \in Threads : pc'[u] = "append" => EntryOf(new'[u], resp[u])
        <4> TAKE u \in Threads
        <4>1. CASE u = t
          BY <1>1, <1>2, <4>1 DEF IInv, TypeOK, EntryOf
        <4>2. CASE u # t
          BY <1>1, <4>2 DEF IInv, TypeOK, Dated
        <4> QED
          BY <4>1, <4>2
      <3> QED
        BY <1>1, <3>1 DEF Dated, EntryOf
    <2>1. pc[v] = pc'[v]
      BY <1>1 DEF IInv, TypeOK
    <2>2. CASE u = t
      <3>1. clock[v] \in 0..now
        BY <2>1 DEF IInv, Control
      <3> QED
        BY <1>1, <1>3, <2>2, <3>1 DEF IInv, TypeOK
    <2>3. CASE u # t
      BY <1>1, <2>1, <2>3 DEF IInv, Dated, TypeOK
    <2> QED
      BY <2>2, <2>3
  <1> QED
    BY <1>4, <1>5, <1>6, <1>7, <1>8 DEF IInv

LEMMA AppendIInv ==
  ASSUME IInv, NEW t \in Threads, Append(t)
  PROVE  IInv'
  <1> DEFINE e == new[t]
  <1>1. /\ pc[t] = "append" /\ pc' = [pc EXCEPT ![t] = "done"]
        /\ heap' = [heap EXCEPT ![list[t]] = @ \cup {e}]
        /\ stored' = stored \cup {e}
        /\ quiet' \in {quiet, quiet \cup {e}}
        /\ UNCHANGED <<now, begun, table, local, clash>>
    BY DEF Append, Goto
  <1>2. /\ req[t] \in Requests /\ list[t] \in Lists /\ Running(t)
        /\ resp[t] \in AgentAnswers(req[t]) /\ can_cache_response(resp[t])
        /\ \E at \in 0..now : e = NewEntry(resp[t], at)
        /\ \A u \in Threads : pc[u] \in {"writeback", "scan"} /\ list[u] = list[t] =>
             e.expires > clock[u]
    BY <1>1 DEF IInv, Control, Dated, EntryOf, Running
  <1>3. EntryFor(e, key(t))
    BY <1>2, NewEntryFacts DEF IInv, TypeOK, key
  <1>4. e \in Entry
    BY <1>3 DEF EntryFor
  <1> HIDE DEF e
  <1>5. \A l \in Lists : heap'[l] = IF l = list[t] THEN heap[l] \cup {e} ELSE heap[l]
    BY <1>1, <1>2 DEF IInv, TypeOK
  <1>6. TypeOK'
    <2>1. heap' \in [Lists -> SUBSET Entry]
      BY <1>1, <1>4 DEF IInv, TypeOK
    <2>2. stored' \in SUBSET Entry /\ quiet' \in SUBSET stored'
      BY <1>1, <1>4 DEF IInv, TypeOK
    <2> QED
      BY <1>1, <2>1, <2>2 DEF IInv, TypeOK, PCs, local
  <1>7. Control'
    BY <1>1 DEF IInv, Control, TypeOK, Running, key, local
  <1>8. \A u \in Threads : key(u)' = key(u) /\ (Running(u)' <=> Running(u))
    BY <1>1 DEF IInv, TypeOK, Running, key, local
  <1>9. OneKeyPerList'
    BY <1>1, <1>8 DEF IInv, OneKeyPerList, local
  <1>10. Filed'
    <2>1. \A k \in Keys : table'[k] \in Lists => \A x \in heap'[table'[k]] : EntryFor(x, k)
      BY <1>1, <1>2, <1>3, <1>5 DEF IInv, Filed, OneKeyPerList
    <2>2. \A u \in Threads : Running(u)' /\ list'[u] \in Lists =>
            \A x \in heap'[list'[u]] : EntryFor(x, key(u)')
      BY <1>1, <1>2, <1>3, <1>5, <1>8 DEF IInv, Filed, OneKeyPerList, local
    <2>3. \A u \in Threads : pc'[u] \in {"writeback", "scan"} =>
            \A x \in heap'[list'[u]] : x.expires > clock'[u]
      BY <1>1, <1>2, <1>5 DEF IInv, Filed, Control, TypeOK, local
    <2> QED
      BY <2>1, <2>2, <2>3 DEF Filed
  <1>11. Justified'
    BY <1>1, <1>8 DEF IInv, Justified, local
  <1>12. Dated'
    BY <1>1, DatedKept DEF IInv, TypeOK, local
  <1> QED
    BY <1>6, <1>7, <1>9, <1>10, <1>11, <1>12 DEF IInv

LEMMA FinishIInv ==
  ASSUME IInv, NEW t \in Threads, Finish(t)
  PROVE  IInv'
  <1>1. /\ pc[t] \in {"done", "failed"} /\ pc' = [pc EXCEPT ![t] = "idle"]
        /\ req' = [req EXCEPT ![t] = NoRequest]
        /\ clock' = [clock EXCEPT ![t] = Unread]
        /\ list' = [list EXCEPT ![t] = NoList]
        /\ resp' = [resp EXCEPT ![t] = NoResponse]
        /\ reused' = [reused EXCEPT ![t] = NoEntry]
        /\ new' = [new EXCEPT ![t] = NoEntry]
        /\ clash' = [clash EXCEPT ![t] = FALSE]
        /\ UNCHANGED <<now, begun, table, stored, quiet>>
        /\ Collect
    BY DEF Finish
  <1>2. TypeOK'
    BY <1>1, CollectType DEF IInv, TypeOK, PCs
  <1>3. Control'
    BY <1>1 DEF IInv, Control, TypeOK, Running, key
  <1>4. OneKeyPerList' /\ Filed'
    BY <1>1, ReleaseKeepsFiling DEF IInv, TypeOK, Running
  <1>5. Justified'
    BY <1>1 DEF IInv, Justified, TypeOK, Running, key
  <1>6. Dated'
    BY <1>1, DatedKept DEF IInv, TypeOK
  <1> QED
    BY <1>2, <1>3, <1>4, <1>5, <1>6 DEF IInv

LEMMA StutterIInv == IInv /\ UNCHANGED vars => IInv'
  BY DEF vars, shared, local, history, IInv, TypeOK, Control, OneKeyPerList,
         Filed, Dated, EntryOf, Justified, Running, key

-----------------------------------------------------------------------------
\* IInv is an inductive invariant of the specification: one lemma per action.
THEOREM InductiveInvariant == Spec => []IInv
  <1>1. IInv /\ [Next]_vars => IInv'
    <2> SUFFICES ASSUME IInv, [Next]_vars PROVE IInv'
      OBVIOUS
    <2>1. CASE Tick
      BY <2>1, TickIInv
    <2>2. ASSUME NEW t \in Threads, Begin(t) PROVE IInv'
      BY <2>2, BeginIInv
    <2>3. ASSUME NEW t \in Threads, Step(t) PROVE IInv'
      BY <2>3, ReadClockIInv, FilterIInv, WriteBackIInv, HitIInv, MissIInv,
         AnswerIInv, AgentRaisesIInv, RejectIInv, SetDefaultIInv, StampIInv, AppendIInv,
         FinishIInv DEF Step
    <2>4. CASE Rest \/ UNCHANGED vars
      BY <2>4, StutterIInv DEF Rest
    <2> QED
      BY <2>1, <2>2, <2>3, <2>4 DEF Next
  <1> QED
    BY InitIInv, <1>1, PTL DEF Spec

\* The variables keep their types.
THEOREM TypeCorrect == Spec => []TypeOK
  <1>1. IInv => TypeOK
    BY DEF IInv
  <1> QED
    BY <1>1, InductiveInvariant, PTL

\* A cached answer is reused only within its namespace and for a similar query,
\* whatever the number of threads and the order in which they replace and
\* append to the lists.
THEOREM NamespaceIsolation == Spec => []ReuseWithinNamespace
  <1>1. IInv => ReuseWithinNamespace
    <2> SUFFICES ASSUME IInv, NEW t \in Threads, reused[t] # NoEntry
                 PROVE  LET asked == req[t]
                            made == reused[t].response.req
                        IN /\ made.role = asked.role
                           /\ JurisdictionName(made.jurisdiction) = JurisdictionName(asked.jurisdiction)
                           /\ made.method = asked.method
                           /\ made.source_types = asked.source_types
                           /\ effective_as_of_date(made) = effective_as_of_date(asked)
                           /\ <<asked.query, made.query>> \in Similar
      BY DEF ReuseWithinNamespace
    <2>1. Running(t)
      BY DEF IInv, Control, Running
    <2>2. /\ CacheKey(reused[t].response.req) = CacheKey(req[t])
          /\ <<req[t].query, reused[t].response.req.query>> \in Similar
      BY <2>1 DEF IInv, Justified, EntryFor, key
    <2> QED
      BY <2>2 DEF CacheKey
  <1> QED
    BY <1>1, InductiveInvariant, PTL

\* Only unexpired, relevant answers from public sources to queries without an
\* exact identifier are reused.
THEOREM PublicFreshReuse == Spec => []ReuseIsPublicAndFresh
  <1>1. IInv => ReuseIsPublicAndFresh
    <2> SUFFICES ASSUME IInv, NEW t \in Threads, reused[t] # NoEntry
                 PROVE  /\ can_cache_response(reused[t].response)
                        /\ reused[t].expires > clock[t]
                        /\ \A c \in reused[t].response.sources : ClassOf[c] = "public"
      BY DEF ReuseIsPublicAndFresh, can_cache_response
    <2>1. Running(t)
      BY DEF IInv, Control, Running
    <2>2. EntryFor(reused[t], key(t)) /\ reused[t].expires > clock[t]
      BY <2>1 DEF IInv, Justified
    <2>3. can_cache_response(reused[t].response)
      BY <2>2 DEF EntryFor
    <2>4. \A c \in reused[t].response.sources : ClassOf[c] = "public"
      BY <2>3 DEF can_cache_response, classifications
    <2> QED
      BY <2>2, <2>3, <2>4
  <1> QED
    BY <1>1, InductiveInvariant, PTL

\* No response, cached or not, cites a chunk closed to the role that asked.
THEOREM SourcesStayAuthorized == Spec => []NoForeignSource
  <1>1. IInv => NoForeignSource
    <2> SUFFICES ASSUME IInv, NEW t \in Threads, resp[t] # NoResponse
                 PROVE  resp[t].sources \subseteq Readable[req[t].role]
      BY DEF NoForeignSource
    <2>1. Running(t) /\ req[t] \in Requests
      BY DEF IInv, Control, Running
    <2>2. CASE reused[t] = NoEntry
      BY <2>1, <2>2, AnswerFacts DEF IInv, Justified
    <2>3. CASE reused[t] # NoEntry
      <3>1. /\ EntryFor(reused[t], key(t)) /\ resp[t] = reused[t].response
        BY <2>1, <2>3 DEF IInv, Justified
      <3>2. /\ resp[t] \in AgentAnswers(resp[t].req) /\ resp[t].req \in Requests
            /\ CacheKey(resp[t].req) = CacheKey(req[t])
        BY <3>1 DEF EntryFor, Entry, Response, key
      <3>3. resp[t].req.role = req[t].role
        BY <3>2 DEF CacheKey
      <3> QED
        BY <3>2, <3>3, AnswerFacts
    <2> QED
      BY <2>2, <2>3
  <1> QED
    BY <1>1, InductiveInvariant, PTL

-----------------------------------------------------------------------------
(* Stores that no lookup of their key overlaps.                            *)

\* A set that no get of its key has disturbed appends to the list that lookups find.
Undisturbed ==
  \A t \in Threads : pc[t] \in {"stamp", "append"} /\ ~clash[t] => list[t] = table[key(t)]

\* A live entry of quiet is in the list of its key, and in every list that is
\* about to take that list's place.
Settled ==
  \A e \in quiet : e.expires > now =>
    LET k == CacheKey(e.response.req)
    IN /\ table[k] \in Lists /\ e \in heap[table[k]]
       /\ \A t \in Threads : pc[t] = "writeback" /\ key(t) = k => e \in heap[list[t]]

QuietInv == Undisturbed /\ Settled

\* A step that changes neither the table nor the entries that a list in use holds, and
\* lets no thread begin to replace a list or append to one, leaves quiet entries settled.
LEMMA QuietKept ==
  ASSUME IInv, QuietInv,
         UNCHANGED <<table, quiet>>, now' >= now, now' \in Nat,
         \A k \in Keys : table[k] \in Lists => heap[table[k]] \subseteq heap'[table[k]],
         \A u \in Threads : pc'[u] \in {"writeback", "stamp", "append"} =>
           /\ pc[u] = pc'[u] /\ req'[u] = req[u] /\ list'[u] = list[u] /\ clash'[u] = clash[u]
           /\ heap[list[u]] \subseteq heap'[list[u]]
  PROVE  QuietInv'
  <1>1. Undisturbed'
    BY DEF QuietInv, Undisturbed, key
  <1>2. Settled'
    <2> SUFFICES ASSUME NEW e \in quiet, e.expires > now'
                 PROVE  LET k == CacheKey(e.response.req)
                        IN /\ table[k] \in Lists /\ e \in heap'[table[k]]
                           /\ \A t \in Threads : pc'[t] = "writeback" /\ key(t)' = k =>
                                e \in heap'[list'[t]]
      BY DEF Settled
    <2>1. e \in Entry /\ CacheKey(e.response.req) \in Keys /\ e.expires > now
      BY EntryKey DEF IInv, TypeOK
    <2> QED
      BY <2>1 DEF QuietInv, Settled, key
  <1> QED
    BY <1>1, <1>2 DEF QuietInv

LEMMA FilterQuiet ==
  ASSUME IInv, QuietInv, NEW t \in Threads, Filter(t)
  PROVE  QuietInv'
  <1> DEFINE l == NewList
             kept == live(visible(key(t)), clock[t])
  <1>1. l \in Lists /\ l \notin Referenced
    BY DEF Filter, NewList
  <1>2. /\ heap' = [heap EXCEPT ![l] = kept] /\ list' = [list EXCEPT ![t] = l]
        /\ pc[t] = "filter" /\ pc' = [pc EXCEPT ![t] = "writeback"]
        /\ UNCHANGED <<now, begun, table, req, clock, resp, reused, new, history>>
    BY DEF Filter, Goto
  <1>3. /\ \A k \in Keys : table[k] # l
        /\ \A u \in Threads : list[u] # l
    BY <1>1 DEF Referenced
  <1>4. clock[t] \in 0..now /\ now \in Nat
    BY <1>2 DEF IInv, Control, TypeOK
  <1>5. ASSUME NEW e \in quiet, e.expires > now, key(t) = CacheKey(e.response.req)
        PROVE  e \in kept
    <2>1. e \in visible(key(t))
      BY <1>5, ThreadAssumption DEF QuietInv, Settled, visible
    <2>2. e \in Entry /\ e.expires \in Nat
      BY EntryKey DEF IInv, TypeOK
    <2> QED
      BY <1>4, <1>5, <2>1, <2>2 DEF live
  <1> HIDE DEF l, kept
  <1>6. Undisturbed'
    BY <1>2 DEF QuietInv, Undisturbed, IInv, TypeOK, history, key
  <1>7. Settled'
    <2> SUFFICES ASSUME NEW e \in quiet, e.expires > now
                 PROVE  LET k == CacheKey(e.response.req)
                        IN /\ table[k] \in Lists /\ e \in heap'[table[k]]
                           /\ \A u \in Threads : pc'[u] = "writeback" /\ key(u)' = k =>
                                e \in heap'[list'[u]]
      BY <1>2 DEF Settled, history
    <2> DEFINE k == CacheKey(e.response.req)
    <2>1. k \in Keys
      BY EntryKey DEF IInv, TypeOK
    <2>2. table[k] \in Lists /\ e \in heap[table[k]]
      BY DEF QuietInv, Settled
    <2>3. e \in heap'[table[k]]
      BY <1>2, <1>3, <2>1, <2>2 DEF IInv, TypeOK
    <2>4. ASSUME NEW u \in Threads, pc'[u] = "writeback", key(u)' = k
          PROVE  e \in heap'[list'[u]]
      <3>1. key(u) = k
        BY <1>2, <2>4 DEF key
      <3>2. CASE u = t
        BY <1>1, <1>2, <1>5, <3>1, <3>2 DEF IInv, TypeOK
      <3>3. CASE u # t
        <4>1. pc[u] = "writeback" /\ list'[u] = list[u]
          BY <1>2, <2>4, <3>3 DEF IInv, TypeOK
        <4>2. e \in heap[list[u]] /\ list[u] \in Lists
          BY <3>1, <4>1 DEF QuietInv, Settled, IInv, Control
        <4> QED
          BY <1>2, <1>3, <4>1, <4>2 DEF IInv, TypeOK
      <3> QED
        BY <3>2, <3>3
    <2> QED
      BY <2>2, <2>3, <2>4
  <1> QED
    BY <1>6, <1>7 DEF QuietInv

LEMMA WriteBackQuiet ==
  ASSUME IInv, QuietInv, NEW t \in Threads, WriteBack(t)
  PROVE  QuietInv'
  <1> DEFINE k == key(t)
  <1>1. /\ table' = [table EXCEPT ![k] = list[t]]
        /\ pc[t] = "writeback" /\ pc' = [pc EXCEPT ![t] = "scan"]
        /\ clash' = [u \in Threads |-> clash[u] \/ u \in appending(t)]
        /\ UNCHANGED <<now, begun, local, stored, quiet>>
        /\ Collect
    BY DEF WriteBack, Goto
  <1>2. k \in Keys /\ list[t] \in Lists
    BY <1>1, KeyInKeys DEF IInv, Control, Running, key
  <1>3. \A j \in Keys : table'[j] = IF j = k THEN list[t] ELSE table[j]
    BY <1>1 DEF IInv, TypeOK
  <1>4. /\ \A j \in Keys : table'[j] \in Lists => heap'[table'[j]] = heap[table'[j]]
        /\ \A u \in Threads : list[u] \in Lists => heap'[list[u]] = heap[list[u]]
    BY <1>1, CollectKeeps DEF local
  <1>5. Undisturbed'
    <2> SUFFICES ASSUME NEW u \in Threads, pc'[u] \in {"stamp", "append"}, ~clash'[u]
                 PROVE  list[u] = table'[key(u)]
      BY <1>1 DEF Undisturbed, local, key
    <2>1. pc[u] \in {"stamp", "append"} /\ ~clash[u] /\ key(u) # k
      BY <1>1 DEF appending, IInv, TypeOK
    <2>2. key(u) \in Keys
      BY <2>1, KeyInKeys DEF IInv, Control, Running, key
    <2> QED
      BY <1>3, <2>1, <2>2 DEF QuietInv, Undisturbed
  <1>6. Settled'
    <2> SUFFICES ASSUME NEW e \in quiet, e.expires > now
                 PROVE  LET j == CacheKey(e.response.req)
                        IN /\ table'[j] \in Lists /\ e \in heap'[table'[j]]
                           /\ \A u \in Threads : pc'[u] = "writeback" /\ key(u) = j =>
                                e \in heap'[list[u]]
      BY <1>1 DEF Settled, local, key
    <2> DEFINE j == CacheKey(e.response.req)
    <2>1. j \in Keys
      BY EntryKey DEF IInv, TypeOK
    <2>2. /\ table[j] \in Lists /\ e \in heap[table[j]]
          /\ \A u \in Threads : pc[u] = "writeback" /\ key(u) = j => e \in heap[list[u]]
      BY DEF QuietInv, Settled
    <2>3. table'[j] \in Lists /\ e \in heap'[table'[j]]
      BY <1>1, <1>2, <1>3, <1>4, <2>1, <2>2
    <2>4. ASSUME NEW u \in Threads, pc'[u] = "writeback", key(u) = j
          PROVE  e \in heap'[list[u]]
      <3>1. pc[u] = "writeback"
        BY <1>1, <2>4 DEF IInv, TypeOK
      <3> QED
        BY <1>4, <2>2, <2>4, <3>1 DEF IInv, Control
    <2> QED
      BY <2>3, <2>4
  <1> QED
    BY <1>5, <1>6 DEF QuietInv

LEMMA SetDefaultQuiet ==
  ASSUME IInv, QuietInv, NEW t \in Threads, SetDefault(t)
  PROVE  QuietInv'
  <1>1. /\ pc[t] = "set" /\ pc' = [pc EXCEPT ![t] = "stamp"]
        /\ list' = [list EXCEPT ![t] = table[key(t)]]
        /\ clash' = [clash EXCEPT ![t] = FALSE]
        /\ UNCHANGED <<now, begun, shared, req, clock, resp, reused, new, stored, quiet>>
    BY DEF SetDefault, Goto
  <1>2. Undisturbed'
    BY <1>1 DEF QuietInv, Undisturbed, IInv, TypeOK, shared, key
  <1>3. \A u \in Threads : pc'[u] = "writeback" => pc[u] = "writeback" /\ list'[u] = list[u]
    BY <1>1 DEF IInv, TypeOK
  <1>4. Settled'
    BY <1>1, <1>3 DEF QuietInv, Settled, shared, key
  <1> QED
    BY <1>2, <1>4 DEF QuietInv

LEMMA StampQuiet ==
  ASSUME IInv, QuietInv, NEW t \in Threads, Stamp(t)
  PROVE  QuietInv'
  <1>1. /\ pc[t] = "stamp" /\ pc' = [pc EXCEPT ![t] = "append"]
        /\ UNCHANGED <<now, shared, req, list, history>>
    BY DEF Stamp, Goto
  <1>2. \A u \in Threads : /\ pc'[u] \in {"stamp", "append"} => pc[u] \in {"stamp", "append"}
                           /\ pc'[u] = "writeback" => pc[u] = "writeback"
    BY <1>1 DEF IInv, TypeOK
  <1> QED
    BY <1>1, <1>2 DEF QuietInv, Undisturbed, Settled, shared, history, key

LEMMA AppendQuiet ==
  ASSUME IInv, QuietInv, NEW t \in Threads, Append(t)
  PROVE  QuietInv'
  <1> DEFINE e == new[t]
  <1>1. /\ pc[t] = "append" /\ pc' = [pc EXCEPT ![t] = "done"]
        /\ heap' = [heap EXCEPT ![list[t]] = @ \cup {e}]
        /\ quiet' = IF overlapped(t) THEN quiet ELSE quiet \cup {e}
        /\ UNCHANGED <<now, begun, table, local, clash>>
    BY DEF Append, Goto
  <1>2. /\ req[t] \in Requests /\ list[t] \in Lists
        /\ resp[t] \in AgentAnswers(req[t]) /\ can_cache_response(resp[t])
        /\ \E at \in 0..now : e = NewEntry(resp[t], at)
    BY <1>1 DEF IInv, Control, Dated, EntryOf, Running
  <1>3. EntryFor(e, key(t))
    BY <1>2, NewEntryFacts DEF IInv, TypeOK, key
  <1>4. CacheKey(e.response.req) = key(t) /\ key(t) \in Keys
    BY <1>2, <1>3, KeyInKeys DEF EntryFor, key
  <1> HIDE DEF e
  <1>5. \A l \in Lists : heap'[l] = IF l = list[t] THEN heap[l] \cup {e} ELSE heap[l]
    BY <1>1, <1>2 DEF IInv, TypeOK
  <1>6. Undisturbed'
    BY <1>1 DEF QuietInv, Undisturbed, IInv, TypeOK, local, key
  <1>7. \A u \in Threads : pc'[u] = "writeback" => pc[u] = "writeback" /\ list[u] \in Lists
    BY <1>1 DEF IInv, TypeOK, Control
  <1>8. Settled'
    <2> SUFFICES ASSUME NEW x \in quiet', x.expires > now
                 PROVE  LET k == CacheKey(x.response.req)
                        IN /\ table[k] \in Lists /\ x \in heap'[table[k]]
                           /\ \A u \in Threads : pc'[u] = "writeback" /\ key(u) = k =>
                                x \in heap'[list[u]]
      BY <1>1 DEF Settled, local, key
    <2>1. CASE x \in quiet
      BY <1>5, <1>7, <2>1 DEF QuietInv, Settled
    <2>2. CASE x = e /\ ~overlapped(t)
      <3>1. table[key(t)] = list[t]
        BY <1>1, <2>2 DEF QuietInv, Undisturbed, overlapped
      <3>2. \A u \in Threads : pc[u] = "writeback" => key(u) # key(t)
        BY <2>2 DEF overlapped
      <3> QED
        BY <1>2, <1>4, <1>5, <1>7, <2>2, <3>1, <3>2
    <2> QED
      BY <1>1, <2>1, <2>2
  <1> QED
    BY <1>6, <1>8 DEF QuietInv

\* The other steps of a thread.
LEMMA StepQuiet ==
  ASSUME IInv, QuietInv, NEW t \in Threads, Step(t)
  PROVE  QuietInv'
  <1> USE DEF IInv, TypeOK, Control
  <1>1. CASE ReadClock(t) \/ Answer(t) \/ AgentRaises(t) \/ Reject(t)
    BY <1>1, QuietKept DEF ReadClock, Answer, AgentRaises, Reject, Goto, shared, local, history
  <1>2. CASE Hit(t) \/ Miss(t) \/ Finish(t)
    <2>1. /\ Collect /\ UNCHANGED <<table, quiet, now>>
          /\ \A u \in Threads \ {t} :
               pc'[u] = pc[u] /\ req'[u] = req[u] /\ list'[u] = list[u] /\ clash'[u] = clash[u]
          /\ pc'[t] \notin {"writeback", "stamp", "append"}
      BY <1>2 DEF Hit, Miss, Finish, Goto, history
    <2>2. /\ \A k \in Keys : table[k] \in Lists => heap'[table[k]] = heap[table[k]]
          /\ \A u \in Threads \ {t} : list[u] \in Lists => heap'[list[u]] = heap[list[u]]
      BY <2>1, CollectKeeps
    <2> QED
      BY <2>1, <2>2, QuietKept
  <1> QED
    BY <1>1, <1>2, FilterQuiet, WriteBackQuiet, SetDefaultQuiet, StampQuiet, AppendQuiet DEF Step

\* An answer whose set overlapped no get of its key stays where lookups find it until
\* it expires, whatever other threads look up, store or collect.
THEOREM QuietStoresSurvive == Spec => []QuietStoreSurvives
  <1>1. Init => QuietInv
    BY DEF Init, QuietInv, Undisturbed, Settled
  <1>2. IInv /\ QuietInv /\ [Next]_vars => QuietInv'
    <2> SUFFICES ASSUME IInv, QuietInv, [Next]_vars PROVE QuietInv'
      OBVIOUS
    <2>1. CASE Tick
      BY <2>1, QuietKept DEF Tick, shared, local, history, IInv, TypeOK
    <2>2. ASSUME NEW t \in Threads, Begin(t) PROVE QuietInv'
      BY <2>2, QuietKept DEF Begin, Goto, shared, history, IInv, TypeOK
    <2>3. ASSUME NEW t \in Threads, Step(t) PROVE QuietInv'
      BY <2>3, StepQuiet
    <2>4. CASE Rest \/ UNCHANGED vars
      BY <2>4 DEF Rest, vars, shared, local, history, QuietInv, Undisturbed, Settled, key
    <2> QED
      BY <2>1, <2>2, <2>3, <2>4 DEF Next
  <1>3. QuietInv => QuietStoreSurvives
    BY ThreadAssumption DEF QuietInv, Settled, QuietStoreSurvives, visible
  <1> QED
    BY <1>1, <1>2, <1>3, InductiveInvariant, PTL DEF Spec

-----------------------------------------------------------------------------
(* The threads implement the abstract answer cache.                        *)

\* The policy of the abstract cache is this one.
LEMMA SamePolicy ==
  /\ \A r : Promise!CacheKey(r) = CacheKey(r)
  /\ \A r : Promise!AgentAnswers(r) = AgentAnswers(r)
  /\ \A a : Promise!can_cache_response(a) = can_cache_response(a)
  /\ \A es, at : Promise!live(es, at) = live(es, at)
  /\ \A es, q : Promise!matches(es, q) = matches(es, q)
  /\ \A a, at : Promise!NewEntry(a, at) = NewEntry(a, at)
  /\ Promise!Unread = Unread
  <1>1. \A r : Promise!CacheKey(r) = CacheKey(r)
    BY DEF Promise!CacheKey, CacheKey, Promise!JurisdictionName, JurisdictionName,
           Promise!effective_as_of_date, effective_as_of_date
  <1>2. \A r : Promise!AgentAnswers(r) = AgentAnswers(r)
    BY DEF Promise!AgentAnswers, AgentAnswers, Promise!Answering, Answering
  <1>3. \A a : Promise!can_cache_response(a) = can_cache_response(a)
    BY DEF Promise!can_cache_response, can_cache_response, Promise!classifications,
           classifications
  <1> QED
    BY <1>1, <1>2, <1>3 DEF Promise!live, live, Promise!matches, matches,
       Promise!NewEntry, NewEntry, Promise!Unread, Unread

\* Everything in a list was stored, as lookups reach it or are about to.
ListsHoldStored == \A l \in Lists : heap[l] \subseteq stored

LEMMA StoredStep ==
  ASSUME IInv, ListsHoldStored, [Next]_vars
  PROVE  ListsHoldStored'
  <1> USE DEF ListsHoldStored
  <1>1. ASSUME heap' = heap, stored' = stored PROVE ListsHoldStored'
    BY <1>1
  <1>2. ASSUME Collect, stored' = stored PROVE ListsHoldStored'
    BY <1>2 DEF Collect
  <1>3. ASSUME NEW t \in Threads, Filter(t) PROVE ListsHoldStored'
    <2>1. key(t) \in Keys
      BY <1>3, KeyInKeys DEF Filter, Goto, IInv, Control, Running, key
    <2>2. live(visible(key(t)), clock[t]) \subseteq stored
      BY <2>1 DEF live, visible, IInv, TypeOK
    <2> QED
      BY <1>3, <2>2 DEF Filter, IInv, TypeOK, history
  <1>4. ASSUME NEW t \in Threads, Append(t) PROVE ListsHoldStored'
    BY <1>4 DEF Append, IInv, TypeOK
  <1>5. ASSUME NEW t \in Threads, Step(t) PROVE ListsHoldStored'
    BY <1>1, <1>2, <1>3, <1>4, <1>5 DEF Step, ReadClock, WriteBack, Hit, Miss, Answer,
       AgentRaises, Reject, SetDefault, Stamp, Finish, shared, history
  <1> QED
    BY <1>1, <1>5 DEF Next, Tick, Begin, Rest, vars, shared, history

\* Where a thread is, in the terms of the abstract cache.
PhaseOf(place) ==
  CASE place \in {"idle", "done", "failed"} -> place
    [] place = "clock" -> "asked"
    [] place \in {"filter", "writeback", "scan", "answer"} -> "looking"
    [] place \in {"set", "stamp", "append"} -> "generated"

LEMMA PhaseMoves ==
  ASSUME pc \in [Threads -> PCs], NEW t \in Threads, NEW to \in PCs,
         pc' = [pc EXCEPT ![t] = to]
  PROVE  phase[t] = PhaseOf(pc[t]) /\ phase' = [phase EXCEPT ![t] = PhaseOf(to)]
  <1>1. phase = [u \in Threads |-> PhaseOf(pc[u])]
    BY DEF phase, PhaseOf
  <1>2. phase' = [u \in Threads |-> PhaseOf(pc'[u])]
    BY DEF phase, PhaseOf
  <1> QED
    BY <1>1, <1>2

\* A step of a thread is a step of the abstract cache, or one that it does not see.
LEMMA StepImplements ==
  ASSUME IInv, ListsHoldStored, NEW t \in Threads, Step(t)
  PROVE  [Promise!Next]_Promise!vars
  <1> USE DEF Goto, history, local, shared
  <1>0. pc \in [Threads -> PCs] /\ now \in Nat
    BY DEF IInv, TypeOK
  <1>1. CASE ReadClock(t)
    <2>1. phase[t] = "asked" /\ phase' = [phase EXCEPT ![t] = "looking"]
      BY <1>0, <1>1, PhaseMoves DEF ReadClock, PCs, PhaseOf
    <2> QED
      BY <1>1, <2>1 DEF ReadClock, Promise!Next, Promise!ReadClock
  <1>2. CASE Filter(t) \/ WriteBack(t) \/ Miss(t)
    <2>1. phase[t] = "looking" /\ phase' = [phase EXCEPT ![t] = "looking"]
      BY <1>0, <1>2, PhaseMoves DEF Filter, WriteBack, Miss, PCs, PhaseOf
    <2>2. phase' = phase
      BY <2>1 DEF phase
    <2> QED
      BY <1>2, <2>2 DEF Filter, WriteBack, Miss, Promise!vars
  <1>3. CASE Hit(t)
    <2>1. phase[t] = "looking" /\ phase' = [phase EXCEPT ![t] = "done"]
      BY <1>0, <1>3, PhaseMoves DEF Hit, PCs, PhaseOf
    <2>2. pc[t] = "scan" /\ req[t] \in Requests /\ list[t] \in Lists /\ Running(t)
      BY <1>3 DEF Hit, IInv, Control, Running
    <2>3. \A e \in heap[list[t]] : e \in stored /\ e.expires > clock[t] /\ CacheKey(e.response.req) = key(t)
      BY <2>2 DEF ListsHoldStored, IInv, Filed, EntryFor
    <2>4. matches(heap[list[t]], req[t].query) \subseteq matches(live(stored, clock[t]), req[t].query)
      BY <2>3 DEF matches, live
    <2>5. \A e \in matches(heap[list[t]], req[t].query) : CacheKey(e.response.req) = CacheKey(req[t])
      BY <2>3 DEF matches, key
    <2> QED
      BY <1>3, <2>1, <2>4, <2>5, SamePolicy DEF Hit, Promise!Next, Promise!Reuse
  <1>4. CASE Answer(t)
    <2>1. phase[t] = "looking" /\ phase' = [phase EXCEPT ![t] = "generated"]
      BY <1>0, <1>4, PhaseMoves DEF Answer, PCs, PhaseOf
    <2> QED
      BY <1>4, <2>1, SamePolicy DEF Answer, Promise!Next, Promise!Generate
  <1>5. CASE AgentRaises(t)
    <2>1. phase[t] = "looking" /\ phase' = [phase EXCEPT ![t] = "failed"]
      BY <1>0, <1>5, PhaseMoves DEF AgentRaises, PCs, PhaseOf
    <2>2. resp' = [resp EXCEPT ![t] = NoResponse]
      BY <1>5 DEF AgentRaises, IInv, TypeOK, Control
    <2> QED
      BY <1>5, <2>1, <2>2 DEF AgentRaises, Promise!Next, Promise!Fail
  <1>6. CASE Reject(t)
    <2>1. phase[t] = "generated" /\ phase' = [phase EXCEPT ![t] = "done"]
      BY <1>0, <1>6, PhaseMoves DEF Reject, PCs, PhaseOf
    <2> QED
      BY <1>6, <2>1, SamePolicy DEF Reject, Promise!Next, Promise!Reject
  <1>7. CASE SetDefault(t) \/ Stamp(t)
    <2>1. phase[t] = "generated" /\ phase' = [phase EXCEPT ![t] = "generated"]
      BY <1>0, <1>7, PhaseMoves DEF SetDefault, Stamp, PCs, PhaseOf
    <2>2. phase' = phase
      BY <2>1 DEF phase
    <2> QED
      BY <1>7, <2>2 DEF SetDefault, Stamp, Promise!vars
  <1>8. CASE Append(t)
    <2>1. phase[t] = "generated" /\ phase' = [phase EXCEPT ![t] = "done"]
      BY <1>0, <1>8, PhaseMoves DEF Append, PCs, PhaseOf
    <2>2. can_cache_response(resp[t])
      BY <1>8 DEF Append, IInv, Control
    <2>3. PICK at \in 0..now : new[t] = NewEntry(resp[t], at)
      BY <1>8 DEF Append, IInv, Dated, EntryOf
    <2>4. stored' = stored \cup {NewEntry(resp[t], at)}
      BY <1>8, <2>3 DEF Append
    <2> QED
      BY <1>8, <2>1, <2>2, <2>3, <2>4, SamePolicy DEF Append, Promise!Next, Promise!Store
  <1>9. CASE Finish(t)
    <2>1. phase[t] \in {"done", "failed"} /\ phase' = [phase EXCEPT ![t] = "idle"]
      BY <1>0, <1>9, PhaseMoves DEF Finish, PCs, PhaseOf
    <2> QED
      BY <1>9, <2>1, SamePolicy DEF Finish, Promise!Next, Promise!Finish
  <1> QED
    BY <1>1, <1>2, <1>3, <1>4, <1>5, <1>6, <1>7, <1>8, <1>9 DEF Step

\* Every behaviour of the threads is one of the abstract cache: what a request reuses was
\* stored under its key, for a similar query, and was fresh when it read the clock.
THEOREM ThreadsImplementAnswerCache == Spec => ImplementsAnswerCache
  <1>1. Init => Promise!Init
    BY SamePolicy DEF Init, Promise!Init, phase
  <1>2. Init => ListsHoldStored
    BY DEF Init, ListsHoldStored
  <1>3. IInv /\ ListsHoldStored /\ [Next]_vars => [Promise!Next]_Promise!vars
    <2> SUFFICES ASSUME IInv, ListsHoldStored, [Next]_vars
                 PROVE  [Promise!Next]_Promise!vars
      OBVIOUS
    <2> USE DEF history, local, shared
    <2>1. CASE Tick
      <3>1. phase' = phase
        BY <2>1 DEF Tick, phase
      <3> QED
        BY <2>1, <3>1 DEF Tick, Promise!Next, Promise!Tick
    <2>2. ASSUME NEW t \in Threads, Begin(t) PROVE [Promise!Next]_Promise!vars
      <3>1. phase[t] = "idle" /\ phase' = [phase EXCEPT ![t] = "asked"]
        BY <2>2, PhaseMoves DEF Begin, Goto, PCs, PhaseOf, IInv, TypeOK
      <3> QED
        BY <2>2, <3>1 DEF Begin, Promise!Next, Promise!Ask
    <2>3. ASSUME NEW t \in Threads, Step(t) PROVE [Promise!Next]_Promise!vars
      BY <2>3, StepImplements
    <2>4. CASE Rest \/ UNCHANGED vars
      <3>1. UNCHANGED vars
        BY <2>4 DEF Rest
      <3>2. phase' = phase
        BY <3>1 DEF vars, phase
      <3> QED
        BY <3>1, <3>2 DEF vars, Promise!vars
    <2> QED
      BY <2>1, <2>2, <2>3, <2>4 DEF Next
  <1>4. IInv /\ ListsHoldStored /\ [Next]_vars => ListsHoldStored'
    BY StoredStep
  <1> QED
    BY <1>1, <1>2, <1>3, <1>4, InductiveInvariant, PTL DEF Spec, ImplementsAnswerCache, Promise!Spec
=============================================================================
