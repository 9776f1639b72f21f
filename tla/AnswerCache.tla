---------------------------- MODULE AnswerCache ----------------------------
(***************************************************************************)
(* What a cached agent promises, whatever backend keeps the answers: each  *)
(* request gets either an answer the agent produced for it, or one stored  *)
(* earlier under the same key, for a similar query, and not yet expired    *)
(* when the request read the clock.  A store may be forgotten at any time  *)
(* (a lookup may miss), but nothing that was never stored is returned.     *)
(***************************************************************************)
EXTENDS CachePolicy

CONSTANTS Clients, NoRequest, NoResponse, NoEntry,
          MaxTime  \* bounds the clock

VARIABLES
  now,     \* the wall clock
  stored,  \* every entry ever stored
  phase,   \* phase[c]: how far client c's request is
  req,     \* req[c]: the request it serves
  clock,   \* clock[c]: the time its lookup uses
  resp,    \* resp[c]: its response
  reused   \* reused[c]: the entry a hit returned

vars == <<now, stored, phase, req, clock, resp, reused>>

Init ==
  /\ now = 0
  /\ stored = {}
  /\ phase = [c \in Clients |-> "idle"]
  /\ req = [c \in Clients |-> NoRequest]
  /\ clock = [c \in Clients |-> Unread]
  /\ resp = [c \in Clients |-> NoResponse]
  /\ reused = [c \in Clients |-> NoEntry]

Tick ==
  /\ now < MaxTime
  /\ now' = now + 1
  /\ UNCHANGED <<stored, phase, req, clock, resp, reused>>

Ask(c) ==
  /\ phase[c] = "idle"
  /\ \E r \in Requests : req' = [req EXCEPT ![c] = r]
  /\ phase' = [phase EXCEPT ![c] = "asked"]
  /\ UNCHANGED <<now, stored, clock, resp, reused>>

\* The lookup reads the clock once, before it reads the entries.
ReadClock(c) ==
  /\ phase[c] = "asked"
  /\ phase' = [phase EXCEPT ![c] = "looking"]
  /\ clock' = [clock EXCEPT ![c] = now]
  /\ UNCHANGED <<now, stored, req, resp, reused>>

Reuse(c) ==
  /\ phase[c] = "looking"
  /\ \E e \in matches(live(stored, clock[c]), req[c].query) :
       /\ CacheKey(e.response.req) = CacheKey(req[c])
       /\ resp' = [resp EXCEPT ![c] = e.response]
       /\ reused' = [reused EXCEPT ![c] = e]
  /\ phase' = [phase EXCEPT ![c] = "done"]
  /\ UNCHANGED <<now, stored, req, clock>>

Generate(c) ==
  /\ phase[c] \in {"asked", "looking"}
  /\ \E a \in AgentAnswers(req[c]) : resp' = [resp EXCEPT ![c] = a]
  /\ phase' = [phase EXCEPT ![c] = "generated"]
  /\ UNCHANGED <<now, stored, req, clock, reused>>

Reject(c) ==
  /\ phase[c] = "generated"
  /\ ~can_cache_response(resp[c])
  /\ phase' = [phase EXCEPT ![c] = "done"]
  /\ UNCHANGED <<now, stored, req, clock, resp, reused>>

Store(c) ==
  /\ phase[c] = "generated"
  /\ can_cache_response(resp[c])
  /\ \E at \in 0..now : stored' = stored \cup {NewEntry(resp[c], at)}
  /\ phase' = [phase EXCEPT ![c] = "done"]
  /\ UNCHANGED <<now, req, clock, resp, reused>>

\* The agent, or a remote backend at any call, may fail; the request then has no
\* response, even when the answer it had generated was stored.
Fail(c) ==
  /\ phase[c] \in {"asked", "looking", "generated"}
  /\ \/ UNCHANGED stored
     \/ /\ phase[c] = "generated"
        /\ can_cache_response(resp[c])
        /\ \E at \in 0..now : stored' = stored \cup {NewEntry(resp[c], at)}
  /\ phase' = [phase EXCEPT ![c] = "failed"]
  /\ resp' = [resp EXCEPT ![c] = NoResponse]
  /\ UNCHANGED <<now, req, clock, reused>>

Finish(c) ==
  /\ phase[c] \in {"done", "failed"}
  /\ phase' = [phase EXCEPT ![c] = "idle"]
  /\ req' = [req EXCEPT ![c] = NoRequest]
  /\ clock' = [clock EXCEPT ![c] = Unread]
  /\ resp' = [resp EXCEPT ![c] = NoResponse]
  /\ reused' = [reused EXCEPT ![c] = NoEntry]
  /\ UNCHANGED <<now, stored>>

Next ==
  \/ Tick
  \/ \E c \in Clients :
       \/ Ask(c) \/ ReadClock(c) \/ Reuse(c) \/ Generate(c)
       \/ Reject(c) \/ Store(c) \/ Fail(c) \/ Finish(c)

Spec == Init /\ [][Next]_vars
=============================================================================
