----------------------------- MODULE DurableLog -----------------------------
(***************************************************************************)
(* What session persistence promises to the rest of the harness            *)
(* (packages/session/session-persistence, README "Invariants every backend *)
(* must honor" and the session/flush contract), without saying how: events *)
(* become durable in the order they were accepted, one at a time and never *)
(* rewritten; a flush that succeeds vouches for every event accepted       *)
(* before the call; and a closed backend is not written.                   *)
(***************************************************************************)
EXTENDS Naturals, Sequences

CONSTANTS
  Flushers,   \* callers of flush
  MaxEvents   \* bound: events accepted in a behaviour

VARIABLES
  log,        \* how many events the session has accepted
  stored,     \* the durable log, as the sequence numbers in it
  asking,     \* asking[f]: "idle", "waiting", "ok" or "rejected"
  due,        \* due[f]: the events accepted when f called flush
  closed

vars == <<log, stored, asking, due, closed>>

Numbers(n) == [i \in 1..n |-> i - 1]

Init ==
  /\ log \in 0..MaxEvents
  /\ \E n \in 0..log : stored = Numbers(n)
  /\ asking = [f \in Flushers |-> "idle"]
  /\ due = [f \in Flushers |-> 0]
  /\ closed = FALSE

Accept ==
  /\ log < MaxEvents
  /\ log' = log + 1
  /\ UNCHANGED <<stored, asking, due, closed>>

Persist ==
  /\ ~closed
  /\ \E n \in (Len(stored) + 1)..log : stored' = Numbers(n)
  /\ UNCHANGED <<log, asking, due, closed>>

Call(f) ==
  /\ asking[f] # "waiting"
  /\ asking' = [asking EXCEPT ![f] = "waiting"]
  /\ due' = [due EXCEPT ![f] = log]
  /\ UNCHANGED <<log, stored, closed>>

(* Callers that joined one barrier are answered together.                  *)
Answer(callers, reply) ==
  /\ callers # {}
  /\ \A f \in callers : asking[f] = "waiting"
  /\ reply = "ok" => \A f \in callers : Len(stored) >= due[f]
  /\ asking' = [f \in Flushers |-> IF f \in callers THEN reply ELSE asking[f]]
  /\ UNCHANGED <<log, stored, due, closed>>

Close ==
  /\ closed' = TRUE
  /\ UNCHANGED <<log, stored, asking, due>>

Next ==
  \/ Accept \/ Persist \/ Close
  \/ \E f \in Flushers : Call(f)
  \/ \E callers \in SUBSET Flushers, reply \in {"ok", "rejected"} : Answer(callers, reply)

Spec == Init /\ [][Next]_vars
=============================================================================
