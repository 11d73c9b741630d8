----------------------------- MODULE ToolBatch -----------------------------
(***************************************************************************)
(* What running the tool calls of one assistant step promises to the       *)
(* session log (packages/core/agent-loop/src/tool-calls.ts, the comment of *)
(* executeToolCalls), without saying which calls overlap: calls and        *)
(* results are recorded in model order, every result after its call; a     *)
(* batch that returns has a result for every call, one that is rejected    *)
(* fabricates none; and either way no tool is left running.                *)
(***************************************************************************)
EXTENDS Naturals, Sequences, FiniteSets

CONSTANT NumCalls

VARIABLES
  log,      \* tool/call and tool/result events of the step
  running,  \* the calls whose tools run
  outcome   \* "open", "returned" or "rejected"

vars == <<log, running, outcome>>

Event(kind, i) == [kind |-> kind, call |-> i]
Recorded(kind) == Cardinality({n \in DOMAIN log : log[n].kind = kind})

Init == log = <<>> /\ running = {} /\ outcome = "open"

Call ==
  /\ outcome = "open" /\ Recorded("call") < NumCalls
  /\ log' = Append(log, Event("call", Recorded("call") + 1))
  /\ UNCHANGED <<running, outcome>>

Run(i) ==
  /\ outcome = "open" /\ i > Recorded("result") /\ i <= Recorded("call")
  /\ running' = running \cup {i}
  /\ UNCHANGED <<log, outcome>>

Settle(i) ==
  /\ running' = running \ {i}
  /\ UNCHANGED <<log, outcome>>

Answer ==
  /\ outcome = "open" /\ Recorded("result") < Recorded("call")
  /\ Recorded("result") + 1 \notin running
  /\ log' = Append(log, Event("result", Recorded("result") + 1))
  /\ UNCHANGED <<running, outcome>>

(* The calls an abort left unstarted get a call and an error result each.  *)
SkipRest ==
  /\ outcome = "open" /\ Recorded("result") = Recorded("call") /\ running = {}
  /\ log' = log \o [k \in 1..(2 * (NumCalls - Recorded("call"))) |->
                      Event(IF k % 2 = 1 THEN "call" ELSE "result",
                            Recorded("call") + (k + 1) \div 2)]
  /\ outcome' = "returned"
  /\ UNCHANGED running

Return ==
  /\ outcome = "open" /\ Recorded("result") = NumCalls /\ running = {}
  /\ outcome' = "returned"
  /\ UNCHANGED <<log, running>>

Reject ==
  /\ outcome = "open" /\ running = {}
  /\ outcome' = "rejected"
  /\ UNCHANGED <<log, running>>

Next ==
  \/ Call \/ Answer \/ SkipRest \/ Return \/ Reject
  \/ \E i \in 1..NumCalls : Run(i) \/ Settle(i)

Spec == Init /\ [][Next]_vars
=============================================================================
