---------------------------- MODULE MCToolCalls ----------------------------
(* The two halves of a step's tool calls for TLC, one at a time: the       *)
(* scheduler of the batch, and what dispatched calls go through, once for  *)
(* two calls, once for one call that asks twice while the user changes the *)
(* policy, and once more with a wrapper that retries it.  The halves meet  *)
(* only where the scheduler awaits a call, so `half` picks in Init which   *)
(* of them the behaviour is about.                                         *)
EXTENDS ToolScheduler

CONSTANTS call1, call2

VARIABLES half,
          events, stage, waiting, prompts, result, attempt, ran, stored, timedOut, signal, switches

executed == <<events, stage, waiting, prompts, result, attempt, ran, stored, timedOut, signal,
              switches>>

Pair == INSTANCE ToolExecution WITH
  Calls <- {call1, call2}, MaxAttempts <- 1, MaxAsks <- 1, MaxSwitches <- 0,
  log <- events, aborted <- signal
Single == INSTANCE ToolExecution WITH
  Calls <- {call1}, MaxAttempts <- 1, MaxAsks <- 2, MaxSwitches <- 1,
  log <- events, aborted <- signal
Retried == INSTANCE ToolExecution WITH
  Calls <- {call1}, MaxAttempts <- 2, MaxAsks <- 2, MaxSwitches <- 1,
  log <- events, aborted <- signal

MCInit == /\ Init
          /\ \/ half \in {"scheduler", "single", "retried"} /\ Single!Init
             \/ half = "pair" /\ Pair!Init
          /\ half # "scheduler" => mode = [i \in Calls |-> "exclusive"]
MCNext == /\ UNCHANGED half
          /\ \/ half = "scheduler" /\ Next /\ UNCHANGED executed
             \/ half = "pair" /\ Pair!Next /\ UNCHANGED vars
             \/ half = "single" /\ Single!Next /\ UNCHANGED vars
             \/ half = "retried" /\ Retried!Next /\ UNCHANGED vars

(* What is not looked at owes nothing. *)
MCSpec ==
  /\ MCInit /\ [][MCNext]_<<half, vars, executed>>
  /\ WF_vars(half = "scheduler" /\ Scheduler)
  /\ \A i \in Calls : WF_vars(half = "scheduler" /\ Tool(i))
  /\ WF_executed(half = "pair" /\ Pair!Ends(call1))
  /\ WF_executed(half = "pair" /\ Pair!Ends(call2))
  /\ WF_executed(half = "single" /\ Single!Ends(call1))
  /\ WF_executed(half = "retried" /\ Retried!Ends(call1))

(* Every batch of the scheduler ends (BatchEnds), and an abort ends every  *)
(* call that is executed (AbortEnds), each in the behaviours it is about.  *)
CallsEnd == /\ half = "scheduler" => BatchEnds
            /\ Pair!AbortEnds

(* Who may run a tool: stated in ToolExecution, for each of its instances. *)
ApprovalIsSound ==
  /\ half = "pair" => Pair!ApprovalIsSound
  /\ half = "single" => Single!ApprovalIsSound
  /\ half = "retried" => Retried!ApprovalIsSound

(* What is said of a body's effects, in the instances without a retry.     *)
EffectsAreHonest ==
  /\ half = "pair" => Pair!EffectsAreHonest
  /\ half = "single" => Single!EffectsAreHonest

(* KeepsOutcome of ToolExecution, stated and explained there. *)
OutcomeIsKept ==
  [][/\ half = "pair" => Pair!KeepsOutcome
     /\ half = "single" => Single!KeepsOutcome
     /\ half = "retried" => Retried!KeepsOutcome]_executed
=============================================================================
