------------------------------ MODULE MCReload -----------------------------
(* What reads a stored session back, for TLC: ColdPreparation, once with a *)
(* preparation whose owner keeps writing and once with two readers that    *)
(* share one while another process writes, and CrashRecovery, which models *)
(* what the repaired log says, once with two calls and two crashes and     *)
(* once with two messages.                                                 *)
EXTENDS ColdPreparation, TLC

CONSTANTS Message, Steer, ToolCalls

VARIABLES instance,
          log, durable, at, step, ends, batch, mark, calls, status, aborted, ran, sent, rewritten,
          dropped, crashes

recovery == <<log, durable, at, step, ends, batch, mark, calls, status, aborted, ran, sent,
              rewritten, dropped, crashes>>

Effects == INSTANCE CrashRecovery WITH
  Messages <- {Message}, Steering <- {}, Calls <- ToolCalls,
  MaxTurns <- 2, MaxSteps <- 2, MaxCrashes <- 2, state <- status
Inputs == INSTANCE CrashRecovery WITH
  Messages <- {Message, Steer}, Steering <- {Steer}, Calls <- {},
  MaxTurns <- 2, MaxSteps <- 2, MaxCrashes <- 1, state <- status

\* Both slices of ColdPreparation are behaviours of it: nobody else calls.
Silent(cs) == \A c \in cs : call'[c].pc = "idle"
Owner   == Silent(Loaders \cup Inspectors)
Readers == Silent(Preparers) /\ written'.all <= 1

\* An instance that is not looked at stays in one initial state.
MCInit ==
  /\ Effects!Init /\ Init
  /\ instance \in {"owner", "readers", "effects", "inputs"}
  /\ instance # "owner" => stored.damage = "none"

MCNext ==
  /\ UNCHANGED instance
  /\ \/ instance = "owner" /\ Next /\ Owner /\ UNCHANGED recovery
     \/ instance = "readers" /\ Next /\ Readers /\ UNCHANGED recovery
     \/ instance = "effects" /\ Effects!Next /\ UNCHANGED vars
     \/ instance = "inputs" /\ Inputs!Next /\ UNCHANGED vars

MCSpec == MCInit /\ [][MCNext]_<<instance, vars, recovery>>

\* Calls of a step are told apart only by their order in its message.
CallSymmetry == Permutations(ToolCalls)

(* What repair says of a crashed log: the parts are stated in              *)
(* CrashRecovery.                                                          *)
RecoveryIsHonest ==
  /\ Effects!NeverRetryDone /\ Effects!SeenIsKept
  /\ Effects!Balanced /\ Effects!RepairResumes

(* No accepted input is unaccounted for, and the account that is folded in *)
(* one pass is the one the positions give: see CrashRecovery.              *)
InputIsAccounted == Effects!InputIsAccounted /\ Effects!AccountIsReference
=============================================================================
