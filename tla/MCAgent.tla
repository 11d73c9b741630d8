------------------------------- MODULE MCAgent -----------------------------
(* One agent's prompts for TLC, one part at a time: the driver that turns  *)
(* its inbox into turns, and the two plugins that put follow-ups into that *)
(* inbox, the goal driver's rounds and scheduled reminders, these once     *)
(* through failures and crashes and once without either, where every       *)
(* reminder is owed.                                                       *)
EXTENDS AgentDriver

CONSTANTS MaxChanges, MaxPrompts, MaxCancels, MaxRounds, Runs, OuterAwaits,
          Rules, Horizon, MaxCalls, MaxTurns, MaxFails, MaxLives, MaxBack

\* A one-shot at an instant and a repeating record: both in one log,
\* deleted, due together, batched and out of order.
ShotAndRepeating ==
  {[delay |-> 0, at |-> 2, every |-> 0], [delay |-> 1, at |-> 0, every |-> 1]}

VARIABLES part,
          goal, armed, folds, queue, turn, claimed, aborted, latched, attempt, competing,
          needsCheckpoint, asked, loop, loops, frames, used, authority,
          log, durable, now, timer, chain, stage, mark, reminding, due, stopping, faulted, waits,
          doing, told, made

rounds == <<goal, armed, folds, queue, turn, claimed, aborted, latched, attempt, competing,
            needsCheckpoint, asked, loop, loops, frames, used, authority>>
reminders == <<log, durable, now, timer, chain, stage, mark, reminding, due, stopping, faulted,
               waits, doing, told, made>>

Goals == INSTANCE GoalRounds WITH
  batch <- claimed, requested <- asked, run <- loop, runs <- loops, spent <- used
Reminders == INSTANCE Schedule WITH
  run <- reminding, requested <- due, phase <- doing, spent <- made

\* Nothing fails, and the agent does not crash.
Quiet == made'.fails = 0 /\ made'.lives = 1

MCInit == /\ part \in {"driver", "goal", "schedule", "undisturbed"}
          /\ Init /\ Goals!Init /\ Reminders!Init
\* Follow-ups may stop: they stutter, and TLC checks that the driver does not.
MCNext == /\ UNCHANGED part
          /\ \/ part = "driver" /\ Next /\ UNCHANGED <<rounds, reminders>>
             \/ part = "goal" /\ Goals!Next /\ UNCHANGED <<vars, reminders>>
             \/ part = "schedule" /\ Reminders!Next /\ UNCHANGED <<vars, rounds>>
             \/ part = "undisturbed" /\ Reminders!Next /\ Quiet /\ UNCHANGED <<vars, rounds>>
             \/ part # "driver" /\ UNCHANGED <<vars, rounds, reminders>>

\* What is not looked at owes nothing.
MCSpec ==
  /\ MCInit /\ [][MCNext]_<<part, vars, rounds, reminders>>
  /\ WF_vars(part = "driver" /\ Frames) /\ WF_vars(part = "driver" /\ Driver)
  /\ WF_vars(part = "driver" /\ SettleMaintenance)
  /\ WF_vars(part = "driver" /\ WaiterLoops) /\ WF_vars(part = "driver" /\ WaiterReturns)
  /\ WF_rounds(part = "goal" /\ Goals!Sync)
  /\ \A r \in Runs : /\ WF_rounds(part = "goal" /\ Goals!LoopAgain(r))
                     /\ WF_rounds(part = "goal" /\ Goals!Flushed(r))
                     /\ WF_rounds(part = "goal" /\ Goals!Retire(r))
  /\ WF_reminders(part = "undisturbed" /\ Reminders!Progress /\ Quiet)
  /\ WF_reminders(part = "undisturbed" /\ Reminders!Tick /\ Quiet)
  /\ WF_reminders(part = "undisturbed" /\ Reminders!TimerFires /\ Quiet)

(* What both logs keep, the schedule's through failures and crashes: the   *)
(* parts are stated in GoalRounds and Schedule.                            *)
FollowUpsAreSound ==
  /\ Goals!TypeOK /\ Reminders!TypeOK
  /\ Reminders!FoldsClean /\ Reminders!RemindedFirst
  /\ Reminders!RemindedOnce /\ Reminders!ConfirmedIsStored

(* DecidesFromStored of Schedule, which every step keeps. *)
StepsDecideFromStored == [][Reminders!DecidesFromStored]_reminders

(* CancelStops of GoalRounds, stated and explained there. *)
CancelStops == Goals!CancelStops

(* A running goal gets its next round (Continues of GoalRounds), and an    *)
(* overdue reminder is served (OverdueIsServed of Schedule).               *)
FollowUpsCome == Goals!Continues /\ (part = "undisturbed" => Reminders!OverdueIsServed)
=============================================================================
