---------------------------- MODULE AgentDriver ----------------------------
(***************************************************************************)
(* One agent's driver: the inbox (packages/core/agent/src/inbox.ts) and    *)
(* the phase machine that turns its messages into turns and steps          *)
(* (packages/core/agent-loop/src/agent.ts).                                *)
(*                                                                         *)
(* JavaScript runs one callback at a time, so an action here is the code   *)
(* between two points where other code can run.  There are two kinds:      *)
(*                                                                         *)
(*  - an await of the driver, named by pc.  Anything may happen before the *)
(*    driver resumes;                                                      *)
(*  - a synchronous event emission (agent/status, agent/inbox/inserted,    *)
(*    agent/inbox/discarded) in the middle of an operation.  Its listeners *)
(*    may call back into the agent, and the rest of the operation runs     *)
(*    when they return.  What remains to run is a frame on "stack"; while  *)
(*    the stack is not empty no awaiting code resumes.                     *)
(***************************************************************************)
EXTENDS Naturals, Sequences, SequencesExt

CONSTANTS
  Messages,   \* identities of the messages clients may submit, each once
  Causes,     \* AgentCancelCause kinds
  MaxSteps,   \* bound: a model that still wants tools at this step stops
  MaxDepth    \* bound: operations in progress at once through listeners

ASSUME CausesAssumption == "disposed" \in Causes /\ "none" \notin Causes
ASSUME BoundsAssumption == MaxSteps \in Nat \ {0} /\ MaxDepth \in Nat \ {0}

VARIABLES
  phase,      \* "idle", "maintenance" or "running"
  abort,      \* reason of the phase's abort signal, "none" while not aborted
  latch,      \* phase.wakeRequested
  phaseTurn,  \* phase.lastTurn when idle or in maintenance, phase.turn running
  stepNo,     \* phase.step
  nextTurn,   \* inbox list next-turn
  nextStep,   \* inbox list next-step
  pc,         \* where the driver awaits, "off" when there is no driver
  batch,      \* messages the driver has claimed and not yet put in a step
  turnEnds,   \* the local turnEnds of turn(), "null" until a step ends the turn
  stack,      \* frames: the rest of the operations that are emitting an event
  unsent,     \* messages no client has submitted yet
  logTurn,    \* session log: number of the last turn/start
  openTurn,   \* session log: the last turn/start has no turn/end
  openStep,   \* session log: a step/start of that turn has no step/end
  lastEnd,    \* session log: reason of the last turn/end
  refused,    \* history: closing events of that turn the session refused to log
  activity,   \* is the promise in activityDone settled?
  waiter,     \* one caller of whenIdle(): which promise does it await?
  owed,       \* history: pending messages that an effective wake promised to run
  disposing   \* history: a disposed cancel hit the activity now unwinding

inboxVars == <<nextTurn, nextStep, unsent>>
phaseVars == <<phase, abort, latch, phaseTurn, stepNo>>
turnVars  == <<pc, batch, turnEnds>>
logVars   == <<logTurn, openTurn, openStep, lastEnd, refused>>
idleVars  == <<activity, waiter>>
vars == <<phase, abort, latch, phaseTurn, stepNo, nextTurn, nextStep, pc, batch,
          turnEnds, stack, unsent, logTurn, openTurn, openStep, lastEnd, refused,
          activity, waiter, owed, disposing>>

EndReasons == {"completed", "max-tokens", "blocked", "aborted", "error"}
Closings   == {"step/end", "turn/end"}
InTurn     == {"assembling", "preStep", "stepping", "stopping", "errored"}
PCs        == InTurn \cup {"off", "gapLoop", "gapExit"}

(* The rest of an operation that is emitting an event: send() before its   *)
(* wakeDriver, cancel() before it clears next-turn or before it aborts,    *)
(* wakeDriver before kick(), and kick() before it replays a latched wake.  *)
Frame == [op : {"wake", "clearTurn", "abort", "kick", "replay"},
          flag : BOOLEAN, cause : Causes \cup {"none"}]

WakeFrame(after)    == [op |-> "wake", flag |-> after, cause |-> "none"]
ClearFrame(cause)   == [op |-> "clearTurn", flag |-> FALSE, cause |-> cause]
AbortFrame(cause)   == [op |-> "abort", flag |-> FALSE, cause |-> cause]
KickFrame           == [op |-> "kick", flag |-> FALSE, cause |-> "none"]
ReplayFrame(wanted) == [op |-> "replay", flag |-> wanted, cause |-> "none"]

Top == stack[Len(stack)]
Below == SubSeq(stack, 1, Len(stack) - 1)
TopIs(op) == stack # <<>> /\ Top.op = op
Resumable(at) == stack = <<>> /\ pc = at

Pending == ToSet(nextTurn) \cup ToSet(nextStep)
hasPending == nextTurn # <<>> \/ nextStep # <<>>

(* A driver that is not cancelled and has not yet made its last check of   *)
(* the inbox still claims whatever is queued.                              *)
LiveDriver == phase = "running" /\ abort = "none" /\ pc # "gapExit"

Init ==
  /\ phase = "idle" /\ abort = "none" /\ latch = FALSE
  /\ phaseTurn = 0 /\ stepNo = 0
  /\ nextTurn = <<>> /\ nextStep = <<>> /\ unsent = Messages
  /\ pc = "off" /\ batch = {} /\ turnEnds = "null" /\ stack = <<>>
  /\ logTurn = 0 /\ openTurn = FALSE /\ openStep = FALSE /\ lastEnd = "none"
  /\ refused = {} /\ activity = "settled" /\ waiter = "none"
  /\ owed = {} /\ disposing = FALSE

---------------------------------------------------------------------------
(* Waking the driver.                                                      *)

(* Wrong: whenIdle callers of the old activity are not told of the new one.*)
StartUnseenActivity == UNCHANGED <<activity, waiter>>

(* A new activity replaces activityDone; whoever awaits the old promise    *)
(* finds it replaced when it settles.                                      *)
StartActivity ==
  /\ activity' = "open"
  /\ waiter' = IF waiter = "current" THEN "stale" ELSE waiter

(* Reserve the phase and emit agent/status running, with kick() to run     *)
(* when the listeners return.                                              *)
ReserveDriver(rest) ==
  /\ phase' = "running" /\ abort' = "none" /\ latch' = FALSE /\ stepNo' = 0
  /\ stack' = Append(rest, KickFrame)
  /\ owed' = Pending
  /\ StartActivity
  /\ UNCHANGED phaseTurn

(* Wrong: the wake sent to an aborted driver is forgotten.                 *)
MustLatchMaintenanceOnly(after) == abort # "disposed" /\ phase = "maintenance"

(* Wrong: every wake on an active agent is latched.                        *)
MustLatchAlways(after) == abort # "disposed"

MustLatch(after) == abort # "disposed" /\ (phase = "maintenance" \/ after)

(* The contract of a wake: it starts a turn for what is pending, unless    *)
(* the activity it reaches is being disposed, or is aborted and the wake   *)
(* belongs to the work that was parked with it.                            *)
Promised(after) ==
  LiveDriver \/ latch \/ (abort # "disposed" /\ (phase = "maintenance" \/ after))

(* A wake on an active agent: maintenance and aborted drivers latch it for *)
(* their own end, a live driver is left to claim the message itself.       *)
LatchWake(after, rest) ==
  /\ latch' = (latch \/ MustLatch(after))
  /\ stack' = rest
  /\ owed' = IF Promised(after) THEN Pending ELSE owed
  /\ UNCHANGED <<phase, abort, phaseTurn, stepNo, idleVars>>

(* Wrong: a driver is reserved without looking at the phase.               *)
WakeDriverAnyPhase(after, rest) == ReserveDriver(rest)

WakeDriver(after, rest) ==
  \/ phase = "idle" /\ ReserveDriver(rest)
  \/ phase # "idle" /\ LatchWake(after, rest)

RunWake ==
  /\ TopIs("wake")
  /\ WakeDriver(Top.flag, Below)
  /\ UNCHANGED <<inboxVars, turnVars, logVars, disposing>>

---------------------------------------------------------------------------
(* Operations any client or listener may call.                             *)

wakingAfterAbort(wakeup) == wakeup /\ phase # "idle" /\ abort # "none"

InsertLast(m, target) ==
  /\ nextTurn' = IF target = "next-turn" THEN Append(nextTurn, m) ELSE nextTurn
  /\ nextStep' = IF target = "next-step" THEN Append(nextStep, m) ELSE nextStep
  /\ unsent' = unsent \ {m}

(* followup() and steer(): insert, emit agent/inbox/inserted, then wake.   *)
SendWaking(m, target) ==
  /\ m \in unsent /\ Len(stack) < MaxDepth
  /\ InsertLast(m, IF wakingAfterAbort(TRUE) THEN "next-turn" ELSE target)
  /\ stack' = Append(stack, WakeFrame(wakingAfterAbort(TRUE)))
  /\ UNCHANGED <<phaseVars, turnVars, logVars, idleVars, owed, disposing>>

(* inject() and the tool contexts of a step: insert without a wake.        *)
SendQuiet(m, target) ==
  /\ m \in unsent
  /\ InsertLast(m, target)
  /\ UNCHANGED <<phaseVars, turnVars, logVars, idleVars, stack, owed, disposing>>

(* inbox.prepend('next-step', m): context plugins put input first.         *)
PrependStep(m) ==
  /\ m \in unsent
  /\ nextStep' = <<m>> \o nextStep
  /\ unsent' = unsent \ {m}
  /\ UNCHANGED <<phaseVars, turnVars, logVars, idleVars, nextTurn, stack, owed, disposing>>

(* inbox.remove(id).                                                       *)
RemoveMessage(m) ==
  /\ \/ \E i \in DOMAIN nextTurn :
          nextTurn[i] = m /\ nextTurn' = RemoveAt(nextTurn, i) /\ UNCHANGED nextStep
     \/ \E i \in DOMAIN nextStep :
          nextStep[i] = m /\ nextStep' = RemoveAt(nextStep, i) /\ UNCHANGED nextTurn
  /\ owed' = owed \ {m}
  /\ UNCHANGED <<phaseVars, turnVars, logVars, idleVars, stack, unsent, disposing>>

(* inbox.replace(id, n): the work stays pending under a new identity.      *)
ReplaceMessage(m, n) ==
  /\ n \in unsent
  /\ \/ \E i \in DOMAIN nextTurn :
          nextTurn[i] = m /\ nextTurn' = [nextTurn EXCEPT ![i] = n] /\ UNCHANGED nextStep
     \/ \E i \in DOMAIN nextStep :
          nextStep[i] = m /\ nextStep' = [nextStep EXCEPT ![i] = n] /\ UNCHANGED nextTurn
  /\ unsent' = unsent \ {n}
  /\ owed' = IF m \in owed THEN (owed \ {m}) \cup {n} ELSE owed
  /\ UNCHANGED <<phaseVars, turnVars, logVars, idleVars, stack, disposing>>

(* AbortController.abort: the first cause wins.  Aborting a live driver    *)
(* parks the work it had not claimed; a maintenance task keeps its latch.  *)
AbortPhase(cause) ==
  /\ abort' = IF phase # "idle" /\ abort = "none" THEN cause ELSE abort

(* The tail of cancel() without keepInbox: drop the latch, then abort.     *)
FinishCancel(cause, rest) ==
  /\ AbortPhase(cause)
  /\ latch' = FALSE
  /\ stack' = rest
  /\ owed' = IF phase = "idle" THEN owed ELSE {}
  /\ disposing' = (disposing \/ (cause = "disposed" /\ phase # "idle"))

(* cancel(cause, { keepInbox: true }).                                     *)
CancelKeep(cause) ==
  /\ cause # "disposed"
  /\ AbortPhase(cause)
  /\ owed' = IF LiveDriver THEN {} ELSE owed
  /\ UNCHANGED <<phase, latch, phaseTurn, stepNo, turnVars, logVars, idleVars,
                 inboxVars, stack, disposing>>

(* inbox.clear() empties next-turn and emits agent/inbox/discarded.        *)
ClearTurnList(cause, rest) ==
  \/ /\ nextTurn # <<>>
     /\ nextTurn' = <<>>
     /\ owed' = owed \ ToSet(nextTurn)
     /\ stack' = Append(rest, AbortFrame(cause))
     /\ UNCHANGED <<abort, latch, disposing>>
  \/ nextTurn = <<>> /\ FinishCancel(cause, rest) /\ UNCHANGED nextTurn

(* cancel(cause): next-step is cleared before next-turn, each clearing     *)
(* that removes something emits, and the abort comes last.                 *)
CancelAll(cause) ==
  /\ \/ /\ nextStep # <<>> /\ Len(stack) < MaxDepth
        /\ nextStep' = <<>>
        /\ owed' = owed \ ToSet(nextStep)
        /\ stack' = Append(stack, ClearFrame(cause))
        /\ UNCHANGED <<nextTurn, abort, latch, disposing>>
     \/ /\ nextStep = <<>> /\ (nextTurn = <<>> \/ Len(stack) < MaxDepth)
        /\ ClearTurnList(cause, stack)
        /\ UNCHANGED nextStep
  /\ UNCHANGED <<phase, phaseTurn, stepNo, unsent, turnVars, logVars, idleVars>>

RunClearTurn ==
  /\ TopIs("clearTurn")
  /\ ClearTurnList(Top.cause, Below)
  /\ UNCHANGED <<phase, phaseTurn, stepNo, nextStep, unsent, turnVars, logVars, idleVars>>

RunAbort ==
  /\ TopIs("abort")
  /\ FinishCancel(Top.cause, Below)
  /\ UNCHANGED <<phase, phaseTurn, stepNo, inboxVars, turnVars, logVars, idleVars>>

(* runMaintenance: only from true idle; public status stays idle, so there *)
(* is no status emission.                                                  *)
BeginMaintenance ==
  /\ phase = "idle"
  /\ phase' = "maintenance" /\ abort' = "none" /\ latch' = FALSE
  /\ StartActivity
  /\ UNCHANGED <<phaseTurn, stepNo, inboxVars, turnVars, logVars, stack, owed, disposing>>

(* Wrong: a cancelled task leaves the phase occupied.                      *)
MaintenanceDoneUnlessCancelled == phase = "maintenance" /\ stack = <<>> /\ abort = "none"

MaintenanceDone == phase = "maintenance" /\ stack = <<>>

(* The task settles: idle, and the latched wake is replayed if its work is *)
(* still pending, all before done.resolve().                               *)
SettleMaintenance ==
  /\ MaintenanceDone
  /\ \/ latch /\ hasPending /\ ReserveDriver(stack)
     \/ /\ ~(latch /\ hasPending)
        /\ phase' = "idle" /\ abort' = "none" /\ latch' = FALSE /\ activity' = "settled"
        /\ UNCHANGED <<phaseTurn, stepNo, stack, waiter, owed>>
  /\ disposing' = (disposing /\ phase' # "idle")
  /\ UNCHANGED <<inboxVars, turnVars, logVars>>

---------------------------------------------------------------------------
(* The turn driver.                                                        *)

(* inbox.claim: all of next-step, and the head of next-turn when the       *)
(* boundary opens a turn.                                                  *)
Claimed(target) ==
  ToSet(nextStep) \cup
    (IF target = "next-turn" /\ nextTurn # <<>> THEN {Head(nextTurn)} ELSE {})

(* Wrong: next-step input is proposed and left in the inbox.               *)
ClaimKeepsSteering(target) ==
  /\ batch' = Claimed(target)
  /\ nextTurn' = IF target = "next-turn" /\ nextTurn # <<>> THEN Tail(nextTurn) ELSE nextTurn
  /\ owed' = owed \ Claimed(target)
  /\ UNCHANGED nextStep

Claim(target) ==
  /\ batch' = Claimed(target)
  /\ nextStep' = <<>>
  /\ nextTurn' = IF target = "next-turn" /\ nextTurn # <<>> THEN Tail(nextTurn) ELSE nextTurn
  /\ owed' = owed \ Claimed(target)

(* A listener may throw while an event is published: append() then refuses *)
(* it and the log does not change (session/src/index.ts).  The closing     *)
(* events a turn that is left now may lose in this way:                    *)
Losses == SUBSET ({"turn/end"} \cup (IF pc = "stepping" THEN {"step/end"} ELSE {}))

(* The step/end of the finally around a step; none is open elsewhere.      *)
LogStepEnd(lost) ==
  /\ refused' = refused \cup lost
  /\ openStep' = (openStep /\ "step/end" \in refused')

(* Wrong: the step left by an exception is not closed.                     *)
LogTurnEndOnly(reason, lost) ==
  /\ refused' = refused \cup lost /\ UNCHANGED <<logTurn, openStep>>
  /\ openTurn' = ("turn/end" \in lost)
  /\ lastEnd' = IF "turn/end" \in lost THEN lastEnd ELSE reason

(* The turn/end event of turn()'s finally; an open step was left on the    *)
(* way out.                                                                *)
LogTurnEnd(reason, lost) ==
  /\ LogStepEnd(lost)
  /\ openTurn' = ("turn/end" \in lost)
  /\ lastEnd' = IF "turn/end" \in lost THEN lastEnd ELSE reason
  /\ UNCHANGED logTurn

(* A driver that leaves by an error keeps only what was latched.           *)
Released == IF latch THEN owed ELSE {}

(* turn/start is logged, and the first batch claimed.  A session/event     *)
(* listener of turn/start may cancel (veto), which ends the turn before it *)
(* claims anything.                                                        *)
OpenTurn(veto, lost) ==
  /\ logTurn' = phaseTurn + 1 /\ phaseTurn' = logTurn'
  /\ turnEnds' = "null"
  /\ \/ /\ veto = "none" /\ lost = {}
        /\ openTurn' = TRUE /\ openStep' = FALSE /\ refused' = {}
        /\ Claim("next-turn")
        /\ pc' = "assembling"
        /\ UNCHANGED <<abort, lastEnd>>
     \/ /\ veto # "none"
        /\ abort' = veto
        /\ openTurn' = ("turn/end" \in lost) /\ openStep' = FALSE /\ refused' = lost
        /\ lastEnd' = IF "turn/end" \in lost THEN lastEnd ELSE "aborted"
        /\ owed' = {}
        /\ pc' = "gapExit"
        /\ UNCHANGED <<batch, nextStep, nextTurn>>

(* The synchronous head of turn(): the driver leaves at once if its        *)
(* reservation was cancelled or the session refuses turn/start (which      *)
(* emits agent/error); else the turn is open.                              *)
BeginTurn(veto, lost, rest) ==
  /\ stack' = rest
  /\ \/ /\ pc' = "gapExit"
        /\ owed' = IF abort = "none" THEN {} ELSE owed
        /\ UNCHANGED <<abort, phaseTurn, batch, turnEnds, nextStep, nextTurn, logVars>>
     \/ abort = "none" /\ OpenTurn(veto, lost)
  /\ UNCHANGED <<phase, latch, stepNo, unsent, idleVars, disposing>>

RunKick(veto, lost) == TopIs("kick") /\ BeginTurn(veto, lost, Below)

ContinueLoop(veto, lost) == Resumable("gapLoop") /\ BeginTurn(veto, lost, stack)

(* signal.throwIfAborted() passes.                                         *)
throwIfAborted == abort = "none"

(* throwIfAborted after an await: the turn ends aborted and the claimed    *)
(* batch, if it has not been put in a step, is lost with it.               *)
AbortTurn(lost) ==
  /\ stack = <<>> /\ pc \in InTurn \ {"errored"}
  /\ abort # "none"
  /\ LogTurnEnd("aborted", lost)
  /\ batch' = {} /\ pc' = "gapExit"
  /\ UNCHANGED <<phaseVars, inboxVars, turnEnds, stack, idleVars, owed, disposing>>

(* An await failed while the turn was live, or the session refused its     *)
(* step/end: agent/error is emitted before the turn ends.                  *)
FailTurn(lost) ==
  /\ stack = <<>> /\ pc \in InTurn \ {"errored"}
  /\ abort = "none"
  /\ pc' = "errored" /\ batch' = {} /\ LogStepEnd(lost \ {"turn/end"})
  /\ UNCHANGED <<phaseVars, inboxVars, turnEnds, logTurn, openTurn, lastEnd,
                 stack, idleVars, owed, disposing>>

CloseFailedTurn(lost) ==
  /\ Resumable("errored")
  /\ LogTurnEnd("error", lost)
  /\ pc' = "gapExit"
  /\ owed' = Released
  /\ UNCHANGED <<phaseVars, inboxVars, batch, turnEnds, stack, idleVars, disposing>>

(* A turn that ends without entering its first step leaves the driver at   *)
(* once: "return false" before the inbox is looked at again.               *)
LeaveEarly(reason, lost) ==
  /\ LogTurnEnd(reason, lost)
  /\ pc' = "gapExit" /\ batch' = {}
  /\ owed' = {}
  /\ UNCHANGED <<phaseVars, inboxVars, turnEnds, stack>>

GoesOn == hasPending

(* A turn that ran to its end: the driver goes on with a fresh abort       *)
(* controller while the inbox holds work.  A session/event listener of     *)
(* turn/end may cancel (late); with work pending the fresh controller      *)
(* makes that cancel ineffective.  A refused turn/end is an error: the     *)
(* driver leaves without a look at the inbox.                              *)
EndTurn(late, lost) ==
  /\ LogTurnEnd(turnEnds, lost)
  /\ batch' = {}
  /\ \/ /\ lost # {}
        /\ pc' = "gapExit"
        /\ owed' = Released
        /\ UNCHANGED <<abort, latch, stepNo>>
     \/ /\ lost = {} /\ ~GoesOn
        /\ pc' = "gapExit"
        /\ abort' = late
        /\ UNCHANGED <<latch, stepNo, owed>>
     \/ /\ lost = {} /\ GoesOn
        /\ pc' = "gapLoop"
        /\ abort' = "none" /\ latch' = FALSE /\ stepNo' = 0
        /\ UNCHANGED owed
  /\ UNCHANGED <<phase, phaseTurn, inboxVars, turnEnds, stack>>

Assembled ==
  /\ Resumable("assembling") /\ throwIfAborted
  /\ pc' = "preStep"
  /\ UNCHANGED <<phaseVars, inboxVars, batch, turnEnds, logVars, stack, idleVars, owed, disposing>>

PreStepRejects(lost) ==
  /\ Resumable("preStep") /\ throwIfAborted
  /\ LeaveEarly("blocked", lost)
  /\ UNCHANGED <<idleVars, disposing>>

EnterStep ==
  /\ openStep' = TRUE /\ stepNo' = stepNo + 1
  /\ batch' = {} /\ pc' = "stepping"
  /\ UNCHANGED <<phase, abort, latch, phaseTurn, inboxVars, turnEnds, logTurn,
                 openTurn, lastEnd, refused, stack, owed>>

(* After the model is done, only input can keep the turn going.            *)
EmptyEndsTurn(empty) == empty /\ turnEnds # "null"

(* The pre-step plugins let the step in with some of the claimed messages  *)
(* (kept) and perhaps context of their own (extra).                        *)
PreStepEnters(kept, extra, late, lost) ==
  /\ Resumable("preStep") /\ throwIfAborted
  /\ LET empty == kept = {} /\ ~extra IN
       \/ EmptyEndsTurn(empty) /\ EndTurn(late, lost)
       \/ empty /\ turnEnds = "null" /\ stepNo = 0 /\ LeaveEarly("completed", lost)
       \/ (~empty \/ (turnEnds = "null" /\ stepNo # 0)) /\ EnterStep
  /\ UNCHANGED <<idleVars, disposing>>

(* The next iteration of the step loop claims steering only.               *)
NextStepBoundary ==
  /\ Claim("next-step")
  /\ pc' = "assembling"
  /\ UNCHANGED <<phaseVars, unsent, stack>>

(* step() returns null (tools ran), completed or max-tokens, which sticks. *)
StepSettles(end) ==
  /\ Resumable("stepping") /\ throwIfAborted
  /\ end = "null" => stepNo < MaxSteps
  /\ turnEnds' = IF turnEnds = "max-tokens" THEN turnEnds ELSE end
  /\ LogStepEnd({})
  /\ \/ /\ turnEnds' # "null" /\ nextStep = <<>>
        /\ pc' = "stopping"
        /\ UNCHANGED <<phaseVars, inboxVars, batch, stack, owed>>
     \/ /\ turnEnds' = "null" \/ nextStep # <<>>
        /\ NextStepBoundary
  /\ UNCHANGED <<logTurn, openTurn, lastEnd, idleVars, disposing>>

(* agent/turn-stopping listeners are done; they may have steered.          *)
Stopped(late, lost) ==
  /\ Resumable("stopping") /\ throwIfAborted
  /\ \/ nextStep = <<>> /\ EndTurn(late, lost)
     \/ nextStep # <<>> /\ NextStepBoundary /\ UNCHANGED <<turnEnds, logVars>>
  /\ UNCHANGED <<idleVars, disposing>>

(* The finally of kick(): commit idle, emit agent/status idle, then replay *)
(* the wake that was latched before the emission.                          *)
ExitDriver ==
  /\ Resumable("gapExit")
  /\ phase' = "idle" /\ abort' = "none" /\ latch' = FALSE /\ stepNo' = 0
  /\ pc' = "off" /\ turnEnds' = "null"
  /\ stack' = <<ReplayFrame(latch)>>
  /\ disposing' = (disposing /\ latch)
  /\ UNCHANGED <<phaseTurn, inboxVars, batch, logVars, idleVars, owed>>

(* Wrong: the promise stays open when the latched wake has nothing to run. *)
ActivityAfterNoReplay == IF phase = "idle" /\ ~Top.flag THEN "settled" ELSE activity

ActivityAfterReplay == IF phase = "idle" THEN "settled" ELSE activity

(* The driver's promise settles afterwards; it is still activityDone only  *)
(* if no listener and no replay started another activity.                  *)
RunReplay ==
  /\ TopIs("replay")
  /\ \/ Top.flag /\ hasPending /\ WakeDriver(FALSE, Below)
     \/ /\ ~(Top.flag /\ hasPending)
        /\ stack' = Below
        /\ activity' = ActivityAfterReplay
        /\ UNCHANGED <<phaseVars, waiter, owed>>
  /\ disposing' = (disposing /\ phase' # "idle")
  /\ UNCHANGED <<inboxVars, turnVars, logVars>>

---------------------------------------------------------------------------
(* whenIdle(): await activityDone until it is the same promise afterwards. *)

AwaitIdle ==
  /\ waiter = "none"
  /\ waiter' = "current"
  /\ UNCHANGED <<phaseVars, inboxVars, turnVars, logVars, stack, activity, owed, disposing>>

WaiterLoops ==
  /\ waiter = "stale" /\ stack = <<>>
  /\ waiter' = "current"
  /\ UNCHANGED <<phaseVars, inboxVars, turnVars, logVars, stack, activity, owed, disposing>>

WaiterReturns ==
  /\ waiter = "current" /\ activity = "settled" /\ stack = <<>>
  /\ waiter' = "returned"
  /\ UNCHANGED <<phaseVars, inboxVars, turnVars, logVars, stack, activity, owed, disposing>>

---------------------------------------------------------------------------
Client ==
  \/ \E m \in Messages, t \in {"next-turn", "next-step"} : SendWaking(m, t) \/ SendQuiet(m, t)
  \/ \E m \in Messages : PrependStep(m) \/ RemoveMessage(m)
  \/ \E m, n \in Messages : ReplaceMessage(m, n)
  \/ \E c \in Causes : CancelKeep(c) \/ CancelAll(c)
  \/ BeginMaintenance
  \/ AwaitIdle

(* The rest of an operation whose emission is over.                        *)
Frames ==
  \/ RunWake \/ RunClearTurn \/ RunAbort \/ RunReplay
  \/ \E c \in Causes \cup {"none"}, lost \in Losses : RunKick(c, lost)

Driver ==
  \/ Assembled
  \/ \E end \in {"null", "completed", "max-tokens"} : StepSettles(end)
  \/ \E lost \in Losses :
       \/ AbortTurn(lost) \/ FailTurn(lost) \/ CloseFailedTurn(lost) \/ PreStepRejects(lost)
       \/ \E kept \in SUBSET batch, extra \in BOOLEAN, c \in Causes \cup {"none"} :
            PreStepEnters(kept, extra, c, lost)
       \/ \E c \in Causes \cup {"none"} : Stopped(c, lost) \/ ContinueLoop(c, lost)
  \/ ExitDriver

Next == Client \/ Frames \/ Driver \/ SettleMaintenance \/ WaiterLoops \/ WaiterReturns

Spec == Init /\ [][Next]_vars

(* JavaScript finishes the synchronous rest of every operation, resumes    *)
(* every settled await, and the awaited model, tools, plugins and tasks    *)
(* settle.  Clients owe nothing.                                           *)
FairSpec ==
  /\ Spec
  /\ WF_vars(Frames) /\ WF_vars(Driver)
  /\ WF_vars(SettleMaintenance) /\ WF_vars(WaiterLoops) /\ WF_vars(WaiterReturns)

---------------------------------------------------------------------------
PhaseTypes ==
  /\ phase \in {"idle", "maintenance", "running"}
  /\ abort \in Causes \cup {"none"}
  /\ latch \in BOOLEAN
  /\ phaseTurn \in Nat /\ stepNo \in Nat

InboxTypes ==
  /\ nextTurn \in Seq(Messages) /\ nextStep \in Seq(Messages)
  /\ unsent \in SUBSET Messages

TurnTypes ==
  /\ pc \in PCs
  /\ batch \in SUBSET Messages
  /\ turnEnds \in {"null", "completed", "max-tokens"}

LogTypes ==
  /\ logTurn \in Nat
  /\ openTurn \in BOOLEAN /\ openStep \in BOOLEAN
  /\ lastEnd \in EndReasons \cup {"none"}
  /\ refused \in SUBSET Closings

WaitTypes ==
  /\ stack \in Seq(Frame)
  /\ activity \in {"settled", "open"}
  /\ waiter \in {"none", "current", "stale", "returned"}
  /\ owed \in SUBSET Messages
  /\ disposing \in BOOLEAN

(* Every variable has its type; in particular a turn/end is always logged  *)
(* with a reason ("every exit assigns a turn ending", agent.ts).           *)
TypeOK == PhaseTypes /\ InboxTypes /\ TurnTypes /\ LogTypes /\ WaitTypes

(* No wake is lost: when nothing runs, no message is pending that a wake   *)
(* promised to run (a wake that started a driver, reached a live one or    *)
(* was latched), unless since then a cancel parked it, its turn failed,    *)
(* was rejected or was left empty, or the session refused to log the       *)
(* turn's start or end (send, wakeDriver, kick, agent.ts).                 *)
NoStrandedWake == phase = "idle" /\ stack = <<>> => owed = {}

(* A message is in at most one place: a list of the inbox at one position, *)
(* or the driver's claimed batch; and it was submitted (inbox.ts validate).*)
OnePlace ==
  /\ \A i, j \in DOMAIN nextTurn : nextTurn[i] = nextTurn[j] => i = j
  /\ \A i, j \in DOMAIN nextStep : nextStep[i] = nextStep[j] => i = j
  /\ ToSet(nextTurn) \cap ToSet(nextStep) = {}
  /\ Pending \cap batch = {}
  /\ (Pending \cup batch) \cap unsent = {}

(* Only a driver works on a turn: whenever the agent reports idle, also    *)
(* during maintenance and inside listeners, no claimed message is in       *)
(* flight, and the log is open only where the session refused the event    *)
(* that closes it.  A step left open that way is never taken for a         *)
(* success: its turn ended in error or aborted, or stayed open too         *)
(* (agent.ts turn, both finally blocks).                                   *)
IdleIsBalanced ==
  phase # "running" =>
    /\ pc = "off" /\ batch = {}
    /\ openTurn => "turn/end" \in refused
    /\ openStep => "step/end" \in refused /\ (openTurn \/ lastEnd \in {"error", "aborted"})

(* A live driver never carries a latch, so a later keepInbox cancel parks  *)
(* the work queued before it instead of replaying it (agent.ts wakeDriver, *)
(* turn).                                                                  *)
LatchNeedsCancel == phase = "running" /\ latch => abort # "none"

(* Two drivers never interleave: turns are numbered one by one, a          *)
(* turn/start is logged only after the last turn was closed or its         *)
(* turn/end refused, and a step opens only in an open turn that was not    *)
(* cancelled while its batch was prepared (agent.ts wakeDriver, kick,      *)
(* preStep).                                                               *)
TurnsNest ==
  [][/\ logTurn' # logTurn => logTurn' = logTurn + 1 /\ (openTurn => "turn/end" \in refused)
     /\ openStep' /\ ~openStep => openTurn /\ refused = {} /\ abort = "none"]_vars

(* whenIdle returns only at quiescence: no driver, no maintenance, and no  *)
(* replay still to come (agent.ts whenIdle, kick, runMaintenance).         *)
WhenIdleSound ==
  [][waiter' = "returned" /\ waiter # "returned" =>
       phase = "idle" /\ pc = "off" /\ stack = <<>>]_vars

(* A message that a wake promised to run is eventually claimed, discarded, *)
(* or released from the promise.                                           *)
OwedIsServed == \A m \in Messages : m \in owed ~> m \notin owed

(* A caller of whenIdle returns once the agent stays quiet.                *)
WhenIdleReturns ==
  <>[](phase = "idle" /\ stack = <<>>) => (waiter = "current" ~> waiter = "returned")

(* agent.ts:176: "disposal never latches, so teardown waits on no model    *)
(* turn": after a disposed cancel the unwinding activity holds no wake.    *)
DisposalNeverLatches == disposing => ~latch
===========================================================================
