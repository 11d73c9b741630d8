---------------------------- MODULE WriteBehind ----------------------------
(***************************************************************************)
(* The write path of one live session: its write-behind controller         *)
(* (packages/session/session-persistence/src/write-behind.ts) and the part *)
(* of the coordinator that feeds, initialises, flushes and tears it down   *)
(* (coordinator.ts).                                                       *)
(*                                                                         *)
(* An action is the code between two awaits.  Steps that only wait for     *)
(* JavaScript to resume a settled promise are actions too, because events  *)
(* and flushes may arrive from other promises in between; the batching     *)
(* deadline is a timer callback and waits for all of them (Settled).       *)
(***************************************************************************)
EXTENDS Naturals, Sequences, FiniteSets

CONSTANTS
  Callers,    \* callers of session/flush
  Teardown,   \* the backend's own teardown, which flushes too
  MaxEvents   \* bound: events the session ever holds

ASSUME CallersAssumption == Teardown \notin Callers
ASSUME MaxEventsAssumption == MaxEvents \in Nat

Flushers == Callers \cup {Teardown}

VARIABLES
  log,        \* number of events in the session; event number n is the n-th
  stored,     \* the backend's log for the session
  init,       \* live.init: "none" before the controller exists, "running", ...
  seed,       \* number of events in the snapshot that init persists
  pending,    \* controller: queued events
  timer,      \* controller: is the batching deadline armed?
  expired,    \* controller: deadlineExpired
  paused,     \* controller: automaticPaused
  active,     \* controller: the active write, by how far it has come
  background, \* is it a background write, or one of the barrier?
  batch,      \* the events it carries
  outcome,    \* how the last write settled
  resuming,   \* continueAutomatic is due
  barrier,    \* controller: "none", "overlap" (awaits active) or "write"
  caller,     \* caller[f]: "idle", "init", "barrier", "ok" or "rejected"
  due,        \* history: events in the session when f called flush
  life,       \* "open", "teardown" or "closed"
  tried       \* history: the backend was asked to write since teardown began

queueVars == <<pending, timer, expired, paused>>
writeVars == <<active, background, batch, outcome, resuming>>
flushVars == <<barrier, caller, due>>
initVars  == <<init, seed>>
vars == <<log, stored, init, seed, pending, timer, expired, paused, active,
          background, batch, outcome, resuming, barrier, caller, due, life, tried>>

Numbers(n) == [i \in 1..n |-> i - 1]

(* The session may have a stored prefix: resumed, or adopted on reload.    *)
Init ==
  /\ log \in 0..MaxEvents
  /\ \E n \in 0..log : stored = Numbers(n)
  /\ init = "none" /\ seed = 0
  /\ pending = <<>> /\ timer = FALSE /\ expired = FALSE /\ paused = FALSE
  /\ active = "none" /\ background = FALSE /\ batch = <<>> /\ outcome = "ok"
  /\ resuming = FALSE /\ barrier = "none"
  /\ caller = [f \in Flushers |-> "idle"]
  /\ due = [f \in Flushers |-> 0]
  /\ life = "open" /\ tried = FALSE

(* No promise continuation is due, so a timer callback may run.            *)
Settled ==
  /\ active \notin {"landed", "failed"} /\ ~resuming
  /\ barrier # "none" => active # "none"
  /\ init \in {"done", "failed"} => \A f \in Flushers : caller[f] # "init"

---------------------------------------------------------------------------
(* The live controller.                                                    *)

(* initFor: the first mention of a session snapshots its events and starts *)
(* to persist them.                                                        *)
InitFor(events) ==
  \/ init = "none" /\ init' = "running" /\ seed' = events
  \/ init # "none" /\ UNCHANGED initVars

(* session/created, and the sessions already live when the plugin reloads. *)
SessionCreated ==
  /\ life = "open" /\ init = "none"
  /\ InitFor(log)
  /\ UNCHANGED <<log, stored, queueVars, writeVars, flushVars, life, tried>>

(* onCreated, adoptLivePrefix and attachPrepared end alike: the snapshot's *)
(* suffix beyond the stored prefix is appended in one batch.               *)
InitSucceeds ==
  /\ init = "running"
  /\ init' = "done"
  /\ stored' = IF seed > Len(stored) THEN Numbers(seed) ELSE stored
  /\ UNCHANGED <<log, seed, queueVars, writeVars, flushVars, life, tried>>

(* A read or append error, or an id collision.  The promise stays rejected.*)
InitFails ==
  /\ init = "running"
  /\ init' = "failed"
  /\ UNCHANGED <<log, stored, seed, queueVars, writeVars, flushVars, life, tried>>

(* Wrong: new work after a failure does not restart the window.            *)
ArmsWhenEmptyOnly == barrier = "none" /\ ~paused /\ pending = <<>>

(* enqueue arms the window for the first queued event, and after a failed  *)
(* write for the next one; a barrier takes the event without a window.     *)
Arms == barrier = "none" /\ (paused \/ pending = <<>>)

(* session/event: the event is in the session before its listeners run, so *)
(* it is in the snapshot too when it is the session's first mention.       *)
Enqueue ==
  /\ life = "open" /\ log < MaxEvents
  /\ log' = log + 1
  /\ InitFor(log + 1)
  /\ pending' = Append(pending, log)
  /\ timer' = (timer \/ Arms)
  /\ paused' = (paused /\ barrier # "none")
  /\ expired' = (expired /\ ~(paused /\ barrier = "none"))
  /\ UNCHANGED <<stored, writeVars, flushVars, life, tried>>

StartWrite(isBackground) ==
  /\ batch' = pending /\ pending' = <<>>
  /\ timer' = FALSE /\ expired' = FALSE
  /\ active' = "ready" /\ background' = isBackground
  /\ UNCHANGED outcome

(* Wrong: the deadline starts a write although one is active.              *)
FindsNoWrite == TRUE

FindsIdle == active = "none"

(* onDeadline: start a background write, or remember that the active one   *)
(* used the budget up.                                                     *)
Deadline ==
  /\ timer /\ Settled
  /\ \/ FindsIdle /\ StartWrite(TRUE)
     \/ /\ ~FindsIdle
        /\ timer' = FALSE /\ expired' = TRUE
        /\ UNCHANGED <<pending, active, background, batch, outcome>>
  /\ UNCHANGED <<log, stored, initVars, paused, resuming, flushVars, life, tried>>

Continues == barrier = "none" /\ pending # <<>> /\ expired

ContinueAutomatic ==
  /\ resuming
  /\ resuming' = FALSE
  /\ \/ Continues /\ StartWrite(TRUE)
     \/ ~Continues /\ UNCHANGED <<pending, timer, expired, active, background, batch, outcome>>
  /\ UNCHANGED <<log, stored, initVars, paused, flushVars, life, tried>>

---------------------------------------------------------------------------
(* One write: await initialisation, append under the id's chain, settle.   *)

AskBackend ==
  /\ active = "ready" /\ init = "done"
  /\ active' = "backend"
  /\ tried' = TRUE
  /\ UNCHANGED <<log, stored, initVars, queueVars, background, batch, outcome,
                 resuming, flushVars, life>>

(* appendLiveBatch drops what initialisation stored already: the batch is  *)
(* in the order of the log, so that is a prefix of it.                     *)
Stale == {i \in DOMAIN batch : batch[i] < Len(stored)}
Fresh == SubSeq(batch, Cardinality(Stale) + 1, Len(batch))

(* appendCore refuses a batch that does not continue the stored log.       *)
Contiguous == \A i \in DOMAIN Fresh : Fresh[i] = Len(stored) + i - 1

WriteLands ==
  /\ active = "backend" /\ Contiguous
  /\ stored' = stored \o Fresh
  /\ active' = "landed" /\ batch' = <<>> /\ outcome' = "ok"
  /\ UNCHANGED <<log, initVars, queueVars, background, resuming, flushVars, life, tried>>

(* The write fails, in the backend or because initialisation did: the      *)
(* batch goes back to the front and the automatic path pauses.             *)
WriteFails ==
  /\ \/ active = "backend"
     \/ active = "ready" /\ init = "failed"
  /\ pending' = batch \o pending /\ batch' = <<>>
  /\ timer' = FALSE /\ expired' = FALSE /\ paused' = TRUE
  /\ active' = "failed" /\ outcome' = "failed"
  /\ UNCHANGED <<log, stored, initVars, background, resuming, flushVars, life, tried>>

(* The finally of startWrite.                                              *)
ClearActive ==
  /\ active \in {"landed", "failed"}
  /\ active' = "none"
  /\ resuming' = (resuming \/ (background /\ active = "landed"))
  /\ UNCHANGED <<log, stored, initVars, queueVars, background, batch, outcome,
                 flushVars, life, tried>>

---------------------------------------------------------------------------
(* The barrier and its callers.                                            *)

(* Wrong: a barrier that fails does not reject its promise.                *)
SettleSuccessOnly(reply) ==
  caller' = [f \in Flushers |->
               IF caller[f] = "barrier" /\ reply = "ok" THEN reply ELSE caller[f]]

(* Every caller that joined the barrier shares its promise.                *)
Settle(reply) ==
  caller' = [f \in Flushers |-> IF caller[f] = "barrier" THEN reply ELSE caller[f]]

(* The loop of drainBarrier: write until the queue is empty, and close the *)
(* barrier in the same job that finds it empty.                            *)
DrainLoop ==
  \/ /\ pending # <<>>
     /\ StartWrite(FALSE)
     /\ barrier' = "write"
     /\ UNCHANGED <<caller, resuming>>
  \/ /\ pending = <<>>
     /\ barrier' = "none"
     /\ Settle("ok")
     /\ UNCHANGED <<pending, timer, expired, writeVars>>

(* coordinator flush: cancel the batching wait, then await initialisation. *)
FlushCall(f) ==
  /\ caller[f] \notin {"init", "barrier"}
  /\ InitFor(log)
  /\ timer' = FALSE /\ expired' = FALSE
  /\ caller' = [caller EXCEPT ![f] = "init"]
  /\ due' = [due EXCEPT ![f] = log]
  /\ UNCHANGED <<log, stored, pending, paused, writeVars, barrier>>

SessionFlush(f) ==
  /\ f \in Callers /\ life = "open"
  /\ FlushCall(f)
  /\ UNCHANGED <<life, tried>>

(* Promise continuations run in order: those who called before teardown    *)
(* resume before it.                                                       *)
Resumes(f) == caller[f] = "init" /\ (f = Teardown => \A g \in Callers : caller[g] # "init")

(* Wrong: a flush does not wait for the write that is already active.      *)
OverlapsNothing == FALSE

Overlaps == active # "none"

(* controller flush: join the barrier, or open one.                        *)
FlushJoins(f) ==
  /\ Resumes(f) /\ init = "done" /\ barrier # "none"
  /\ caller' = [caller EXCEPT ![f] = "barrier"]
  /\ UNCHANGED <<log, stored, initVars, queueVars, writeVars, barrier, due, life, tried>>

FlushOpens(f) ==
  /\ Resumes(f) /\ init = "done" /\ barrier = "none"
  /\ paused' = FALSE
  /\ \/ /\ Overlaps
        /\ timer' = FALSE /\ expired' = FALSE
        /\ barrier' = "overlap"
        /\ caller' = [caller EXCEPT ![f] = "barrier"]
        /\ UNCHANGED <<pending, writeVars>>
     \/ /\ ~Overlaps /\ pending # <<>>
        /\ StartWrite(FALSE)
        /\ barrier' = "write"
        /\ caller' = [caller EXCEPT ![f] = "barrier"]
        /\ UNCHANGED resuming
     \/ /\ ~Overlaps /\ pending = <<>>
        /\ timer' = FALSE /\ expired' = FALSE
        /\ caller' = [caller EXCEPT ![f] = "ok"]
        /\ UNCHANGED <<pending, writeVars, barrier>>
  /\ UNCHANGED <<log, stored, initVars, due, life, tried>>

(* Initialisation failed: the flush is refused and the wait stays off.     *)
FlushRefused(f) ==
  /\ Resumes(f) /\ init = "failed"
  /\ timer' = FALSE /\ expired' = FALSE
  /\ caller' = [caller EXCEPT ![f] = "rejected"]
  /\ UNCHANGED <<log, stored, initVars, pending, paused, writeVars, barrier, due, life, tried>>

OverlapSettles ==
  /\ barrier = "overlap" /\ active = "none"
  /\ paused' = FALSE
  /\ DrainLoop
  /\ UNCHANGED <<log, stored, initVars, due, life, tried>>

BarrierResumes ==
  /\ barrier = "write" /\ active = "none"
  /\ \/ outcome = "ok" /\ DrainLoop
     \/ /\ outcome = "failed"
        /\ barrier' = "none"
        /\ Settle("rejected")
        /\ UNCHANGED <<pending, timer, expired, writeVars>>
  /\ UNCHANGED <<log, stored, initVars, paused, due, life, tried>>

---------------------------------------------------------------------------
(* Backend teardown: the listeners are gone before its effect runs; it     *)
(* flushes every live session, awaits the chains and closes the backend.   *)

BeginTeardown ==
  /\ life = "open" /\ life' = "teardown"
  /\ tried' = (active = "backend")
  /\ \/ init # "none" /\ FlushCall(Teardown)
     \/ init = "none" /\ UNCHANGED <<log, stored, initVars, queueVars, writeVars, flushVars>>

MayClose ==
  /\ life = "teardown"
  /\ caller[Teardown] \notin {"init", "barrier"}
  /\ active # "backend" /\ init # "running"

Close ==
  /\ MayClose
  /\ life' = "closed"
  /\ UNCHANGED <<log, stored, initVars, queueVars, writeVars, flushVars, tried>>

---------------------------------------------------------------------------
Next ==
  \/ SessionCreated \/ InitSucceeds \/ InitFails
  \/ Enqueue \/ Deadline \/ ContinueAutomatic
  \/ AskBackend \/ WriteLands \/ WriteFails \/ ClearActive
  \/ \E f \in Callers : SessionFlush(f)
  \/ \E f \in Flushers : FlushJoins(f) \/ FlushOpens(f) \/ FlushRefused(f)
  \/ OverlapSettles \/ BarrierResumes
  \/ BeginTeardown \/ Close

Spec == Init /\ [][Next]_vars

(* Timers fire, the backend answers every call, settled promises resume    *)
(* and teardown closes once it may.  Nobody has to send events or flush.   *)
Fairness ==
  /\ WF_vars(InitSucceeds \/ InitFails)
  /\ WF_vars(Deadline) /\ WF_vars(ContinueAutomatic)
  /\ WF_vars(AskBackend) /\ WF_vars(WriteLands \/ WriteFails) /\ WF_vars(ClearActive)
  /\ \A f \in Flushers : WF_vars(FlushJoins(f) \/ FlushOpens(f) \/ FlushRefused(f))
  /\ WF_vars(OverlapSettles) /\ WF_vars(BarrierResumes) /\ WF_vars(Close)
FairSpec == Spec /\ Fairness

---------------------------------------------------------------------------
(* Every variable has its type; and the deadline is armed only for a queue *)
(* that nothing else is taking, so arming it never loses an armed timer    *)
(* (armTimer overwrites the handle).                                       *)
TypeOK ==
  /\ timer => pending # <<>> /\ barrier = "none" /\ ~paused
  /\ log \in 0..MaxEvents /\ seed \in 0..log
  /\ stored \in Seq(0..MaxEvents) /\ pending \in Seq(0..MaxEvents) /\ batch \in Seq(0..MaxEvents)
  /\ init \in {"none", "running", "done", "failed"}
  /\ {timer, expired, paused, background, resuming, tried} \subseteq BOOLEAN
  /\ active \in {"none", "ready", "backend", "landed", "failed"}
  /\ outcome \in {"ok", "failed"}
  /\ barrier \in {"none", "overlap", "write"}
  /\ caller \in [Flushers -> {"idle", "init", "barrier", "ok", "rejected"}]
  /\ due \in [Flushers -> 0..log]
  /\ life \in {"open", "teardown", "closed"}

(* Once the session is initialised, its stored log followed by what is     *)
(* queued holds every event in order: the active batch and the queue are   *)
(* the tail of the log, without a gap before the first of them (startWrite *)
(* and its catch, appendLiveBatch).                                        *)
NothingLost ==
  init = "done" =>
    LET queued == batch \o pending
        first == log - Len(queued)
    IN  /\ \A i \in DOMAIN queued : queued[i] = first + i - 1
        /\ first <= Len(stored)

(* A queued event always has something that will take it: the deadline, a  *)
(* spent deadline that the active write will honour, a barrier, or a flush *)
(* on its way.  Only a failed write or a failed initialisation leaves the  *)
(* queue waiting for the next event or flush (enqueue, onDeadline,         *)
(* continueAutomatic, cancelAutomaticWait).                                *)
QueueIsMoving ==
  pending # <<>> =>
    \/ timer
    \/ expired /\ (active # "none" \/ resuming)
    \/ barrier # "none"
    \/ \E f \in Flushers : caller[f] = "init"
    \/ paused \/ init = "failed"

(* The controller implements the contract of the session log: order,       *)
(* durability of flushed events, and no write on a closed backend.         *)
Contract == INSTANCE DurableLog WITH
  closed <- life = "closed",
  asking <- [f \in Flushers |->
               IF caller[f] \in {"init", "barrier"} THEN "waiting" ELSE caller[f]]

ImplementsDurableLog == Contract!Spec

(* Every flush is answered, whatever fails (drainBarrier, coordinator      *)
(* flush).                                                                 *)
FlushReturns ==
  \A f \in Flushers : caller[f] \in {"init", "barrier"} ~> caller[f] \in {"ok", "rejected"}

(* Every event becomes durable unless the automatic path was paused by a   *)
(* failed write, initialisation failed, or the backend was torn down.      *)
BecomesDurable ==
  \A n \in 1..MaxEvents :
    (init # "none" /\ log >= n) ~> (Len(stored) >= n \/ paused \/ init = "failed" \/ life # "open")

(* session-persistence README:36: after a background failure "explicit     *)
(* flush or backend teardown retries immediately and surfaces a repeated   *)
(* failure".  Teardown is refused only after the backend was asked again.  *)
TeardownRetries ==
  [][caller'[Teardown] = "rejected" /\ caller[Teardown] # "rejected" /\ paused => tried]_vars
=============================================================================
