----------------------------- MODULE GoalRounds -----------------------------
(* The goal of one session and the driver that turns it into rounds:       *)
(* GoalService (packages/goal/goal/src/index.ts) with its strict fold      *)
(* (packages/goal/goal/src/fold.ts), and goal-round-driver                 *)
(* (packages/goal/goal-round-driver/src/index.ts) over an agent whose      *)
(* turns AgentDriver models.                                               *)
(*                                                                         *)
(* Code that runs synchronously inside an event is a stack of frames: while*)
(* there is one, nothing else moves.                                       *)
EXTENDS Naturals, Sequences

CONSTANTS MaxChanges,  \* bound: goal operations called by people and tools
          MaxPrompts,  \* bound: human prompts
          MaxCancels,  \* bound: cancellations
          MaxRounds,   \* maxGoalRounds of the goal
          Runs,        \* bound: driver loops alive at a time
          OuterAwaits  \* a pre-step listener outside the driver's awaits
                       \* after the driver has decided

VARIABLES goal,        \* the goal as its log folds
          armed,       \* GoalCache.activation
          folds,       \* no event of the log is refused by the fold
          queue,       \* the agent's next-turn messages
          turn,        \* where the agent's turn is
          batch,       \* the message that the turn claimed
          aborted,     \* the turn's signal
          latched,     \* Phase.wakeRequested
          attempt,     \* DriverState.attempt
          competing, needsCheckpoint, requested,
          run,         \* DriverState.run: the loop it names
          runs,        \* each loop: "off", "flush", "loop" or "ended"
          frames,      \* the synchronous calls in progress, innermost first
          spent,       \* the bounded calls made so far
          authority    \* history: nothing was cancelled since a person or a
                       \* tool armed the goal

agent   == <<queue, turn, batch, aborted, latched>>
driver  == <<attempt, competing, needsCheckpoint, requested, run, runs>>
vars    == <<goal, armed, folds, agent, driver, frames, spent, authority>>

Prompt == [id |-> 0, rev |-> 0, round |-> 0]
None   == [round |-> Prompt, phase |-> "none", cancelled |-> FALSE, stale |-> FALSE]
NoRun  == 0

Ids == 0 .. MaxChanges
Rounds == [id : Ids, rev : Nat, round : 0 .. MaxRounds]

TypeOK ==
  /\ goal \in [id : Ids, rev : Nat, started : 0 .. MaxRounds,
               phase : {"none", "active", "paused", "blocked", "complete"}]
  /\ armed \in BOOLEAN /\ folds \in BOOLEAN
  /\ queue \in Seq(Rounds)
  /\ turn \in {"idle", "claimed", "deciding", "outer", "step", "emptied", "rejected", "failed",
               "between", "leaving"}
  /\ batch \in Rounds
  /\ aborted \in BOOLEAN /\ latched \in BOOLEAN
  /\ attempt \in [round : Rounds, phase : {"none", "queued", "claimed", "admitted"},
                  cancelled : BOOLEAN, stale : BOOLEAN]
  /\ competing \in BOOLEAN /\ needsCheckpoint \in BOOLEAN /\ requested \in BOOLEAN
  /\ run \in Runs \cup {NoRun}
  /\ runs \in [Runs -> {"off", "flush", "loop", "ended"}]
  /\ spent \in [changes : 0 .. MaxChanges, prompts : 0 .. MaxPrompts,
                cancels : 0 .. MaxCancels]
  /\ authority \in BOOLEAN

Init ==
  /\ goal = [id |-> 0, rev |-> 0, started |-> 0, phase |-> "none"]
  /\ armed = FALSE /\ folds = TRUE
  /\ queue = <<>> /\ turn = "idle" /\ batch = Prompt
  /\ aborted = FALSE /\ latched = FALSE
  /\ attempt = None
  /\ competing = FALSE /\ needsCheckpoint = FALSE /\ requested = FALSE
  /\ run = NoRun /\ runs = [r \in Runs |-> "off"]
  /\ frames = <<>>
  /\ spent = [changes |-> 0, prompts |-> 0, cancels |-> 0]
  /\ authority = FALSE

Running == goal.phase = "active" /\ armed

\* Nothing synchronous is in progress: an event of the loop may run.  (Once
\* the fold refuses the log every read of the goal throws: the model stops.)
Free == frames = <<>> /\ folds

Request == [kind |-> "request", run |-> NoRun]
Wake    == [kind |-> "wake", run |-> NoRun]
Assign(r) == [kind |-> "assign", run |-> r]
Call(fs)  == frames' = fs \o frames

---------------------------------------------------------------------------
(* GoalService.  A change is a new revision, and is announced.             *)

Changed(phase) ==
  /\ goal' = [goal EXCEPT !.rev = @ + 1, !.phase = phase]
  /\ needsCheckpoint' = TRUE

Spend(what) == spent' = [spent EXCEPT ![what] = @ + 1]

Announced ==
  /\ Call(<<Request>>)
  /\ UNCHANGED <<folds, agent, attempt, competing, requested, run, runs>>

Create ==
  /\ Free /\ spent.changes < MaxChanges /\ goal.phase \in {"none", "complete"}
  /\ goal' = [id |-> goal.id + 1, rev |-> 1, started |-> 0, phase |-> "active"]
  /\ needsCheckpoint' = TRUE
  /\ armed' = TRUE /\ authority' = TRUE
  /\ Spend("changes") /\ Announced

Edit ==
  /\ Free /\ spent.changes < MaxChanges /\ goal.phase # "none"
  /\ Changed(goal.phase)
  /\ UNCHANGED <<armed, authority>>
  /\ Spend("changes") /\ Announced

Resume ==
  /\ Free /\ spent.changes < MaxChanges
  /\ goal.phase \in {"active", "paused", "blocked"} /\ ~Running
  /\ goal.started < MaxRounds
  /\ Changed("active")
  /\ armed' = TRUE /\ authority' = TRUE
  /\ Spend("changes") /\ Announced

Disarms ==
  /\ Free /\ spent.changes < MaxChanges /\ Spend("changes")
  /\ armed' = FALSE /\ UNCHANGED authority
  /\ Announced

Pause == goal.phase = "active" /\ Changed("paused") /\ Disarms
Complete == goal.phase \in {"active", "paused", "blocked"} /\ Changed("complete") /\ Disarms
Clear == /\ goal.phase # "none"
            /\ goal' = [goal EXCEPT !.rev = @ + 1, !.phase = "none", !.started = 0]
            /\ needsCheckpoint' = TRUE
            /\ Disarms

\* The next admitted round of the active goal (applyGoalEvent).
IsNext(m) == /\ goal.phase = "active" /\ m.id = goal.id /\ m.rev = goal.rev
             /\ m.round = goal.started + 1 /\ m.round <= MaxRounds
---------------------------------------------------------------------------
(* The agent, as far as the driver sees it.                                *)

Held == attempt.phase # "none"

\* A turn is open: it has started, and has not ended.
InTurn == turn \notin {"idle", "between", "leaving"}

\* A turn opens in the call that wakes the agent, and claims one message.
Open(q, att) ==
  /\ turn' = "claimed" /\ batch' = Head(q) /\ queue' = Tail(q)
  /\ aborted' = FALSE /\ latched' = FALSE
  /\ attempt' = IF att.phase # "none" /\ att.round = Head(q)
                THEN [att EXCEPT !.phase = "claimed"] ELSE att

\* agent/inbox/inserted: a queued round is stale behind a person's message.
SendPrompt ==
  /\ Free /\ spent.prompts < MaxPrompts
  /\ Spend("prompts")
  /\ competing' = TRUE
  /\ LET q   == Append(queue, Prompt)
         att == IF attempt.phase = "queued" THEN [attempt EXCEPT !.stale = TRUE] ELSE attempt
     IN IF turn = "idle" THEN Open(q, att)
        ELSE /\ queue' = q /\ attempt' = att /\ latched' = (latched \/ aborted)
             /\ UNCHANGED <<turn, batch, aborted>>
  /\ UNCHANGED <<goal, armed, folds, needsCheckpoint, requested, run, runs, frames, authority>>

\* A bug: the round whose turn is aborted is not marked.
AfterAbortPlain(att) == att

\* session/event: a round that was claimed is cancelled with its turn.
AfterAbort(att) ==
  IF att.phase \in {"claimed", "admitted"} THEN [att EXCEPT !.cancelled = TRUE] ELSE att

Cancel(keepInbox) ==
  /\ Free /\ spent.cancels < MaxCancels /\ (turn # "idle" \/ queue # <<>>)
  /\ Spend("cancels")
  /\ aborted' = (turn # "idle")
  /\ IF keepInbox THEN UNCHANGED <<queue, attempt, latched>>
     ELSE /\ queue' = <<>> /\ latched' = FALSE
          /\ attempt' = IF Held /\ \E k \in DOMAIN queue : queue[k] = attempt.round
                        THEN [attempt EXCEPT !.cancelled = TRUE] ELSE attempt
  /\ authority' = (authority /\ ~InTurn)
  /\ UNCHANGED <<goal, armed, folds, turn, batch, competing, needsCheckpoint, requested,
                 run, runs, frames>>

\* turn/end.  Promise jobs may run before the driver opens another turn, with a
\* fresh signal, or goes idle.
EndTurn(reason) ==
  LET disarms == \/ reason \in {"error", "max-tokens"}
                 \/ reason = "aborted" /\ attempt.phase \notin {"claimed", "admitted"}
      goesOn  == reason \in {"completed", "max-tokens"} /\ turn # "emptied" /\ queue # <<>>
  IN /\ turn' = (IF goesOn THEN "between" ELSE "leaving") /\ batch' = Prompt
     /\ aborted' = (aborted /\ ~goesOn) /\ latched' = (latched /\ ~goesOn)
     /\ attempt' = IF reason = "aborted" THEN AfterAbort(attempt) ELSE attempt
     /\ armed' = (armed /\ ~disarms)
     /\ UNCHANGED <<goal, folds, queue, competing, needsCheckpoint, requested, run, runs, frames,
                    spent, authority>>

Aborted == Free /\ InTurn /\ aborted /\ EndTurn("aborted")

Finish ==
  /\ Free /\ ~aborted
  /\ \/ turn = "step" /\ \E reason \in {"completed", "max-tokens", "error"} : EndTurn(reason)
     \/ turn = "emptied" /\ EndTurn("completed")
     \/ turn = "rejected" /\ EndTurn("blocked")
     \/ turn = "failed" /\ EndTurn("error")

NextTurn ==
  /\ Free /\ turn = "between" /\ ~aborted
  /\ Open(queue, attempt)
  /\ UNCHANGED <<goal, armed, folds, competing, needsCheckpoint, requested, run, runs, frames,
                 spent, authority>>

\* The idle status, whose listener pauses the goal of a round that was not run.
GoIdle ==
  LET pauses == Running /\ (attempt.phase \in {"queued", "claimed"} \/ attempt.cancelled)
  IN /\ Free /\ (turn = "leaving" \/ (turn = "between" /\ aborted))
     /\ turn' = "idle" /\ aborted' = FALSE /\ latched' = FALSE
     /\ competing' = FALSE /\ armed' = (armed /\ ~pauses)
     /\ Call((IF pauses THEN <<Request, Request>> ELSE <<Request>>)
             \o (IF latched THEN <<Wake>> ELSE <<>>))
     /\ IF pauses THEN Changed("paused") /\ attempt' = None
        ELSE UNCHANGED <<goal, needsCheckpoint, attempt>>
     /\ UNCHANGED <<folds, queue, batch, requested, run, runs, spent, authority>>

---------------------------------------------------------------------------
(* agent/pre-step: the fence around a round.                               *)

Current(m) == m.id = goal.id /\ m.rev = goal.rev

Valid == /\ attempt.phase = "claimed" /\ ~attempt.stale /\ attempt.round = batch
         /\ Current(batch) /\ Running /\ batch.round = goal.started + 1

Refuse(place) ==
  /\ turn' = place /\ attempt' = None
  /\ Call(<<Request>>)
  /\ UNCHANGED <<goal, armed, folds, queue, batch, aborted, latched, competing, needsCheckpoint,
                 requested, run, runs, spent, authority>>

Move(place) ==
  /\ turn' = place
  /\ UNCHANGED <<goal, armed, folds, queue, batch, aborted, latched, driver, frames, spent,
                 authority>>

\* The user message of the step: an admitted round counts.
Enter ==
  /\ turn' = "step"
  /\ IF batch = Prompt THEN UNCHANGED <<goal, folds, attempt>>
     ELSE /\ folds' = IsNext(batch)
          /\ goal' = IF IsNext(batch) THEN [goal EXCEPT !.started = batch.round] ELSE goal
          /\ attempt' = IF Held /\ attempt.round = batch
                        THEN [attempt EXCEPT !.phase = "admitted"] ELSE attempt
  /\ UNCHANGED <<armed, queue, batch, aborted, latched, competing, needsCheckpoint, requested,
                 run, runs, frames, spent, authority>>

Check ==
  /\ Free /\ turn = "claimed" /\ ~aborted
  /\ IF batch = Prompt \/ Valid THEN Move("deciding")
     ELSE IF Held /\ attempt.round = batch THEN Refuse("rejected")
     ELSE /\ turn' = "rejected" /\ Call(<<Request>>)
          /\ UNCHANGED <<goal, armed, folds, queue, batch, aborted, latched, driver, spent,
                         authority>>

\* The inner listeners are done: the driver looks again, unless aborted.
Decide ==
  /\ Free /\ turn = "deciding" /\ ~aborted
  /\ \/ IF batch # Prompt /\ ~Valid THEN Refuse("rejected")
        ELSE Move("emptied") \/ IF OuterAwaits THEN Move("outer") ELSE Enter
     \/ IF batch = Prompt THEN Move("rejected")
        ELSE IF Current(batch) /\ Running
        THEN /\ turn' = "rejected" /\ attempt' = None
             /\ Changed("blocked") /\ armed' = FALSE /\ Call(<<Request>>)
             /\ UNCHANGED <<folds, queue, batch, aborted, latched, competing, requested, run,
                            runs, spent, authority>>
        ELSE /\ turn' = "rejected" /\ attempt' = None
             /\ UNCHANGED <<goal, armed, folds, queue, batch, aborted, latched, competing,
                            needsCheckpoint, requested, run, runs, frames, spent, authority>>
     \/ IF batch = Prompt THEN Move("failed") ELSE Refuse("failed")

OuterDone == Free /\ turn = "outer" /\ ~aborted /\ Enter

---------------------------------------------------------------------------
(* The driver: requestDrive starts a loop, whose first pass runs in the    *)
(* same call, before state.run names it.                                   *)

Ready == turn = "idle" /\ ~competing

LimitReached == goal.started >= MaxRounds

\* The end of one pass: drop a finished attempt, stop at the limit, or queue
\* the next round, which wakes the agent; then the calls rest go on.
Reserve(r, rest, req) ==
  LET m == [id |-> goal.id, rev |-> goal.rev, round |-> goal.started + 1]
      Blocks == /\ Changed("blocked") /\ armed' = FALSE
                /\ frames' = <<Request>> \o rest
                /\ UNCHANGED <<agent, attempt>>
  IN /\ runs' = [runs EXCEPT ![r] = "loop"]
     /\ requested' = (req \/ Held)
     /\ UNCHANGED <<folds, competing, run, spent, authority>>
     /\ IF Held
        THEN /\ attempt' = None /\ needsCheckpoint' = TRUE /\ frames' = rest
             /\ UNCHANGED <<goal, armed, agent>>
        ELSE IF ~Running
        THEN frames' = rest /\ UNCHANGED <<goal, armed, agent, attempt, needsCheckpoint>>
        ELSE \/ LimitReached /\ Blocks
             \/ /\ ~LimitReached
                /\ Open(Append(queue, m), [None EXCEPT !.round = m, !.phase = "queued"])
                /\ frames' = rest
                /\ UNCHANGED <<goal, armed, needsCheckpoint>>
             \/ ~LimitReached /\ Blocks  \* followup threw

\* One pass of the loop r: drive up to its flush, or to its end.
Drive(r, rest) ==
  \/ Ready /\ ~needsCheckpoint /\ Reserve(r, rest, FALSE)
  \/ /\ ~Ready \/ needsCheckpoint
     /\ runs' = [runs EXCEPT ![r] = IF Ready THEN "flush" ELSE "loop"]
     /\ needsCheckpoint' = (needsCheckpoint /\ ~Ready)
     /\ requested' = FALSE /\ frames' = rest
     /\ UNCHANGED <<goal, armed, folds, agent, attempt, competing, run, spent, authority>>

Back == Tail(frames)
Calling(kind) == IF frames = <<>> THEN FALSE ELSE Head(frames).kind = kind

RequestDrive ==
  /\ Calling("request")
  /\ IF run # NoRun
     THEN /\ requested' = TRUE /\ frames' = Back
          /\ UNCHANGED <<goal, armed, folds, agent, attempt, competing, needsCheckpoint, run,
                         runs, spent, authority>>
     ELSE LET off == {r \in Runs : runs[r] = "off"}
              r == CHOOSE r \in off : TRUE
          IN off # {} /\ Drive(r, <<Assign(r)>> \o Back)

AssignRun ==
  /\ Calling("assign")
  /\ run' = Head(frames).run /\ frames' = Back
  /\ UNCHANGED <<goal, armed, folds, agent, attempt, competing, needsCheckpoint, requested,
                 runs, spent, authority>>

\* The driver's latched wake, after the idle status was told.
WakeAgain ==
  /\ Calling("wake")
  /\ frames' = Back
  /\ IF turn = "idle" /\ queue # <<>> THEN Open(queue, attempt)
     ELSE UNCHANGED <<agent, attempt>>
  /\ UNCHANGED <<goal, armed, folds, competing, needsCheckpoint, requested, run, runs, spent,
                 authority>>

LoopAgain(r) ==
  /\ Free /\ runs[r] = "loop"
  /\ IF requested THEN Drive(r, <<>>)
     ELSE /\ runs' = [runs EXCEPT ![r] = "ended"]
          /\ UNCHANGED <<goal, armed, folds, agent, attempt, competing, needsCheckpoint,
                         requested, run, frames, spent, authority>>

Flushed(r) ==
  /\ Free /\ runs[r] = "flush"
  /\ \/ Ready /\ ~needsCheckpoint /\ Reserve(r, <<>>, requested)
     \/ /\ runs' = [runs EXCEPT ![r] = "loop"]
        /\ \/ (~Ready \/ needsCheckpoint) /\ UNCHANGED armed
           \/ armed' = FALSE  \* the flush failed
        /\ UNCHANGED <<goal, folds, agent, attempt, competing, needsCheckpoint, requested, run,
                       frames, spent, authority>>

\* A bug: what was requested since the last pass is forgotten.
Forgets == <<>>

RequestedSince == IF requested THEN <<Request>> ELSE <<>>

\* retire: no loop is registered, whichever was.
Retire(r) ==
  /\ Free /\ runs[r] = "ended"
  /\ runs' = [runs EXCEPT ![r] = "off"] /\ run' = NoRun
  /\ frames' = RequestedSince
  /\ UNCHANGED <<goal, armed, folds, agent, attempt, competing, needsCheckpoint, requested,
                 spent, authority>>

Sync == RequestDrive \/ AssignRun \/ WakeAgain

Next ==
  \/ Create \/ Edit \/ Resume \/ Pause \/ Complete \/ Clear \/ SendPrompt
  \/ \E keep \in BOOLEAN : Cancel(keep)
  \/ Aborted \/ Finish \/ NextTurn \/ GoIdle \/ Check \/ Decide \/ OuterDone
  \/ Sync
  \/ \E r \in Runs : LoopAgain(r) \/ Flushed(r) \/ Retire(r)

Spec == Init /\ [][Next]_vars

\* Calls return, promise jobs run, and a flush settles.
Fairness ==
  /\ WF_vars(Sync)
  /\ \A r \in Runs : WF_vars(LoopAgain(r)) /\ WF_vars(Flushed(r)) /\ WF_vars(Retire(r))
FairSpec == Spec /\ Fairness

---------------------------------------------------------------------------
(* Properties.                                                             *)

\* Every round that enters a step is the next round of the goal as it then is,
\* so that the strict fold never refuses the session's log.
GoalFolds == folds

\* The loops of one driver do not overlap: no two wait for a checkpoint at a
\* time (requestDrive coalesces triggers onto one serialized driver).
OneDriver ==
  \A r, q \in Runs : runs[r] = "flush" /\ runs[q] = "flush" => r = q

\* After an open turn is cancelled no round is queued until a person or a
\* tool arms the goal again (the round's cancellation pauses the goal, any
\* other one disarms it).
CancelStops ==
  [][attempt.phase = "none" /\ attempt'.phase # "none" => authority]_vars

\* An armed goal whose agent is idle goes on: a turn opens or the goal stops.
Continues == Running /\ turn = "idle" ~> ~Running \/ turn # "idle"
=============================================================================
