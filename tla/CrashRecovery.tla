---------------------------- MODULE CrashRecovery ----------------------------
(* One agent over a durable log that a crash cuts: the driver's turn       *)
(* (packages/core/agent-loop/src/agent.ts), its tool calls, the checkpoint *)
(* policy that flushes before a step, a model request and a tool body      *)
(* (packages/session/session-checkpoint-policy/src/index.ts), and the      *)
(* repair of the log when the session is restored.  AgentDriver has the    *)
(* driver's scheduling and WriteBehind the write path; here a flush is a   *)
(* wait for `durable`, and a crash keeps what was acknowledged and any     *)
(* part of what was being written.                                         *)
EXTENDS SessionRepair, FiniteSets, TLC

LOCAL INSTANCE SequencesExt
LOCAL INSTANCE Functions

CONSTANTS Messages,    \* user messages, each accepted at most once
          Steering,    \* those for the next step; the rest open turns
          Calls,       \* tool-call ids, each run at most once
          MaxTurns,    \* bound: turns
          MaxSteps,    \* bound: steps of one turn
          MaxCrashes   \* bound: crashes

VARIABLES log,         \* the session's log in memory
          durable,     \* how much of it storage has acknowledged
          at,          \* where the driver is suspended
          step,        \* the steps of this turn
          ends,        \* turnEnds: how the turn will end, or "none"
          batch,       \* the claimed messages of the proposed step
          mark,        \* the log's end when the awaited flush was called
          calls,       \* this step's calls, in the order of the message
          state,       \* each started call of the step
          aborted,     \* the turn's signal
          ran,         \* the calls whose tool body ran: the outside world
          sent,        \* the messages a model request carried out
          rewritten,   \* claimed messages a pre-step listener took away
          dropped,     \* history: calls a scheduler failure left without a result
          crashes

agent == <<step, ends, batch, mark, calls, state>>
world == <<ran, sent, rewritten, dropped, crashes>>
vars  == <<log, durable, at, agent, aborted, world>>

Places == {"idle", "pre-step", "request", "answer", "tools", "stopping", "down"}
CallStates == {"started", "ran", "settled", "committed"}

TypeOK ==
  /\ durable \in 0 .. Len(log)
  /\ at \in Places
  /\ step \in 0 .. MaxSteps
  /\ ends \in {"none", "completed", "max-tokens"}
  /\ batch \in SUBSET Messages
  /\ mark \in 0 .. Len(log)
  /\ calls \in Seq(Calls)
  /\ DOMAIN state \subseteq Calls
  /\ \A c \in DOMAIN state : state[c].is \in CallStates /\ state[c].mark \in 0 .. Len(log)
  /\ aborted \in BOOLEAN
  /\ ran \in SUBSET Calls
  /\ sent \in SUBSET Messages /\ rewritten \in SUBSET Messages /\ dropped \in SUBSET Calls
  /\ crashes \in 0 .. MaxCrashes

NoCalls == [c \in {} |-> [is |-> "started", mark |-> 0]]

\* The memory of an agent that is not in a turn.
AtRest == /\ step' = 0 /\ ends' = "none" /\ batch' = {} /\ mark' = 0
          /\ calls' = <<>> /\ state' = NoCalls /\ aborted' = FALSE

Init ==
  /\ log = <<>> /\ durable = 0 /\ at = "idle"
  /\ step = 0 /\ ends = "none" /\ batch = {} /\ mark = 0
  /\ calls = <<>> /\ state = NoCalls /\ aborted = FALSE
  /\ ran = {} /\ sent = {} /\ rewritten = {} /\ dropped = {} /\ crashes = 0

Turn == Cardinality(Events(log, "turn/start"))

Logged(type) == {log[k].message : k \in Events(log, type)}

\* An awaited flush that was called with the log's end at n is acknowledged.
Acknowledged(n) == durable' = IF n > durable THEN n ELSE durable

EndTurn(reason) ==
  /\ log' = log \o (IF at \in {"request", "answer", "tools"} THEN <<StepEnd>> ELSE <<>>)
                \o <<TurnEnd(Turn, reason)>>
  /\ at' = "idle"
  /\ AtRest

---------------------------------------------------------------------------
(* The inbox and the signal.                                               *)

Insert(m) ==
  /\ at # "down" /\ m \notin Logged("inserted")
  /\ log' = Append(log, Inserted(m))
  /\ UNCHANGED <<durable, at, agent, aborted, world>>

Withdraw(m) ==
  /\ at # "down" /\ m \in Pending(log)
  /\ log' = Append(log, Canceled(m))
  /\ UNCHANGED <<durable, at, agent, aborted, world>>

Abort ==
  /\ at \notin {"idle", "down"} /\ ~aborted
  /\ aborted' = TRUE
  /\ UNCHANGED <<log, durable, at, agent, world>>

\* Inbox.claim: all of next-step, and one queued prompt when a turn opens;
\* each list is a deletion of its own.  The pre-step flush follows.
Claim(events, prompts) ==
  LET steering  == Pending(log) \cap Steering
      deleted(ms) == IF ms = {} THEN <<>> ELSE <<Claimed(ms)>>
  IN /\ batch' = steering \cup prompts
     /\ log' = log \o events \o deleted(steering) \o deleted(prompts)
     /\ mark' = Len(log')
     /\ at' = "pre-step"

---------------------------------------------------------------------------
(* The turn.                                                               *)

OpenTurn ==
  /\ at = "idle" /\ Turn < MaxTurns
  /\ LET prompts == Pending(log) \ Steering IN
     \E ms \in IF prompts = {} THEN {{}} ELSE {{m} : m \in prompts} :
        Claim(<<TurnStart(Turn + 1)>>, ms)
  /\ UNCHANGED <<durable, step, ends, calls, state, aborted, world>>

\* The waterfall returns: a listener may have taken messages away.  An empty
\* proposal ends the turn, unless it follows a step that asks for another.
PreStep ==
  /\ at = "pre-step" /\ ~aborted
  /\ Acknowledged(mark)
  /\ \E lost \in SUBSET batch :
        /\ rewritten' = rewritten \cup lost
        /\ LET kept == SetToSeq(batch \ lost) IN
           IF kept = <<>> /\ (ends # "none" \/ step = 0)
           THEN EndTurn(IF ends = "none" THEN "completed" ELSE ends)
           ELSE /\ log' = log \o <<StepStart(Turn)>>
                              \o [k \in DOMAIN kept |-> User(kept[k])]
                /\ at' = "request" /\ step' = step + 1
                /\ batch' = {} /\ mark' = Len(log')
                /\ UNCHANGED <<ends, calls, state, aborted>>
  /\ UNCHANGED <<ran, sent, dropped, crashes>>

Reject ==
  /\ at = "pre-step" /\ ~aborted
  /\ Acknowledged(mark)
  /\ EndTurn("blocked")
  /\ UNCHANGED world

\* afterCheckpoint: the prefix of the request is stored before it is sent.
SendCheckpoint(n) == Acknowledged(n)

Send ==
  /\ at = "request"
  /\ SendCheckpoint(mark)
  /\ sent' = sent \cup Transcript(log)
  /\ at' = "answer"
  /\ UNCHANGED <<log, agent, aborted, ran, rewritten, dropped, crashes>>

\* The request failed and a listener asks for another attempt.
Retry ==
  /\ at = "answer" /\ ~aborted
  /\ at' = "request" /\ mark' = Len(log)
  /\ UNCHANGED <<log, durable, step, ends, batch, calls, state, aborted, world>>

\* max-tokens is sticky over the later steps of a turn.
Ends(stepEnd) == IF ends = "max-tokens" THEN ends ELSE stepEnd

\* The step is over: its input is claimed, or the turn's stopping announced.
AfterStep(events, stepEnd) ==
  /\ ends' = Ends(stepEnd)
  /\ calls' = <<>> /\ state' = NoCalls
  /\ IF ends' # "none" /\ Pending(log) \cap Steering = {}
     THEN /\ log' = log \o events \o <<StepEnd>>
          /\ at' = "stopping"
          /\ UNCHANGED <<batch, mark>>
     ELSE /\ step < MaxSteps
          /\ Claim(events \o <<StepEnd>>, {})
  /\ UNCHANGED <<durable, step, aborted, world>>

Asked == UNION {Range(log[k].calls) : k \in Events(log, "assistant/message")}

Answer ==
  /\ at = "answer" /\ ~aborted
  /\ \/ \E stepEnd \in {"completed", "max-tokens"} : AfterStep(<<Assistant(<<>>)>>, stepEnd)
     \/ \E cs \in SetToAllKPermutations(Calls \ (Asked \cup ran)) \ {<<>>} :
           /\ log' = Append(log, Assistant(cs))
           /\ calls' = cs /\ at' = "tools"
           /\ UNCHANGED <<durable, step, ends, batch, mark, state, aborted, world>>

\* turn-stopping has returned; a listener may have steered in it.
Stopped ==
  /\ at = "stopping" /\ ~aborted
  /\ IF Pending(log) \cap Steering = {}
     THEN /\ EndTurn(ends)
          /\ UNCHANGED <<durable, world>>
     ELSE /\ step < MaxSteps
          /\ Claim(<<>>, {})
          /\ UNCHANGED <<durable, step, ends, calls, state, aborted, world>>

\* The signal, seen once the suspension is over.
Aborted ==
  /\ at \in {"pre-step", "request", "answer", "stopping"} /\ aborted
  /\ EndTurn("aborted")
  /\ UNCHANGED <<durable, world>>

\* A rejected flush, a failed request, a listener that throws.
Fail ==
  /\ at \in {"pre-step", "request", "answer", "stopping"} /\ ~aborted
  /\ EndTurn("error")
  /\ UNCHANGED <<durable, world>>

---------------------------------------------------------------------------
(* The tool calls of a step.  Starts and commits keep the model's order.   *)

Started   == DOMAIN state
Settled(c) == state[c].is = "settled"
Move(c, how) == state' = [state EXCEPT ![c].is = how]

Committed(c) == c \in Started /\ state[c].is = "committed"

\* The calls of the step before call k satisfy P.
Before(k, P(_)) == \A j \in 1 .. k - 1 : P(calls[j])

StartCall(k) ==
  /\ at = "tools" /\ ~aborted
  /\ k \in DOMAIN calls /\ calls[k] \notin Started
  /\ Before(k, LAMBDA c : c \in Started)
  /\ log' = Append(log, Call(calls[k]))
  /\ state' = (calls[k] :> [is |-> "started", mark |-> Len(log')]) @@ state
  /\ UNCHANGED <<durable, at, step, ends, batch, mark, calls, aborted, world>>

\* A bug: the body runs while its call is being stored.
RunAtOnce(n) == UNCHANGED durable

RunCheckpoint(n) == Acknowledged(n)

\* tools/execute: the call is stored and nobody aborted meanwhile.
Run(c) ==
  /\ c \in Started /\ state[c].is = "started" /\ ~aborted
  /\ RunCheckpoint(state[c].mark)
  /\ Move(c, "ran")
  /\ ran' = ran \cup {c}
  /\ UNCHANGED <<log, at, step, ends, batch, mark, calls, aborted, sent, rewritten,
                 dropped, crashes>>

\* The body returned; or it never ran, for the abort or a rejected flush.
Settle(c) ==
  /\ c \in Started /\ state[c].is \in {"started", "ran"}
  /\ Move(c, "settled")
  /\ UNCHANGED <<log, durable, at, step, ends, batch, mark, calls, aborted, world>>

Commit(k) ==
  /\ k \in DOMAIN calls /\ calls[k] \in Started /\ Settled(calls[k])
  /\ Before(k, Committed)
  /\ log' = Append(log, Result(calls[k], "real"))
  /\ Move(calls[k], "committed")
  /\ UNCHANGED <<durable, at, step, ends, batch, mark, calls, aborted, world>>

\* An abort leaves each call that was not started a call and a result.
Skipped ==
  LET rest == SelectSeq(calls, LAMBDA c : c \notin Started)
  IN FoldLeft(LAMBDA s, c : s \o <<Call(c), Result(c, "skipped")>>, <<>>, rest)

ToolsDone ==
  /\ at = "tools" /\ \A c \in Started : Committed(c)
  /\ \/ /\ aborted
        /\ log' = log \o Skipped \o <<StepEnd, TurnEnd(Turn, "aborted")>>
        /\ at' = "idle" /\ AtRest
        /\ UNCHANGED <<durable, world>>
     \/ /\ ~aborted /\ Started = Range(calls)
        /\ \E concluded \in BOOLEAN :
              AfterStep(<<>>, IF concluded THEN "completed" ELSE "none")

\* The scheduler fails: a start, a dispatch, a finalizer or an append rejects.  What was
\* started settles and nothing more is committed: recorded calls stay without results.
SchedulerFails ==
  /\ at = "tools" /\ \A c \in Started : Settled(c) \/ Committed(c)
  /\ dropped' = dropped \cup {c \in Range(calls) : ~Committed(c)}
  /\ EndTurn(IF aborted THEN "aborted" ELSE "error")
  /\ UNCHANGED <<durable, ran, sent, rewritten, crashes>>

---------------------------------------------------------------------------
(* Crash and restore.                                                      *)

\* The step that asked for the call is in the log, and so is its end.
StepIsClosed(whole, c) ==
  \E k \in Events(whole, "assistant/message") :
     /\ c \in Range(whole[k].calls)
     /\ NextAfter(whole, k, LAMBDA e : e.type = "step/end") # 0

\* The process dies; storage keeps what it acknowledged, and maybe more.
Cut(whole, least) ==
  /\ crashes < MaxCrashes
  /\ crashes' = crashes + 1
  /\ \E k \in least .. Len(whole) :
        /\ log' = SubSeq(whole, 1, k)
        /\ durable' = k
  /\ rewritten' = rewritten \ Pending(log')
  /\ dropped' = {c \in dropped : StepIsClosed(log', c)}
  /\ at' = "down"
  /\ AtRest
  /\ UNCHANGED <<ran, sent>>

Crash == at # "down" /\ Cut(log, durable)

CrashInRepair == at = "down" /\ Cut(log \o Closers(log), Len(log))

Restore ==
  /\ at = "down"
  /\ log' = log \o Closers(log)
  /\ durable' = Len(log')
  /\ at' = "idle"
  /\ UNCHANGED <<agent, aborted, world>>

---------------------------------------------------------------------------
Next ==
  \/ \E m \in Messages : Insert(m) \/ Withdraw(m)
  \/ Abort
  \/ OpenTurn \/ PreStep \/ Reject \/ Send \/ Retry \/ Answer \/ Stopped
  \/ Aborted \/ Fail
  \/ \E k \in DOMAIN calls : StartCall(k) \/ Commit(k)
  \/ \E c \in Calls : Run(c) \/ Settle(c)
  \/ ToolsDone \/ SchedulerFails
  \/ Crash \/ CrashInRepair \/ Restore

Spec == Init /\ [][Next]_vars

---------------------------------------------------------------------------
(* Properties.                                                             *)

\* A call whose body ran is in the log, so no repair says that it was not
\* started and may be retried (repair.ts: "outcome unknown").
NeverRetryDone ==
  \A c \in ran :
     /\ \E k \in Events(log, "tool/call") : log[k].call = c
     /\ \A k \in Events(log, "tool/result") :
           log[k].call = c => log[k].how # "notStarted"

\* What a model request carried out is in the log, whatever was cut.
SeenIsKept == sent \subseteq Transcript(log)

\* The turn that was open at position k, and how it ended.
EndOf(k) ==
  LET n == NextAfter(log, k, LAMBDA e : e.type = "turn/end")
  IN IF n = 0 THEN "open" ELSE log[n].reason

\* Between turns every message that was accepted is pending, in the
\* transcript, cancelled or taken away by a listener; or else it was claimed
\* by a turn whose ending says that its work was not done.
InputIsAccounted ==
  at = "idle" =>
    \A m \in Logged("inserted") :
      \/ m \in Pending(log) \cup Transcript(log) \cup Logged("canceled") \cup rewritten
      \/ \E k \in Events(log, "claimed") :
            m \in log[k].messages /\ EndOf(k) \notin {"completed", "max-tokens"}

\* Between turns the turns and steps of the log are closed, and every requested call has
\* exactly one result.  Only a scheduler failure leaves calls without one, and then the
\* turn says that its work was not done (tool-calls.ts:8).  No append is refused here.
Balanced == at = "idle" => IsBalanced(log, dropped)

\* The one-pass account of consumed work is what the positions say.
AccountIsReference == ConsumedWork(log) = ReferenceWork(log)

\* A repair that was cut short is completed by the next one.
RepairResumes ==
  at = "down" =>
    LET closers == Closers(log) IN
    \A n \in 0 .. Len(closers) :
       Closers(log \o SubSeq(closers, 1, n)) = SubSeq(closers, n + 1, Len(closers))
=============================================================================
