------------------------------ MODULE Schedule ------------------------------
(* Durable reminders of one root agent (packages/schedule/schedule/src):   *)
(* the session log owns them, and a runtime projects it onto timers and    *)
(* follow-ups.  The tools and the runtime's drives go through one queue,   *)
(* and every decision is made from the log after a flush of it.            *)
(*                                                                         *)
(* A timer is only a hint: the wall clock may be set back, and a long wait *)
(* is cut in segments, so an armed timer fires at any time.                *)
EXTENDS Integers, Sequences, FiniteSets

CONSTANTS Rules,    \* what a create asks for: a delay or an instant, and the interval
          Horizon,  \* the last representable instant
          MaxCalls, \* bound: tool calls
          MaxTurns, \* bound: turns the user starts
          MaxFails, \* bound: failures of a flush, an append or the follow-up
          MaxLives, \* bound: lives of the agent, between crashes
          MaxBack   \* bound: steps of the clock back

VARIABLES log,      \* the session's schedule and inbox events
          durable,  \* length of its stored prefix
          now, timer,
          chain,    \* transactions in the agent's queue
          stage,    \* where its head is
          mark,     \* the log its head flushes
          run,      \* the runtime's run: "no", "going" or "retiring"
          requested, stopping, faulted,
          waits,    \* the wait for an idle agent
          phase,    \* what the agent is at: a reminder parks until maintenance ends
          told,     \* history: the mutations confirmed to the model
          spent

queue   == <<chain, stage, mark>>
runtime == <<timer, run, requested>>
vars    == <<log, durable, now, queue, runtime, stopping, faulted, waits, phase, told, spent>>

Ids == 1 .. MaxCalls
Spend(what) == spent' = [spent EXCEPT ![what] = @ + 1]
MayFail == spent.fails < MaxFails
DriveJob == [op |-> "drive"]

-----------------------------------------------------------------------------
(* The fold of the log *)

\* resolveEveryOccurrence: the latest aligned instant that is due, and the first after it.
Occurrence(r, at) ==
  LET last == r.time + ((at - r.time) \div r.every) * r.every
  IN [occurrence |-> last, next |-> last + r.every]

\* A bug: the next target is one interval on, over occurrences that were missed.
OneStep(r, at) ==
  IF r.every = 0 THEN {} ELSE {[r EXCEPT !.time = n] : n \in {r.time + r.every} \cap 0 .. Horizon}

\* One-shots leave when dispatched; a repeating one moves on while it is representable.
Dispatched(r, at) ==
  IF r.every = 0 THEN {}
  ELSE {[r EXCEPT !.time = n] : n \in {Occurrence(r, at).next} \cap 0 .. Horizon}

Apply(f, e) ==
  LET of == {r \in f.active : r.id = e.id} IN
  CASE e.op = "remind" -> f
    [] e.op = "create" ->
         [ok |-> f.ok /\ e.id \notin f.seen, seen |-> f.seen \cup {e.id},
          active |-> f.active \cup {[id |-> e.id, every |-> e.every, time |-> e.time]}]
    [] e.op = "delete" -> [f EXCEPT !.ok = @ /\ of # {}, !.active = @ \ of]
    [] OTHER -> [f EXCEPT !.ok = @ /\ of # {} /\ \A r \in of : r.every # 0 => r.time <= e.time,
                          !.active = (@ \ of) \cup UNION {Dispatched(r, e.time) : r \in of}]

Nothing == [ok |-> TRUE, seen |-> {}, active |-> {}]

Fold(events) ==
  LET upTo[n \in 0 .. Len(events)] ==
        IF n = 0 THEN Nothing ELSE Apply(upTo[n - 1], events[n])
  IN upTo[Len(events)]

Active == Fold(log).active

-----------------------------------------------------------------------------
(* The due decision *)

Due == {r \in Active : r.time <= now}

\* Records sort by target, then in creation order.
Before(r, s) == r.time < s.time \/ (r.time = s.time /\ r.id < s.id)

\* The first due one-shot, else every due repeating record.
Selected ==
  LET shots == {r \in Due : r.every = 0}
  IN IF shots = {} THEN Due ELSE {r \in shots : \A s \in shots \ {r} : Before(r, s)}

Items(records) ==
  {[id |-> r.id, occurrence |-> IF r.every = 0 THEN r.time ELSE Occurrence(r, now).occurrence]
     : r \in records}

\* One message holds the whole selection; a dispatch is appended for each record of it.
Remind(records) == [op |-> "remind", id |-> 0, items |-> Items(records)]
Dispatch(r)     == [op |-> "dispatch", id |-> r.id, time |-> IF r.every = 0 THEN 0 ELSE now]
InOrder(records) ==
  {s \in [1 .. Cardinality(records) -> records] :
     /\ {s[i] : i \in DOMAIN s} = records
     /\ \A i, j \in DOMAIN s : i < j => Before(s[i], s[j])}

Admissions(records) ==
  {<<Remind(records)>> \o [i \in DOMAIN s |-> Dispatch(s[i])] : s \in InOrder(records)}

-----------------------------------------------------------------------------
TypeOK ==
  /\ \A i \in DOMAIN log : log[i].op \in {"create", "delete", "remind", "dispatch"}
  /\ durable \in 0 .. Len(log) /\ now \in 0 .. Horizon /\ timer \in BOOLEAN
  /\ \A i \in DOMAIN chain : chain[i].op \in {"drive", "create", "delete", "list"}
  /\ stage \in {"wait", "pre", "maint", "post"} /\ mark \in 0 .. Len(log)
  /\ run \in {"no", "going", "retiring"} /\ requested \in BOOLEAN
  /\ stopping \in BOOLEAN /\ faulted \in BOOLEAN /\ waits \in BOOLEAN
  /\ phase \in {"idle", "turn", "maintenance"}
  /\ told \subseteq [op : {"create", "delete"}, id : Nat]
  /\ Cardinality({i \in DOMAIN chain : chain[i] = DriveJob}) <= 1
  /\ (run = "going") = (\E i \in DOMAIN chain : chain[i] = DriveJob)

Init ==
  /\ log = <<>> /\ durable = 0 /\ now = 0 /\ timer = FALSE
  /\ chain = <<DriveJob>> /\ stage = "wait" /\ mark = 0 /\ run = "going" /\ requested = FALSE
  /\ stopping = FALSE /\ faulted = FALSE /\ waits = FALSE
  /\ phase = "idle" /\ told = {}
  /\ spent = [calls |-> 0, turns |-> 0, fails |-> 0, lives |-> 1, back |-> 0]

-----------------------------------------------------------------------------
(* Driving *)

\* requestDrive, on a queue that is c: starts a run, or asks the running one for another pass.
RequestDrive(c) ==
  IF stopping \/ faulted THEN chain' = c /\ UNCHANGED runtime
  ELSE /\ timer' = FALSE
       /\ IF run = "no" THEN /\ chain' = Append(c, DriveJob)
                             /\ run' = "going" /\ requested' = FALSE
                        ELSE /\ chain' = c
                             /\ requested' = TRUE /\ UNCHANGED run

\* A drive settles: its run goes on with the next requested one, or ends.
EndDrive(again, fault) ==
  /\ stage' = "wait" /\ UNCHANGED mark
  /\ IF again /\ ~stopping /\ ~fault
     THEN chain' = Append(Tail(chain), DriveJob) /\ requested' = FALSE /\ UNCHANGED run
     ELSE chain' = Tail(chain) /\ run' = "retiring" /\ UNCHANGED requested

\* The run's promise has settled: a request of the last microtask starts another run.
Retire ==
  /\ run = "retiring"
  /\ IF requested /\ ~stopping /\ ~faulted
     THEN /\ timer' = FALSE /\ requested' = FALSE
          /\ chain' = Append(chain, DriveJob) /\ run' = "going"
     ELSE run' = "no" /\ UNCHANGED <<chain, timer, requested>>
  /\ UNCHANGED <<log, durable, now, stage, mark, stopping, faulted, waits, phase, told, spent>>

\* A stale target armed, or the timer cut short: the drive decides again.
TimerFires ==
  /\ timer
  /\ RequestDrive(chain)
  /\ UNCHANGED <<log, durable, now, stage, mark, stopping, faulted, waits, phase, told, spent>>

\* A bug: the preflight takes what is stored for the log.
PreflightStored == stage' = "pre" /\ mark' = durable

\* flushSchedulePersistence before a decision, and after what it appends.
Preflight == stage' = "pre" /\ mark' = Len(log)

Barrier == stage' = "post" /\ mark' = Len(log')

\* The head transaction begins with a flush; a stopped drive or a cancelled call is over.
Begin ==
  /\ chain # <<>> /\ stage = "wait"
  /\ \/ /\ ~(Head(chain) = DriveJob /\ stopping)
        /\ Preflight
        /\ UNCHANGED <<chain, run, requested>>
     \/ /\ Head(chain) = DriveJob /\ stopping
        /\ EndDrive(requested, faulted)
     \/ /\ Head(chain) # DriveJob
        /\ chain' = Tail(chain) /\ UNCHANGED <<stage, mark, run, requested>>
  /\ timer' = (timer /\ Head(chain) # DriveJob)
  /\ UNCHANGED <<log, durable, now, stopping, faulted, waits, phase, told, spent>>

Flushed(at) == chain # <<>> /\ stage = at /\ durable >= mark

\* The write-behind stores the next event.
Persist ==
  /\ durable < Len(log) /\ durable' = durable + 1
  /\ UNCHANGED <<log, now, queue, runtime, stopping, faulted, waits, phase, told, spent>>

\* A rejected flush ends a drive without a timer, and a call without a confirmation.
FlushFails ==
  /\ chain # <<>> /\ stage \in {"pre", "post"} /\ MayFail /\ Spend("fails")
  /\ IF Head(chain) = DriveJob THEN EndDrive(requested, faulted)
     ELSE chain' = Tail(chain) /\ stage' = "wait" /\ UNCHANGED <<mark, run, requested>>
  /\ UNCHANGED <<log, durable, now, timer, stopping, faulted, waits, phase, told>>

\* What the claimed task queues and appends; an append that fails leaves its predecessors.
Claim(events, failed) ==
  /\ log' = log \o events /\ phase' = "maintenance"
  /\ stage' = "maint" /\ faulted' = failed /\ timer' = (timer /\ ~failed)
  /\ UNCHANGED <<mark, chain, run, requested, waits>>

\* driveOnce after its preflight: arm, wait for an idle agent, or remind.
Drive ==
  /\ Flushed("pre") /\ Head(chain) = DriveJob
  /\ \/ /\ stopping \/ Due = {}
        /\ timer' = (timer \/ (~stopping /\ Active # {}))
        /\ EndDrive(requested, faulted) /\ UNCHANGED <<log, faulted, waits, phase, spent>>
     \/ /\ ~stopping /\ Due # {} /\ phase # "idle"
        /\ waits' = TRUE
        /\ EndDrive(requested, faulted) /\ UNCHANGED <<log, timer, faulted, phase, spent>>
     \/ /\ ~stopping /\ Due # {} /\ phase = "idle"
        /\ \E all \in Admissions(Selected) :
           \/ Claim(all, FALSE) /\ UNCHANGED spent
           \/ /\ MayFail /\ Spend("fails")
              /\ \E k \in 1 .. Len(all) - 1 : Claim(SubSeq(all, 1, k), TRUE)
           \/ /\ MayFail /\ Spend("fails") \* the follow-up throws
              /\ EndDrive(requested, faulted) /\ UNCHANGED <<log, timer, faulted, waits, phase>>
  /\ UNCHANGED <<durable, now, stopping, told>>

\* The released phase opens the turn of the parked reminder, and the drive flushes again.
MaintenanceEnds ==
  /\ stage = "maint" /\ phase' = "turn" /\ UNCHANGED log
  /\ IF faulted THEN EndDrive(requested, TRUE)
     ELSE Barrier /\ UNCHANGED <<chain, run, requested>>
  /\ UNCHANGED <<durable, now, timer, stopping, faulted, waits, told, spent>>

DriveStored ==
  /\ Flushed("post") /\ Head(chain) = DriveJob
  /\ timer' = (timer /\ stopping)
  /\ EndDrive(TRUE, faulted)
  /\ UNCHANGED <<log, durable, now, stopping, faulted, waits, phase, told, spent>>

IdleWaitEnds ==
  /\ waits /\ (phase = "idle" \/ stopping)
  /\ waits' = FALSE /\ RequestDrive(chain)
  /\ UNCHANGED <<log, durable, now, stage, mark, stopping, faulted, phase, told, spent>>

-----------------------------------------------------------------------------
(* The tools *)

StartCall(call) ==
  /\ phase = "turn" /\ ~stopping /\ spent.calls < MaxCalls
  /\ chain' = Append(chain, call) /\ Spend("calls")
  /\ UNCHANGED <<log, durable, now, stage, mark, runtime, stopping, faulted, waits, phase, told>>

Creates == {[op |-> "create", rule |-> rule] : rule \in Rules}
Deletes == {[op |-> "delete", id |-> i] : i \in Ids}
List    == [op |-> "list"]

\* allocateScheduleId: ids are numbered, and none is used twice.
FreshId == Cardinality(Fold(log).seen) + 1

\* futureInstant: a target that is not in the future, or not representable, is refused.
Target(rule) == IF rule.at > 0 THEN rule.at ELSE now + rule.delay

\* What a call appends once its preflight has passed: nothing when it is refused.
Changes(call) ==
  CASE call.op = "create" ->
         {[op |-> "create", id |-> FreshId, every |-> call.rule.every, time |-> t]
            : t \in {Target(call.rule)} \cap now + 1 .. Horizon}
    [] call.op = "delete" ->
         {[op |-> "delete", id |-> r.id] : r \in {r \in Active : r.id = call.id}}
    [] OTHER -> {}

\* A call after its preflight: the runtime recomputes, and the call appends or is over
\* (a list, a refusal, a late cancellation, an append that throws).
Decide ==
  /\ Flushed("pre") /\ Head(chain) # DriveJob
  /\ \/ /\ stage' = "wait" /\ RequestDrive(Tail(chain)) /\ UNCHANGED <<log, mark>>
     \/ \E e \in Changes(Head(chain)) :
          /\ log' = Append(log, e)
          /\ Barrier
          /\ RequestDrive(chain)
  /\ UNCHANGED <<durable, now, stopping, faulted, waits, phase, told, spent>>

\* The change is stored: it is confirmed, and the runtime recomputes.
Confirm ==
  /\ Flushed("post") /\ Head(chain) # DriveJob
  /\ told' = told \cup {[op |-> log[Len(log)].op, id |-> log[Len(log)].id]}
  /\ stage' = "wait" /\ RequestDrive(Tail(chain))
  /\ UNCHANGED <<log, durable, now, mark, stopping, faulted, waits, phase, spent>>

-----------------------------------------------------------------------------
(* The agent, the clock, disposal and crashes *)

UserTurn ==
  /\ phase = "idle" /\ spent.turns < MaxTurns
  /\ phase' = "turn" /\ Spend("turns")
  /\ UNCHANGED <<log, durable, now, queue, runtime, stopping, faulted, waits, told>>

\* A turn ends after its calls, with an idle status for the runtime.
EndTurn ==
  /\ phase = "turn" /\ \A i \in DOMAIN chain : chain[i] = DriveJob
  /\ phase' = "idle"
  /\ IF Fold(log).seen = {} THEN UNCHANGED <<chain, runtime>> ELSE RequestDrive(chain)
  /\ UNCHANGED <<log, durable, now, stage, mark, stopping, faulted, waits, told, spent>>

Tick ==
  /\ now < Horizon /\ now' = now + 1
  /\ UNCHANGED <<log, durable, queue, runtime, stopping, faulted, waits, phase, told, spent>>

SetBack ==
  /\ spent.back < MaxBack /\ Spend("back")
  /\ \E t \in 0 .. now - 1 : now' = t
  /\ UNCHANGED <<log, durable, queue, runtime, stopping, faulted, waits, phase, told>>

\* The plugin or the agent goes: no tools, no timer, and no further drive.
Dispose ==
  /\ ~stopping /\ stopping' = TRUE
  /\ requested' = FALSE /\ timer' = FALSE
  /\ UNCHANGED <<log, durable, now, queue, run, faulted, waits, phase, told, spent>>

\* A crash keeps a prefix of the log; the resumed agent has a new runtime.
Crash ==
  /\ spent.lives < MaxLives /\ Spend("lives")
  /\ \E k \in durable .. Len(log) : log' = SubSeq(log, 1, k) /\ durable' = k
  /\ chain' = <<DriveJob>> /\ stage' = "wait" /\ mark' = 0
  /\ run' = "going" /\ requested' = FALSE /\ timer' = FALSE
  /\ stopping' = FALSE /\ faulted' = FALSE /\ waits' = FALSE /\ phase' = "idle"
  /\ UNCHANGED <<now, told>>

Runtime == Begin \/ Drive \/ MaintenanceEnds \/ DriveStored \/ Decide \/ Confirm
             \/ Retire \/ IdleWaitEnds
Next ==
  \/ Runtime \/ TimerFires \/ Persist \/ FlushFails
  \/ \E call \in Creates \cup Deletes \cup {List} : StartCall(call)
  \/ UserTurn \/ EndTurn \/ Tick \/ SetBack \/ Dispose \/ Crash

Spec == Init /\ [][Next]_vars

(* Something that is ready happens: a queued transaction, an answer of     *)
(* storage, the end of a turn.  Time passes, and an armed timer fires.     *)
Progress == Runtime \/ Persist \/ EndTurn
Fairness == WF_vars(Progress) /\ WF_vars(Tick) /\ WF_vars(TimerFires)
FairSpec == Spec /\ Fairness

-----------------------------------------------------------------------------
(* Properties *)

\* Whatever interleaves, fails or crashes, the log always folds: no delete or dispatch
\* of an inactive record, no reused id, no dispatch before its target (domain.ts:575).
FoldsClean == Fold(log).ok

\* Every dispatch in the log, and so in every stored prefix, has a reminder of exactly
\* the occurrence it retires before it: a crash repeats a reminder and never loses one.
RemindedFirst ==
  \A i \in DOMAIN log : log[i].op = "dispatch" =>
    \A r \in {r \in Fold(SubSeq(log, 1, i - 1)).active : r.id = log[i].id} :
      LET occurrence == IF r.every = 0 THEN r.time ELSE Occurrence(r, log[i].time).occurrence
      IN \E j \in 1 .. i - 1 : /\ log[j].op = "remind"
                               /\ [id |-> r.id, occurrence |-> occurrence] \in log[j].items

\* One life reminds of an occurrence once, through rollbacks of the clock, partial
\* batches and failed appends; only a crash before the dispatch is stored repeats it.
RemindedOnce ==
  LET reminders == {i \in DOMAIN log : log[i].op = "remind"} IN
  \A i \in reminders : \A item \in log[i].items :
    Cardinality({j \in reminders : item \in log[j].items}) <= spent.lives

\* A create or delete that the model was told of is in every log a crash can leave.
ConfirmedIsStored ==
  \A m \in told : \E i \in 1 .. durable : log[i].op = m.op /\ log[i].id = m.id

\* A step decides nothing over an unstored log: what is appended follows a stored prefix.
DecidesFromStored == Len(log') > Len(log) => durable = Len(log)

\* A due record is served: it is dispatched or deleted (only that, or a
\* rollback, makes it not due), unless the runtime is disposed (runtime.ts:240) and
\* unless something failed: a rejected preflight or follow-up waits for the next wake.
OverdueIsServed ==
  \A i \in Ids :
    (\E r \in Due : r.id = i) ~> (stopping \/ spent.fails > 0 \/ ~\E r \in Due : r.id = i)
=============================================================================
