--------------------------- MODULE ToolScheduler ---------------------------
(***************************************************************************)
(* The scheduler of one assistant step's tool calls                        *)
(* (packages/core/agent-loop/src/tool-calls.ts): exclusive calls are       *)
(* barriers, parallel calls share a bounded pool, results are committed in *)
(* model order.                                                            *)
(*                                                                         *)
(* The scheduler is one async function, suspended at the awaits that pc    *)
(* names; an action is what it does between two of them.  Tools settle or  *)
(* fail, the signal is aborted and the registry changes the mode of calls  *)
(* while it is suspended.                                                  *)
(***************************************************************************)
EXTENDS Naturals, Sequences, FiniteSets

CONSTANTS
  NumCalls,     \* tool calls of the step
  MaxParallel   \* the setting maxParallelToolCalls

ASSUME NumCallsAssumption == NumCalls \in Nat \ {0}
ASSUME MaxParallelAssumption == MaxParallel \in Nat \ {0}

Calls == 1..NumCalls
Modes == {"parallel", "exclusive"}

VARIABLES
  mode,       \* executionMode of each call: as the registry has it now, or
              \* had it when the call started
  group,      \* mode of the current group
  first,      \* calls consumed before it: planned.slice(first) remain
  started,    \* calls whose tool/call is recorded
  committed,  \* calls whose tool/result is recorded
  status,     \* status[i]: see Statuses
  inFlight,   \* dispatched calls the race has not returned yet
  failure,    \* schedulerFailure is set
  aborted,    \* the step's abort signal
  pc,         \* where the scheduler is suspended
  log         \* tool/call and tool/result events

poolVars == <<status, inFlight>>
planVars == <<group, first>>
vars == <<mode, group, first, started, committed, status, inFlight, failure,
          aborted, pc, log>>

(* A call waits, is in its pre-execute policy, runs, has a result that is  *)
(* not committed yet, broke the scheduler, is answered, or was skipped.    *)
Statuses == {"waiting", "preparing", "running", "settled", "broken", "answered", "skipped"}
Ended == {"returned", "rejected"}

Event(kind, i) == [kind |-> kind, call |-> i]

Init ==
  /\ mode \in [Calls -> Modes]
  /\ group = "exclusive" /\ first = 0 /\ started = 0 /\ committed = 0
  /\ status = [i \in Calls |-> "waiting"] /\ inFlight = {}
  /\ failure = FALSE /\ aborted = FALSE
  /\ pc = "nextGroup" /\ log = <<>>

---------------------------------------------------------------------------
(* What happens while the scheduler is suspended.                          *)

Abort ==
  /\ pc \notin Ended /\ ~aborted
  /\ aborted' = TRUE
  /\ UNCHANGED <<mode, planVars, started, committed, poolVars, failure, pc, log>>

(* The tool registry changes: a call that has not started may change mode. *)
Reclassify(i) ==
  /\ pc \notin Ended /\ i > started
  /\ \E m \in Modes \ {mode[i]} : mode' = [mode EXCEPT ![i] = m]
  /\ UNCHANGED <<planVars, started, committed, poolVars, failure, aborted, pc, log>>

DispatchSettles(i) ==
  /\ status[i] = "running"
  /\ status' = [status EXCEPT ![i] = "settled"]
  /\ UNCHANGED <<mode, planVars, started, committed, inFlight, failure, aborted, pc, log>>

DispatchFails(i) ==
  /\ status[i] = "running"
  /\ status' = [status EXCEPT ![i] = "broken"]
  /\ failure' = TRUE
  /\ UNCHANGED <<mode, planVars, started, committed, inFlight, aborted, pc, log>>

---------------------------------------------------------------------------
(* Starting calls.                                                         *)

StartCall ==
  /\ started' = started + 1
  /\ status' = [status EXCEPT ![started + 1] = "preparing"]
  /\ log' = Append(log, Event("call", started + 1))
  /\ pc' = "prepare"
  /\ UNCHANGED <<mode, committed, inFlight, failure, aborted>>

(* After an abort every call not started is recorded with an error result, *)
(* those of the group and those behind it.                                 *)
SkipRest ==
  /\ log' = log \o [k \in 1..(2 * (NumCalls - started)) |->
                      Event(IF k % 2 = 1 THEN "call" ELSE "result", started + (k + 1) \div 2)]
  /\ status' = [i \in Calls |-> IF i > started THEN "skipped" ELSE status[i]]
  /\ pc' = "returned"
  /\ UNCHANGED <<mode, planVars, started, committed, inFlight, failure, aborted>>

(* The loop of executeToolCalls: the first remaining call decides whether  *)
(* the group is that call or every remaining one.                          *)
NextGroup ==
  /\ pc = "nextGroup"
  /\ \/ /\ started = NumCalls
        /\ pc' = "returned"
        /\ UNCHANGED <<mode, planVars, started, committed, poolVars, failure, aborted, log>>
     \/ started < NumCalls /\ aborted /\ SkipRest
     \/ /\ started < NumCalls /\ ~aborted
        /\ group' = mode[started + 1] /\ first' = started
        /\ StartCall

GroupEnd == IF group = "parallel" THEN NumCalls ELSE first + 1

(* Wrong: the pool is filled past its limit.                               *)
HasRoomForOneMore == Cardinality(inFlight) <= MaxParallel

HasRoom == Cardinality(inFlight) < MaxParallel

(* Wrong: a later call joins the pool whatever its mode has become.        *)
JoinsUnchecked == TRUE

(* A later call of a parallel group is classified again before it starts.  *)
Joins == started > first /\ group = "parallel" => mode[started + 1] = "parallel"

(* Wrong: replenishment does not look at the signal.                       *)
NeverStops == FALSE

(* The signal is read after every await, right before the pool is filled.  *)
Stops == aborted

MayStart == ~Stops /\ started < GroupEnd /\ HasRoom /\ Joins

FillPool ==
  \/ MayStart /\ StartCall /\ UNCHANGED planVars
  \/ /\ ~MayStart
     /\ \/ /\ inFlight # {}
           /\ pc' = "race"
           /\ UNCHANGED <<mode, planVars, started, committed, poolVars, failure, aborted, log>>
        \/ inFlight = {} /\ aborted /\ SkipRest
        \/ /\ inFlight = {} /\ ~aborted
           /\ pc' = "nextGroup"
           /\ UNCHANGED <<mode, planVars, started, committed, poolVars, failure, aborted, log>>

(* A failure seen anywhere: stop, and await what is in flight.             *)
ThrowFailure ==
  /\ failure' = TRUE /\ pc' = "drain"
  /\ UNCHANGED <<mode, planVars, started, committed, aborted, log>>

(* The pre-execute policy lets the call be dispatched, or answers it.      *)
Prepared ==
  /\ pc = "prepare" /\ ~failure
  /\ pc' = "commit"
  /\ \/ /\ status' = [status EXCEPT ![started] = "running"]
        /\ inFlight' = inFlight \cup {started}
     \/ /\ status' = [status EXCEPT ![started] = "settled"]
        /\ UNCHANGED inFlight
  /\ UNCHANGED <<mode, planVars, started, committed, failure, aborted, log>>

(* The policy failed, or a dispatched call broke while it was awaited.     *)
PrepareThrows ==
  /\ pc = "prepare"
  /\ ThrowFailure
  /\ UNCHANGED poolVars

---------------------------------------------------------------------------
(* Committing results.                                                     *)

(* Wrong: any settled call is committed.                                   *)
CommittableInAnyOrder(i) == status[i] = "settled"

Committable(i) == i = committed + 1 /\ status[i] = "settled"

CommitResult(i) ==
  /\ pc = "commit" /\ Committable(i)
  /\ committed' = committed + 1
  /\ status' = [status EXCEPT ![i] = "answered"]
  /\ log' = Append(log, Event("result", i))
  /\ UNCHANGED <<mode, planVars, started, inFlight, failure, aborted, pc>>

(* Its post-execute policy fails: the result is not recorded.              *)
CommitThrows(i) ==
  /\ pc = "commit" /\ Committable(i)
  /\ ThrowFailure
  /\ UNCHANGED poolVars

(* No further slot is ready: look for a failure, then fill the pool.       *)
CommitsDone ==
  /\ pc = "commit" /\ \A i \in Calls : ~Committable(i)
  /\ \/ failure /\ ThrowFailure /\ UNCHANGED poolVars
     \/ ~failure /\ FillPool

(* Wrong: a call the race returned stays in flight.                        *)
RacedStays(i) == inFlight

Raced(i) == inFlight \ {i}

RaceReturns(i) ==
  /\ pc = "race" /\ i \in inFlight /\ status[i] # "running"
  /\ inFlight' = Raced(i)
  /\ \/ failure /\ ThrowFailure
     \/ /\ ~failure
        /\ pc' = "commit"
        /\ UNCHANGED <<mode, planVars, started, committed, failure, aborted, log>>
  /\ UNCHANGED status

Drained == \A i \in inFlight : status[i] # "running"

Drain ==
  /\ pc = "drain" /\ Drained
  /\ pc' = "rejected"
  /\ UNCHANGED <<mode, planVars, started, committed, poolVars, failure, aborted, log>>

---------------------------------------------------------------------------
Scheduler ==
  \/ NextGroup \/ Prepared \/ PrepareThrows \/ CommitsDone \/ Drain
  \/ \E i \in Calls : CommitResult(i) \/ CommitThrows(i) \/ RaceReturns(i)

Tool(i) == DispatchSettles(i) \/ DispatchFails(i)

Next ==
  \/ Scheduler
  \/ \E i \in Calls : Tool(i) \/ Reclassify(i)
  \/ Abort

Spec == Init /\ [][Next]_vars

(* Every tool and policy the scheduler awaits settles.                     *)
Fairness == WF_vars(Scheduler) /\ \A i \in Calls : WF_vars(Tool(i))
FairSpec == Spec /\ Fairness

---------------------------------------------------------------------------
(* Every variable has its type; in particular no call beyond the step's    *)
(* last one is ever started (executeToolCalls, runGroup).                  *)
TypeOK ==
  /\ mode \in [Calls -> Modes] /\ group \in Modes
  /\ first \in 0..NumCalls /\ started \in 0..NumCalls /\ committed \in 0..NumCalls
  /\ status \in [Calls -> Statuses]
  /\ inFlight \in SUBSET Calls
  /\ failure \in BOOLEAN /\ aborted \in BOOLEAN
  /\ pc \in {"nextGroup", "prepare", "commit", "race", "drain"} \cup Ended
  /\ log \in Seq([kind : {"call", "result"}, call : Calls])

Underway(i) == status[i] \in {"preparing", "running", "settled"}

(* An exclusive call is alone from its tool/call to its result: nothing    *)
(* started before it is unanswered, nothing starts before it is answered   *)
(* (executeToolCalls, fillPool).                                           *)
ExclusiveAlone ==
  \A i \in Calls :
    Underway(i) /\ mode[i] = "exclusive" => \A j \in Calls \ {i} : ~Underway(j)

(* No more tools run at once than the setting allows (fillPool).           *)
PoolBounded == Cardinality({i \in Calls : status[i] = "running"}) <= MaxParallel

(* Results reach the log in model order, whichever tool finishes first; a  *)
(* batch that returns has answered every call, also when it was aborted; a *)
(* rejected one invents nothing; and neither leaves a tool running         *)
(* (commitReady, runGroup).                                                *)
Promise == INSTANCE ToolBatch WITH
  running <- {i \in Calls : status[i] = "running"},
  outcome <- IF pc \in Ended THEN pc ELSE "open"

ImplementsToolBatch == Promise!Spec

(* No call starts once the signal is aborted (fillPool).                   *)
NoStartAfterAbort == [][\A i \in Calls : status[i] = "waiting" /\ status'[i] = "preparing" => ~aborted]_vars

(* The batch ends, whatever settles, fails or is aborted.                  *)
BatchEnds == <>(pc \in Ended)
=============================================================================
