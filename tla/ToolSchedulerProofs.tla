------------------------ MODULE ToolSchedulerProofs ------------------------
(***************************************************************************)
(* Proofs about ToolScheduler for every number of calls and every pool     *)
(* size: its safety properties and that it implements ToolBatch.  At the   *)
(* end, from ToolExecutionProofs, what MCToolCalls checks of ToolExecution. *)
(***************************************************************************)
EXTENDS MCToolCalls, Integers, SequenceTheorems, FiniteSetTheorems, TLAPS

Events == [kind : {"call", "result"}, call : Calls]

Count(s, kind) == Cardinality({n \in DOMAIN s : s[n].kind = kind})

---------------------------------------------------------------------------
(* The inductive invariant, in named parts.                                *)

(* Calls are consumed, committed and started in this order; a group has a  *)
(* started call until the loop returns to form the next one, and by then   *)
(* everything started is committed.                                        *)
Progress ==
  /\ first <= committed /\ committed <= started
  /\ pc \notin {"nextGroup"} \cup Ended => first < started
  /\ pc = "nextGroup" => committed = started /\ inFlight = {}

(* A call's status agrees with the two cursors, the pool and the failure.  *)
StatusFollows ==
  /\ pc = "prepare" => status[started] = "preparing"
  /\ \A i \in Calls :
       /\ i <= committed => status[i] = "answered"
       /\ committed < i /\ i <= started => status[i] \in {"preparing", "running", "settled", "broken"}
       /\ started < i => status[i] \in {"waiting", "skipped"}
       /\ status[i] = "running" => i \in inFlight
       /\ status[i] = "broken" => failure
       /\ status[i] = "preparing" => i = started /\ pc \in {"prepare", "drain", "rejected"}

(* What the group says of the calls started in it.                         *)
GroupHolds ==
  /\ group = "exclusive" => started <= first + 1
  /\ group = "parallel" => \A i \in Calls : first < i /\ i <= started => mode[i] = "parallel"

(* The pool has room for the call that is being prepared.                  *)
PoolHolds ==
  /\ Cardinality(inFlight) <= MaxParallel
  /\ pc = "prepare" => Cardinality(inFlight) < MaxParallel

EndedIsQuiet == pc \in Ended => \A i \in Calls : status[i] # "running"

(* While the batch is open the log counts what was started and committed.  *)
LogCounts == pc \notin Ended => Count(log, "call") = started /\ Count(log, "result") = committed

Control == Progress /\ StatusFollows /\ GroupHolds /\ EndedIsQuiet

IInv == TypeOK /\ Control /\ PoolHolds /\ LogCounts

---------------------------------------------------------------------------
(* What appending an event does to the counts.                             *)
LEMMA CountAppend ==
  ASSUME NEW s \in Seq(Events), NEW e \in Events, NEW kind
  PROVE  /\ Count(s, kind) \in Nat
         /\ Count(Append(s, e), kind) = IF e.kind = kind THEN Count(s, kind) + 1 ELSE Count(s, kind)
  <1> DEFINE A == {n \in DOMAIN s : s[n].kind = kind}
             B == {n \in DOMAIN Append(s, e) : Append(s, e)[n].kind = kind}
  <1>1. /\ DOMAIN s = 1..Len(s) /\ Len(s) \in Nat
        /\ DOMAIN Append(s, e) = 1..(Len(s) + 1)
        /\ \A n \in 1..Len(s) : Append(s, e)[n] = s[n]
        /\ Append(s, e)[Len(s) + 1] = e
    BY AppendProperties, LenProperties
  <1>2. IsFiniteSet(1..Len(s))
    BY <1>1, FS_Interval
  <1>3. IsFiniteSet(A) /\ Cardinality(A) \in Nat
    BY <1>1, <1>2, FS_Subset, FS_CardinalityType
  <1>4. Len(s) + 1 \notin A
    BY <1>1
  <1>5. B = IF e.kind = kind THEN A \cup {Len(s) + 1} ELSE A
    BY <1>1
  <1>6. Cardinality(A \cup {Len(s) + 1}) = Cardinality(A) + 1
    BY <1>3, <1>4, FS_AddElement
  <1> QED
    BY <1>3, <1>5, <1>6 DEF Count

(* The pairs an abort appends are events of the step.                      *)
LEMMA SkippedEvents ==
  ASSUME TypeOK
  PROVE  [k \in 1..(2 * (NumCalls - started)) |->
            Event(IF k % 2 = 1 THEN "call" ELSE "result", started + (k + 1) \div 2)] \in Seq(Events)
  <1> DEFINE n == 2 * (NumCalls - started)
  <1>1. NumCalls \in Nat /\ started \in Nat /\ started <= NumCalls /\ n \in Nat
    BY NumCallsAssumption DEF TypeOK
  <1>2. \A k \in 1..n : started + (k + 1) \div 2 \in Calls
    BY <1>1 DEF Calls
  <1>3. \A k \in 1..n : Event(IF k % 2 = 1 THEN "call" ELSE "result", started + (k + 1) \div 2) \in Events
    BY <1>2 DEF Event, Events
  <1> HIDE DEF n
  <1>4. [k \in 1..n |-> Event(IF k % 2 = 1 THEN "call" ELSE "result", started + (k + 1) \div 2)]
          \in [1..n -> Events]
    BY <1>3
  <1> QED
    BY <1>1, <1>4 DEF n

---------------------------------------------------------------------------
(* Once nothing is in flight and no slot is ready, everything started is   *)
(* committed, unless something failed.                                     *)
LEMMA QuietIsCommitted ==
  ASSUME TypeOK, Control, pc = "commit", ~failure, inFlight = {}, \A i \in Calls : ~Committable(i)
  PROVE  committed = started
  <1> SUFFICES ASSUME committed < started PROVE FALSE
    BY DEF Control, Progress, TypeOK
  <1>1. committed + 1 \in Calls /\ committed < committed + 1 /\ committed + 1 <= started
    BY NumCallsAssumption DEF TypeOK, Calls
  <1>2. status[committed + 1] \in {"preparing", "running", "settled", "broken"}
    BY <1>1 DEF Control, StatusFollows
  <1>3. status[committed + 1] = "settled"
    BY <1>1, <1>2 DEF Control, StatusFollows
  <1> QED
    BY <1>1, <1>3 DEF Committable

---------------------------------------------------------------------------
(* Starting a call, from the loop or from the pool, keeps the types.       *)
LEMMA StartCallTypes ==
  ASSUME TypeOK, started < NumCalls, StartCall, first' \in 0..NumCalls, group' \in Modes
  PROVE  TypeOK'
  <1>1. started + 1 \in Calls /\ started + 1 \in 0..NumCalls
    BY NumCallsAssumption DEF TypeOK, Calls
  <1>2. started' \in 0..NumCalls /\ committed' \in 0..NumCalls
    BY <1>1 DEF StartCall, TypeOK
  <1>3. status' \in [Calls -> Statuses]
    BY <1>1 DEF StartCall, TypeOK, Statuses
  <1>4. log' \in Seq([kind : {"call", "result"}, call : Calls])
    <2>1. Event("call", started + 1) \in [kind : {"call", "result"}, call : Calls]
      BY <1>1 DEF Event
    <2> QED
      BY <2>1 DEF StartCall, TypeOK
  <1> QED
    BY <1>2, <1>3, <1>4 DEF StartCall, TypeOK

LEMMA SkipRestTypes ==
  ASSUME TypeOK, SkipRest
  PROVE  TypeOK'
  <1>1. log' \in Seq([kind : {"call", "result"}, call : Calls])
    <2> DEFINE pairs == [k \in 1..(2 * (NumCalls - started)) |->
                           Event(IF k % 2 = 1 THEN "call" ELSE "result", started + (k + 1) \div 2)]
    <2>1. log \in Seq(Events) /\ pairs \in Seq(Events)
      BY SkippedEvents DEF TypeOK, Events
    <2>2. log' = log \o pairs
      BY DEF SkipRest
    <2> HIDE DEF pairs
    <2>3. log' \in Seq(Events)
      BY <2>1, <2>2, ConcatProperties
    <2> QED
      BY <2>3 DEF Events
  <1>2. status' \in [Calls -> Statuses]
    BY DEF SkipRest, TypeOK, Statuses
  <1> QED
    BY <1>1, <1>2 DEF SkipRest, TypeOK, planVars, Ended

(* The pool starts a call only in a parallel group: an exclusive group is  *)
(* complete once its first call is started.                                *)
LEMMA PoolGrowsParallel ==
  ASSUME TypeOK, Control, pc = "commit", MayStart
  PROVE  /\ started < NumCalls /\ ~aborted
         /\ group = "parallel" /\ mode[started + 1] = "parallel"
         /\ first < started
  <1>1. first < started /\ first \in Nat /\ started \in Nat
    BY NumCallsAssumption DEF Control, Progress, Ended, TypeOK
  <1>2. group = "parallel"
    BY <1>1 DEF MayStart, GroupEnd, TypeOK, Modes
  <1> QED
    BY <1>1, <1>2 DEF MayStart, GroupEnd, Joins, Stops

LEMMA FillPoolTypes ==
  ASSUME TypeOK, Control, pc = "commit", FillPool
  PROVE  TypeOK'
  <1>1. CASE MayStart /\ StartCall /\ UNCHANGED planVars
    BY <1>1, PoolGrowsParallel, StartCallTypes DEF planVars, TypeOK
  <1>2. CASE SkipRest
    BY <1>2, SkipRestTypes
  <1>3. CASE /\ pc' \in {"race", "nextGroup"}
             /\ UNCHANGED <<mode, planVars, started, committed, poolVars, failure, aborted, log>>
    BY <1>3 DEF TypeOK, planVars, poolVars
  <1> QED
    BY <1>1, <1>2, <1>3 DEF FillPool

(* Every step keeps the types.                                             *)
LEMMA TypeStep ==
  ASSUME TypeOK, Control, [Next]_vars
  PROVE  TypeOK'
  <1>1. CASE Abort
    BY <1>1 DEF Abort, TypeOK, planVars, poolVars
  <1>2. ASSUME NEW i \in Calls, Reclassify(i) PROVE TypeOK'
    BY <1>2 DEF Reclassify, TypeOK, planVars, poolVars, Modes
  <1>3. ASSUME NEW i \in Calls, Tool(i) PROVE TypeOK'
    BY <1>3 DEF Tool, DispatchSettles, DispatchFails, TypeOK, planVars, Statuses
  <1>4. CASE NextGroup
    <2>1. CASE started < NumCalls /\ group' = mode[started + 1] /\ first' = started /\ StartCall
      <3>1. mode[started + 1] \in Modes /\ started \in 0..NumCalls
        BY <2>1, NumCallsAssumption DEF TypeOK, Calls
      <3> QED
        BY <2>1, <3>1, StartCallTypes
    <2>2. CASE SkipRest
      BY <2>2, SkipRestTypes
    <2>3. CASE /\ pc' = "returned"
               /\ UNCHANGED <<mode, planVars, started, committed, poolVars, failure, aborted, log>>
      BY <2>3 DEF TypeOK, planVars, poolVars, Ended
    <2> QED
      BY <1>4, <2>1, <2>2, <2>3 DEF NextGroup
  <1>5. CASE Prepared
    <2>1. started \in Calls
      BY <1>5, NumCallsAssumption DEF Prepared, Control, Progress, TypeOK, Calls, Ended
    <2> QED
      BY <1>5, <2>1 DEF Prepared, TypeOK, planVars, Statuses
  <1>6. CASE PrepareThrows
    BY <1>6 DEF PrepareThrows, ThrowFailure, TypeOK, planVars, poolVars
  <1>7. CASE CommitsDone
    <2>1. CASE ThrowFailure /\ UNCHANGED poolVars
      BY <2>1 DEF ThrowFailure, TypeOK, planVars, poolVars
    <2> QED
      BY <1>7, <2>1, FillPoolTypes DEF CommitsDone
  <1>8. CASE Drain
    BY <1>8 DEF Drain, TypeOK, planVars, poolVars, Ended
  <1>9. ASSUME NEW i \in Calls, CommitResult(i) PROVE TypeOK'
    <2>1. committed' \in 0..NumCalls
      BY <1>9, NumCallsAssumption DEF CommitResult, Committable, TypeOK, Calls
    <2>2. log' \in Seq([kind : {"call", "result"}, call : Calls])
      <3>1. Event("result", i) \in [kind : {"call", "result"}, call : Calls]
        BY DEF Event
      <3> QED
        BY <1>9, <3>1 DEF CommitResult, TypeOK
    <2>3. status' \in [Calls -> Statuses]
      BY <1>9 DEF CommitResult, TypeOK, Statuses
    <2> QED
      BY <1>9, <2>1, <2>2, <2>3 DEF CommitResult, TypeOK, planVars
  <1>10. ASSUME NEW i \in Calls, CommitThrows(i) PROVE TypeOK'
    BY <1>10 DEF CommitThrows, ThrowFailure, TypeOK, planVars, poolVars
  <1>11. ASSUME NEW i \in Calls, RaceReturns(i) PROVE TypeOK'
    BY <1>11 DEF RaceReturns, Raced, ThrowFailure, TypeOK, planVars
  <1>12. CASE UNCHANGED vars
    BY <1>12 DEF TypeOK, vars, planVars, poolVars
  <1> QED
    BY <1>1, <1>2, <1>3, <1>4, <1>5, <1>6, <1>7, <1>8, <1>9, <1>10, <1>11, <1>12 DEF Next, Scheduler

---------------------------------------------------------------------------
(* Starting a call keeps the control invariant, both as the first call of  *)
(* a new group and as a further call of a parallel one.                    *)
LEMMA StartCallControl ==
  ASSUME TypeOK, Control, StartCall, started < NumCalls,
         \/ pc = "nextGroup" /\ first' = started /\ group' = mode[started + 1]
         \/ /\ pc = "commit" /\ UNCHANGED planVars
            /\ group = "parallel" /\ mode[started + 1] = "parallel" /\ first < started
  PROVE  Control'
  <1>1. /\ started \in Nat /\ first \in Nat /\ committed \in Nat /\ NumCalls \in Nat
        /\ started + 1 \in Calls /\ Calls \subseteq Nat
        /\ committed <= started /\ first <= committed
    BY NumCallsAssumption DEF TypeOK, Calls, Control, Progress
  <1>2. /\ started' = started + 1 /\ committed' = committed /\ mode' = mode
        /\ inFlight' = inFlight /\ failure' = failure /\ pc' = "prepare"
        /\ status' = [status EXCEPT ![started + 1] = "preparing"]
    BY DEF StartCall
  <1>3. first' \in Nat /\ first' <= committed /\ first' < started'
    BY <1>1, <1>2 DEF planVars, Control, Progress
  <1>4. Progress'
    BY <1>1, <1>2, <1>3 DEF Progress, Ended
  <1>5. StatusFollows'
    <2>1. status'[started + 1] = "preparing" /\ \A i \in Calls : i # started + 1 => status'[i] = status[i]
      BY <1>1, <1>2 DEF TypeOK
    <2>2. \A i \in Calls : status[i] # "preparing"
      BY DEF Control, StatusFollows
    <2> QED
      BY <1>1, <1>2, <2>1, <2>2 DEF Control, StatusFollows
  <1>6. GroupHolds'
    <2>1. CASE pc = "nextGroup" /\ first' = started /\ group' = mode[started + 1]
      <3>1. \A i \in Calls : started < i /\ i <= started + 1 => i = started + 1
        BY <1>1
      <3> QED
        BY <1>1, <1>2, <2>1, <3>1 DEF GroupHolds
    <2>2. CASE /\ UNCHANGED planVars
               /\ group = "parallel" /\ mode[started + 1] = "parallel"
      <3>1. \A i \in Calls : i <= started + 1 => i <= started \/ i = started + 1
        BY <1>1
      <3> QED
        BY <1>1, <1>2, <2>2, <3>1 DEF GroupHolds, Control, planVars
    <2> QED
      BY <2>1, <2>2
  <1> QED
    BY <1>2, <1>4, <1>5, <1>6 DEF Control, EndedIsQuiet, Ended

(* An abort's error results leave the started calls as they were.          *)
LEMMA SkipRestControl ==
  ASSUME TypeOK, Control, SkipRest, inFlight = {}, pc \in {"nextGroup", "commit"}
  PROVE  Control'
  <1>1. /\ started \in Nat /\ committed \in Nat /\ Calls \subseteq Nat
        /\ committed <= started
    BY NumCallsAssumption DEF TypeOK, Calls, Control, Progress
  <1>2. UNCHANGED <<mode, group, first, started, committed, inFlight, failure>> /\ pc' = "returned"
    BY DEF SkipRest, planVars
  <1>3. \A i \in Calls : status'[i] = IF i > started THEN "skipped" ELSE status[i]
    BY DEF SkipRest
  <1>4. \A i \in Calls : status[i] # "running"
    BY DEF Control, StatusFollows
  <1>5. StatusFollows'
    <2>1. \A i \in Calls : status[i] # "preparing"
      BY DEF Control, StatusFollows
    <2> QED
      BY <1>1, <1>2, <1>3, <1>4, <2>1 DEF Control, StatusFollows
  <1>6. Progress'
    BY <1>2 DEF Control, Progress, Ended
  <1>7. GroupHolds'
    BY <1>2 DEF Control, GroupHolds
  <1>8. EndedIsQuiet'
    BY <1>3, <1>4 DEF EndedIsQuiet
  <1> QED
    BY <1>5, <1>6, <1>7, <1>8 DEF Control

LEMMA FillPoolControl ==
  ASSUME TypeOK, Control, pc = "commit", ~failure, FillPool, \A i \in Calls : ~Committable(i)
  PROVE  Control'
  <1>1. CASE MayStart /\ StartCall /\ UNCHANGED planVars
    BY <1>1, PoolGrowsParallel, StartCallControl
  <1>2. CASE inFlight = {} /\ SkipRest
    BY <1>2, SkipRestControl
  <1>3. CASE /\ inFlight # {} /\ pc' = "race"
             /\ UNCHANGED <<mode, planVars, started, committed, poolVars, failure, aborted, log>>
    BY <1>3 DEF Control, Progress, StatusFollows, GroupHolds, EndedIsQuiet, Ended, planVars, poolVars
  <1>4. CASE /\ inFlight = {} /\ pc' = "nextGroup"
             /\ UNCHANGED <<mode, planVars, started, committed, poolVars, failure, aborted, log>>
    <2>1. committed = started
      BY <1>4, QuietIsCommitted
    <2> QED
      BY <1>4, <2>1 DEF Control, Progress, StatusFollows, GroupHolds, EndedIsQuiet, Ended, planVars, poolVars
  <1> QED
    BY <1>1, <1>2, <1>3, <1>4 DEF FillPool

(* A failure seen at an await keeps everything but the scheduler's place.  *)
LEMMA ThrowControl ==
  ASSUME TypeOK, Control, ThrowFailure, UNCHANGED status,
         pc \in {"prepare", "commit", "race"},
         \A i \in Calls : status[i] = "running" => i \in inFlight'
  PROVE  Control'
  <1>1. UNCHANGED <<mode, group, first, started, committed, status>> /\ failure' /\ pc' = "drain"
    BY DEF ThrowFailure, planVars
  <1>2. Progress'
    BY <1>1 DEF Control, Progress, Ended
  <1>3. StatusFollows'
    BY <1>1 DEF Control, StatusFollows
  <1>4. GroupHolds' /\ EndedIsQuiet'
    BY <1>1 DEF Control, GroupHolds, EndedIsQuiet, Ended
  <1> QED
    BY <1>2, <1>3, <1>4 DEF Control

(* Every step keeps the control invariant.                                 *)
LEMMA ControlStep ==
  ASSUME TypeOK, Control, [Next]_vars
  PROVE  Control'
  <1>0. /\ started \in Nat /\ committed \in Nat /\ first \in Nat /\ Calls \subseteq Nat
        /\ first <= committed /\ committed <= started
    BY NumCallsAssumption DEF TypeOK, Calls, Control, Progress
  <1>1. CASE Abort
    BY <1>1 DEF Abort, Control, Progress, StatusFollows, GroupHolds, EndedIsQuiet, planVars, poolVars
  <1>2. ASSUME NEW i \in Calls, Reclassify(i) PROVE Control'
    <2>1. GroupHolds'
      <3>1. \A j \in Calls : j <= started => mode'[j] = mode[j]
        BY <1>0, <1>2 DEF Reclassify, TypeOK
      <3> QED
        BY <1>2, <3>1 DEF Reclassify, planVars, Control, GroupHolds
    <2> QED
      BY <1>2, <2>1 DEF Reclassify, Control, Progress, StatusFollows, EndedIsQuiet, planVars, poolVars
  <1>3. ASSUME NEW i \in Calls, Tool(i) PROVE Control'
    <2>1. /\ status[i] = "running" /\ pc \notin Ended
          /\ committed < i /\ i <= started
      BY <1>0, <1>3 DEF Tool, DispatchSettles, DispatchFails, Control, EndedIsQuiet, StatusFollows
    <2>2. /\ UNCHANGED <<mode, group, first, started, committed, inFlight, pc>>
          /\ \/ status' = [status EXCEPT ![i] = "settled"] /\ UNCHANGED failure
             \/ status' = [status EXCEPT ![i] = "broken"] /\ failure'
      BY <1>3 DEF Tool, DispatchSettles, DispatchFails, planVars
    <2>3. /\ status'[i] \in {"settled", "broken"} /\ (status'[i] = "broken" => failure')
          /\ \A j \in Calls : j # i => status'[j] = status[j]
          /\ failure => failure'
      BY <2>2 DEF TypeOK
    <2>4. StatusFollows'
      <3>1. pc' = "prepare" => status'[started'] = "preparing"
        <4>1. pc = "prepare" => started \in Calls
          BY NumCallsAssumption DEF Control, Progress, Ended, TypeOK, Calls
        <4> QED
          BY <2>1, <2>2, <2>3, <4>1 DEF Control, StatusFollows
      <3> QED
        BY <1>0, <2>1, <2>2, <2>3, <3>1 DEF Control, StatusFollows
    <2> QED
      BY <2>1, <2>2, <2>4 DEF Control, Progress, GroupHolds, EndedIsQuiet
  <1>4. CASE NextGroup
    <2>1. CASE started < NumCalls /\ group' = mode[started + 1] /\ first' = started /\ StartCall
      BY <1>4, <2>1, StartCallControl DEF NextGroup
    <2>2. CASE SkipRest
      BY <1>4, <2>2, SkipRestControl DEF NextGroup, Control, Progress
    <2>3. CASE /\ pc' = "returned"
               /\ UNCHANGED <<mode, planVars, started, committed, poolVars, failure, aborted, log>>
      BY <1>4, <2>3 DEF NextGroup, Control, Progress, StatusFollows, GroupHolds, EndedIsQuiet, Ended,
                        planVars, poolVars
    <2> QED
      BY <1>4, <2>1, <2>2, <2>3 DEF NextGroup
  <1>5. CASE Prepared
    <2>1. started \in Calls /\ status[started] = "preparing" /\ pc = "prepare" /\ first < started
      BY <1>5, NumCallsAssumption DEF Prepared, Control, Progress, StatusFollows, TypeOK, Calls, Ended
    <2>2. committed < started
      BY <1>0, <2>1 DEF Control, StatusFollows
    <2>3. /\ UNCHANGED <<mode, group, first, started, committed, failure>> /\ pc' = "commit"
          /\ \/ status' = [status EXCEPT ![started] = "running"] /\ inFlight' = inFlight \cup {started}
             \/ status' = [status EXCEPT ![started] = "settled"] /\ UNCHANGED inFlight
      BY <1>5 DEF Prepared, planVars
    <2>4. /\ status'[started] \in {"running", "settled"}
          /\ status'[started] = "running" => started \in inFlight'
          /\ \A j \in Calls : j # started => status'[j] = status[j]
          /\ inFlight \subseteq inFlight'
      BY <2>1, <2>3 DEF TypeOK
    <2>5. StatusFollows'
      BY <1>0, <2>1, <2>2, <2>3, <2>4 DEF Control, StatusFollows
    <2> QED
      BY <2>1, <2>3, <2>5 DEF Control, Progress, GroupHolds, EndedIsQuiet, Ended
  <1>6. CASE PrepareThrows
    BY <1>6, ThrowControl DEF PrepareThrows, poolVars, Control, StatusFollows
  <1>7. CASE CommitsDone
    <2>1. CASE ThrowFailure /\ UNCHANGED poolVars
      BY <1>7, <2>1, ThrowControl DEF CommitsDone, poolVars, Control, StatusFollows
    <2> QED
      BY <1>7, <2>1, FillPoolControl DEF CommitsDone
  <1>8. CASE Drain
    BY <1>8 DEF Drain, Drained, Control, Progress, StatusFollows, GroupHolds, EndedIsQuiet, Ended,
                planVars, poolVars
  <1>9. ASSUME NEW i \in Calls, CommitResult(i) PROVE Control'
    <2>1. i = committed + 1 /\ status[i] = "settled" /\ pc = "commit"
      BY <1>9 DEF CommitResult, Committable
    <2>2. i <= started
      BY <1>0, <2>1 DEF Control, StatusFollows
    <2>3. /\ UNCHANGED <<mode, group, first, started, inFlight, failure, pc>> /\ committed' = i
          /\ status' = [status EXCEPT ![i] = "answered"]
      BY <1>9, <2>1 DEF CommitResult, planVars
    <2>4. status'[i] = "answered" /\ \A j \in Calls : j # i => status'[j] = status[j]
      BY <2>3 DEF TypeOK
    <2>5. Progress'
      BY <1>0, <2>1, <2>2, <2>3 DEF Control, Progress
    <2>6. StatusFollows'
      <3>1. \A j \in Calls : j <= i => j = i \/ j <= committed
        BY <1>0, <2>1
      <3> QED
        BY <1>0, <2>1, <2>2, <2>3, <2>4, <3>1 DEF Control, StatusFollows
    <2> QED
      BY <2>1, <2>3, <2>5, <2>6 DEF Control, GroupHolds, EndedIsQuiet, Ended
  <1>10. ASSUME NEW i \in Calls, CommitThrows(i) PROVE Control'
    BY <1>10, ThrowControl DEF CommitThrows, poolVars, Control, StatusFollows
  <1>11. ASSUME NEW i \in Calls, RaceReturns(i) PROVE Control'
    <2>1. /\ pc = "race" /\ UNCHANGED status
          /\ \A j \in Calls : status[j] = "running" => j \in inFlight'
      BY <1>11 DEF RaceReturns, Raced, Control, StatusFollows
    <2>2. CASE ThrowFailure
      BY <2>1, <2>2, ThrowControl
    <2>3. CASE pc' = "commit" /\ UNCHANGED <<mode, planVars, started, committed, failure>>
      <3>1. StatusFollows'
        BY <2>1, <2>3 DEF Control, StatusFollows
      <3> QED
        BY <2>1, <2>3, <3>1 DEF Control, Progress, GroupHolds, EndedIsQuiet, Ended, planVars
    <2> QED
      BY <1>11, <2>2, <2>3 DEF RaceReturns
  <1>12. CASE UNCHANGED vars
    BY <1>12 DEF Control, Progress, StatusFollows, GroupHolds, EndedIsQuiet, vars, planVars, poolVars
  <1> QED
    BY <1>1, <1>2, <1>3, <1>4, <1>5, <1>6, <1>7, <1>8, <1>9, <1>10, <1>11, <1>12 DEF Next, Scheduler

---------------------------------------------------------------------------
(* Every step keeps the pool within its limit.                             *)
LEMMA PoolStep ==
  ASSUME TypeOK, Control, PoolHolds, [Next]_vars
  PROVE  PoolHolds'
  <1>0. /\ MaxParallel \in Nat \ {0} /\ IsFiniteSet(Calls)
        /\ IsFiniteSet(inFlight) /\ Cardinality(inFlight) \in Nat
        /\ Cardinality({}) = 0
    <2>1. IsFiniteSet(Calls)
      BY NumCallsAssumption, FS_Interval DEF Calls
    <2>2. IsFiniteSet(inFlight)
      BY <2>1, FS_Subset DEF TypeOK
    <2> QED
      BY <2>1, <2>2, MaxParallelAssumption, FS_CardinalityType, FS_EmptySet
  <1>1. ASSUME UNCHANGED inFlight, pc' # "prepare" PROVE PoolHolds'
    BY <1>1 DEF PoolHolds
  <1>2. ASSUME UNCHANGED inFlight, pc' = pc PROVE PoolHolds'
    BY <1>2 DEF PoolHolds
  <1>3. ASSUME UNCHANGED inFlight, Cardinality(inFlight) < MaxParallel PROVE PoolHolds'
    BY <1>0, <1>3 DEF PoolHolds
  <1>4. CASE Abort \/ UNCHANGED vars \/ (\E i \in Calls : Reclassify(i) \/ Tool(i) \/ CommitResult(i))
    BY <1>2, <1>4 DEF Abort, vars, Reclassify, Tool, DispatchSettles, DispatchFails, CommitResult, poolVars
  <1>5. CASE NextGroup
    <2>1. CASE StartCall
      <3>1. Cardinality(inFlight) = 0
        BY <1>0, <1>5 DEF NextGroup, Control, Progress
      <3>2. Cardinality(inFlight) < MaxParallel
        BY <1>0, <3>1
      <3> QED
        BY <1>3, <2>1, <3>2 DEF StartCall
    <2>2. CASE pc' = "returned" /\ UNCHANGED poolVars
      BY <1>1, <2>2 DEF poolVars
    <2>3. CASE SkipRest
      BY <1>1, <2>3 DEF SkipRest
    <2> QED
      BY <1>5, <2>1, <2>2, <2>3 DEF NextGroup
  <1>6. CASE Prepared
    <2>1. Cardinality(inFlight \cup {started}) <= Cardinality(inFlight) + 1
      <3>1. Cardinality(inFlight \cup {started}) =
              IF started \in inFlight THEN Cardinality(inFlight) ELSE Cardinality(inFlight) + 1
        BY <1>0, FS_AddElement
      <3> QED
        BY <1>0, <3>1
    <2>2. Cardinality(inFlight) < MaxParallel
      BY <1>6 DEF Prepared, PoolHolds
    <2>3. pc' = "commit" /\ (inFlight' = inFlight \cup {started} \/ UNCHANGED inFlight)
      BY <1>6 DEF Prepared
    <2>4. IsFiniteSet(inFlight \cup {started}) /\ Cardinality(inFlight \cup {started}) \in Nat
      BY <1>0, FS_AddElement, FS_CardinalityType
    <2> QED
      BY <1>0, <2>1, <2>2, <2>3, <2>4 DEF PoolHolds
  <1>7. CASE CommitsDone
    <2>1. CASE MayStart /\ StartCall
      BY <1>3, <2>1 DEF MayStart, HasRoom, StartCall
    <2> QED
      BY <1>1, <1>7, <2>1 DEF CommitsDone, FillPool, SkipRest, ThrowFailure, poolVars
  <1>8. CASE PrepareThrows \/ Drain \/ (\E i \in Calls : CommitThrows(i))
    BY <1>1, <1>8 DEF PrepareThrows, Drain, CommitThrows, ThrowFailure, poolVars
  <1>9. ASSUME NEW i \in Calls, RaceReturns(i) PROVE PoolHolds'
    <2>1. inFlight' = inFlight \ {i} /\ pc' # "prepare"
      BY <1>9 DEF RaceReturns, Raced, ThrowFailure
    <2>2. inFlight' \in SUBSET inFlight
      BY <2>1
    <2>3. Cardinality(inFlight') <= Cardinality(inFlight) /\ Cardinality(inFlight') \in Nat
      BY <1>0, <2>2, FS_Subset, FS_CardinalityType
    <2> QED
      BY <1>0, <2>1, <2>3 DEF PoolHolds
  <1> QED
    BY <1>4, <1>5, <1>6, <1>7, <1>8, <1>9 DEF Next, Scheduler

(* Every step keeps the log's counts.                                      *)
LEMMA LogStep ==
  ASSUME TypeOK, Control, LogCounts, [Next]_vars
  PROVE  LogCounts'
  <1>0. log \in Seq(Events) /\ started \in Nat /\ committed \in Nat
    BY NumCallsAssumption DEF TypeOK, Events
  <1>1. ASSUME UNCHANGED <<log, started, committed>>, pc' \in Ended \/ pc \notin Ended PROVE LogCounts'
    BY <1>1 DEF LogCounts
  <1>2. ASSUME StartCall, pc \notin Ended, started < NumCalls PROVE LogCounts'
    <2>1. started + 1 \in Calls
      BY <1>0, <1>2, NumCallsAssumption DEF Calls
    <2>2. Event("call", started + 1) \in Events /\ Event("call", started + 1).kind = "call"
      BY <2>1 DEF Event, Events
    <2>3. /\ Count(log', "call") = Count(log, "call") + 1
          /\ Count(log', "result") = Count(log, "result")
      BY <1>0, <1>2, <2>2, CountAppend DEF StartCall
    <2> QED
      BY <1>0, <1>2, <2>3 DEF LogCounts, StartCall
  <1>3. CASE Abort \/ UNCHANGED vars \/ (\E i \in Calls : Reclassify(i) \/ Tool(i))
    BY <1>1, <1>3 DEF Abort, vars, Reclassify, Tool, DispatchSettles, DispatchFails, LogCounts
  <1>4. CASE NextGroup
    BY <1>1, <1>2, <1>4 DEF NextGroup, SkipRest, LogCounts, Ended
  <1>5. CASE Prepared \/ PrepareThrows \/ Drain \/ (\E i \in Calls : CommitThrows(i) \/ RaceReturns(i))
    BY <1>1, <1>5 DEF Prepared, PrepareThrows, Drain, CommitThrows, RaceReturns, ThrowFailure, Ended
  <1>6. CASE CommitsDone
    <2>1. CASE MayStart /\ StartCall
      BY <1>2, <1>6, <2>1, PoolGrowsParallel DEF CommitsDone, Ended
    <2> QED
      BY <1>1, <1>6, <2>1 DEF CommitsDone, FillPool, SkipRest, ThrowFailure, LogCounts, Ended
  <1>7. ASSUME NEW i \in Calls, CommitResult(i) PROVE LogCounts'
    <2>1. Event("result", i) \in Events /\ Event("result", i).kind = "result"
      BY DEF Event, Events
    <2>2. /\ Count(log', "result") = Count(log, "result") + 1
          /\ Count(log', "call") = Count(log, "call")
      BY <1>0, <1>7, <2>1, CountAppend DEF CommitResult
    <2> QED
      BY <1>0, <1>7, <2>2 DEF LogCounts, CommitResult, Ended
  <1> QED
    BY <1>3, <1>4, <1>5, <1>6, <1>7 DEF Next, Scheduler

---------------------------------------------------------------------------
(* The invariant holds from the start: nothing is consumed yet.            *)
LEMMA InitIInv == Init => IInv
  <1> SUFFICES ASSUME Init PROVE IInv
    OBVIOUS
  <1>1. TypeOK
    <2>1. <<>> \in Seq([kind : {"call", "result"}, call : Calls])
      OBVIOUS
    <2>2. status \in [Calls -> Statuses]
      BY DEF Init, Statuses
    <2>3. mode \in [Calls -> Modes] /\ group \in Modes /\ inFlight \in SUBSET Calls
      BY DEF Init, Modes
    <2>4. 0 \in 0..NumCalls
      BY NumCallsAssumption
    <2> QED
      BY <2>1, <2>2, <2>3, <2>4 DEF Init, TypeOK
  <1>2. Control
    BY NumCallsAssumption DEF Init, Control, Progress, StatusFollows, GroupHolds, EndedIsQuiet, Ended, Calls
  <1>3. PoolHolds
    BY MaxParallelAssumption, FS_EmptySet DEF Init, PoolHolds
  <1>4. LogCounts
    <2>1. \A kind : {n \in DOMAIN <<>> : <<>>[n].kind = kind} = {}
      OBVIOUS
    <2> QED
      BY <2>1, FS_EmptySet DEF Init, LogCounts, Count
  <1> QED
    BY <1>1, <1>2, <1>3, <1>4 DEF IInv

(* The scheduler's invariant holds in every reachable state, so however    *)
(* tools, aborts and the registry interleave with the awaits of runGroup.  *)
THEOREM Inductive == Spec => []IInv
  <1>1. IInv /\ [Next]_vars => IInv'
    BY TypeStep, ControlStep, PoolStep, LogStep DEF IInv
  <1> QED
    BY InitIInv, <1>1, PTL DEF Spec

(* Every reachable state is well typed: no call beyond the last is started.*)
THEOREM TypeCorrect == Spec => []TypeOK
  BY Inductive, PTL DEF IInv

(* An exclusive call is never underway together with another one, although *)
(* calls change mode until they start (executeToolCalls, fillPool).        *)
THEOREM ExclusiveRunsAlone == Spec => []ExclusiveAlone
  <1>1. IInv => ExclusiveAlone
    <2> SUFFICES ASSUME IInv, NEW i \in Calls, Underway(i), mode[i] = "exclusive",
                        NEW j \in Calls, Underway(j), j # i
                 PROVE  FALSE
      BY DEF ExclusiveAlone
    <2>1. /\ started \in Nat /\ first \in Nat /\ committed \in Nat /\ i \in Nat /\ j \in Nat
          /\ first <= committed /\ group \in Modes
      BY NumCallsAssumption DEF IInv, TypeOK, Control, Progress, Calls
    <2>2. committed < i /\ i <= started /\ committed < j /\ j <= started
      BY <2>1 DEF Underway, IInv, Control, StatusFollows
    <2>3. group # "parallel"
      BY <2>1, <2>2 DEF IInv, Control, GroupHolds
    <2>4. started <= first + 1
      BY <2>1, <2>3 DEF IInv, Control, GroupHolds, Modes
    <2> QED
      BY <2>1, <2>2, <2>4
  <1> QED
    BY Inductive, <1>1, PTL

(* Never more tools run than the setting allows (fillPool).                *)
THEOREM PoolStaysBounded == Spec => []PoolBounded
  <1>1. IInv => PoolBounded
    <2> SUFFICES ASSUME IInv PROVE PoolBounded
      OBVIOUS
    <2>1. {i \in Calls : status[i] = "running"} \in SUBSET inFlight
      BY DEF IInv, Control, StatusFollows
    <2>2. IsFiniteSet(Calls)
      BY NumCallsAssumption, FS_Interval DEF Calls
    <2>3. IsFiniteSet(inFlight)
      BY <2>2, FS_Subset DEF IInv, TypeOK
    <2>4. /\ Cardinality({i \in Calls : status[i] = "running"}) <= Cardinality(inFlight)
          /\ Cardinality({i \in Calls : status[i] = "running"}) \in Nat
          /\ Cardinality(inFlight) \in Nat
      BY <2>1, <2>3, FS_Subset, FS_CardinalityType
    <2> QED
      BY <2>4, MaxParallelAssumption DEF IInv, PoolHolds, PoolBounded
  <1> QED
    BY Inductive, <1>1, PTL

(* No call starts once the signal is aborted: the copy of the signal is    *)
(* fresh wherever a call may start (executeToolCalls, fillPool).           *)
THEOREM AbortStopsStarts == Spec => NoStartAfterAbort
  <1>1. TypeOK /\ Control /\ [Next]_vars =>
          [\A i \in Calls : status[i] = "waiting" /\ status'[i] = "preparing" => ~aborted]_vars
    <2> SUFFICES ASSUME TypeOK, Control, Next,
                        NEW i \in Calls, status[i] = "waiting", status'[i] = "preparing"
                 PROVE  ~aborted
      OBVIOUS
    <2>1. CASE NextGroup
      BY <2>1 DEF NextGroup, SkipRest, poolVars
    <2>2. CASE CommitsDone
      BY <2>2 DEF CommitsDone, FillPool, MayStart, Stops, SkipRest, ThrowFailure, poolVars
    <2>3. ASSUME UNCHANGED status PROVE FALSE
      BY <2>3
    <2>4. CASE \/ Abort \/ PrepareThrows \/ Drain
               \/ \E j \in Calls : Reclassify(j) \/ CommitThrows(j) \/ RaceReturns(j)
      BY <2>3, <2>4 DEF Abort, PrepareThrows, Drain, Reclassify, CommitThrows, RaceReturns, poolVars
    <2>5. CASE Prepared
      BY <2>5 DEF Prepared, TypeOK
    <2>6. ASSUME NEW j \in Calls, Tool(j) \/ CommitResult(j) PROVE FALSE
      BY <2>6 DEF Tool, DispatchSettles, DispatchFails, CommitResult, TypeOK
    <2> QED
      BY <2>1, <2>2, <2>4, <2>5, <2>6 DEF Next, Scheduler
  <1> QED
    BY Inductive, <1>1, PTL DEF IInv, Spec, NoStartAfterAbort

---------------------------------------------------------------------------
(* The refinement of ToolBatch.                                            *)

(* While the batch is open, the contract counts what the scheduler did.    *)
LEMMA PromiseCounts ==
  ASSUME IInv, pc \notin Ended
  PROVE  Promise!Recorded("call") = started /\ Promise!Recorded("result") = committed
  <1>1. Count(log, "call") = started /\ Count(log, "result") = committed
    BY DEF IInv, LogCounts
  <1>2. Promise!Recorded("call") = Count(log, "call") /\ Promise!Recorded("result") = Count(log, "result")
    BY DEF Promise!Recorded, Promise!Cardinality, Count, Cardinality
  <1> QED
    BY <1>1, <1>2

(* Starting a call is the contract's Call.                                 *)
LEMMA StartRefines ==
  ASSUME IInv, StartCall, pc \notin Ended, started < NumCalls
  PROVE  Promise!Call
  <1>1. /\ started + 1 \in Calls
        /\ status[started + 1] # "running"
    BY NumCallsAssumption DEF IInv, TypeOK, Control, StatusFollows, Calls
  <1>2. \A i \in Calls : status'[i] = "running" <=> status[i] = "running"
    BY <1>1 DEF StartCall, IInv, TypeOK
  <1>3. {i \in Calls : status'[i] = "running"} = {i \in Calls : status[i] = "running"}
    BY <1>2
  <1>4. pc' \notin Ended
    BY DEF StartCall, Ended
  <1> QED
    BY <1>3, <1>4, PromiseCounts DEF StartCall, Promise!Call, Promise!Event, Event

(* The error results of an abort are the contract's SkipRest.              *)
LEMMA SkipRefines ==
  ASSUME IInv, SkipRest, pc \notin Ended, committed = started, inFlight = {}
  PROVE  Promise!SkipRest
  <1>1. /\ {i \in Calls : status[i] = "running"} = {}
        /\ {i \in Calls : status'[i] = "running"} = {}
    BY DEF IInv, Control, StatusFollows, SkipRest
  <1>2. pc' \in Ended
    BY DEF SkipRest, Ended
  <1> QED
    BY <1>1, <1>2, PromiseCounts DEF SkipRest, Promise!SkipRest, Promise!Event, Event

(* A step that touches neither the log, the tools nor the outcome.         *)
LEMMA Stutters ==
  ASSUME UNCHANGED <<log, status>>, (pc \notin Ended /\ pc' \notin Ended) \/ pc' = pc
  PROVE  UNCHANGED Promise!vars
  BY DEF Promise!vars

(* An end that adds nothing to the log is Return or Reject.                *)
LEMMA EndRefines ==
  ASSUME IInv, UNCHANGED <<log, status>>, pc \notin Ended, pc' \in Ended,
         \A i \in Calls : status[i] # "running",
         pc' = "returned" => committed = NumCalls
  PROVE  Promise!Return \/ Promise!Reject
  <1>1. {i \in Calls : status[i] = "running"} = {}
    OBVIOUS
  <1>2. CASE pc' = "returned"
    BY <1>1, <1>2, PromiseCounts DEF Promise!Return
  <1>3. CASE pc' = "rejected"
    BY <1>1, <1>3 DEF Promise!Reject, Ended
  <1> QED
    BY <1>2, <1>3 DEF Ended

(* Every step of the scheduler is a step of the contract or none.          *)
LEMMA StepRefines ==
  ASSUME IInv, [Next]_vars
  PROVE  [Promise!Next]_Promise!vars
  <1>0. /\ started \in Nat /\ committed \in Nat /\ NumCalls \in Nat /\ Calls = 1..NumCalls
        /\ committed <= started /\ status \in [Calls -> Statuses]
    BY NumCallsAssumption DEF IInv, TypeOK, Control, Progress, Calls
  <1>1. CASE \/ Abort \/ UNCHANGED vars \/ PrepareThrows
             \/ \E i \in Calls : Reclassify(i) \/ CommitThrows(i) \/ RaceReturns(i)
    <2>1. UNCHANGED <<log, status>>
      BY <1>1 DEF Abort, vars, PrepareThrows, Reclassify, CommitThrows, RaceReturns, ThrowFailure, poolVars
    <2>2. (pc \notin Ended /\ pc' \notin Ended) \/ pc' = pc
      BY <1>1 DEF Abort, vars, PrepareThrows, Reclassify, CommitThrows, RaceReturns, ThrowFailure, Ended
    <2> QED
      BY <2>1, <2>2, Stutters
  <1>2. ASSUME NEW i \in Calls, Tool(i) PROVE [Promise!Next]_Promise!vars
    <2>1. {j \in Calls : status'[j] = "running"} = {j \in Calls : status[j] = "running"} \ {i}
      BY <1>0, <1>2 DEF Tool, DispatchSettles, DispatchFails
    <2>2. Promise!Settle(i)
      BY <1>2, <2>1 DEF Tool, DispatchSettles, DispatchFails, Promise!Settle
    <2> QED
      BY <1>0, <2>2 DEF Promise!Next
  <1>3. CASE NextGroup
    <2>1. pc = "nextGroup" /\ pc \notin Ended /\ committed = started /\ inFlight = {}
          /\ \A i \in Calls : status[i] # "running"
      BY <1>3 DEF NextGroup, Ended, IInv, Control, Progress, StatusFollows
    <2>2. CASE started < NumCalls /\ StartCall
      BY <2>1, <2>2, StartRefines DEF Promise!Next
    <2>3. CASE SkipRest
      BY <2>1, <2>3, SkipRefines DEF Promise!Next
    <2>4. CASE started = NumCalls /\ pc' = "returned" /\ UNCHANGED <<log, poolVars>>
      BY <2>1, <2>4, EndRefines DEF Promise!Next, Ended, poolVars
    <2> QED
      BY <1>3, <2>2, <2>3, <2>4 DEF NextGroup
  <1>4. CASE Prepared
    <2>1. /\ started \in Calls /\ status[started] = "preparing"
          /\ pc \notin Ended /\ pc' \notin Ended /\ UNCHANGED log
      <3>1. pc = "prepare" /\ pc' = "commit" /\ UNCHANGED log
        BY <1>4 DEF Prepared
      <3>2. first < started /\ first \in Nat
        BY <3>1, NumCallsAssumption DEF IInv, TypeOK, Control, Progress, Ended
      <3>3. started \in Calls
        BY <3>2, NumCallsAssumption DEF IInv, TypeOK, Calls
      <3> QED
        BY <3>1, <3>3 DEF IInv, Control, StatusFollows, Ended
    <2>2. committed < started
      BY <1>0, <2>1 DEF IInv, Control, StatusFollows
    <2>3. CASE status' = [status EXCEPT ![started] = "running"]
      <3>1. {j \in Calls : status'[j] = "running"} = {j \in Calls : status[j] = "running"} \cup {started}
        BY <1>0, <2>1, <2>3
      <3>2. PICK i \in Calls : i = started
        BY <2>1
      <3>3. Promise!Run(i)
        BY <1>0, <2>1, <2>2, <3>1, <3>2, PromiseCounts DEF Promise!Run
      <3> QED
        BY <1>0, <3>3 DEF Promise!Next
    <2>4. CASE status' = [status EXCEPT ![started] = "settled"]
      <3>1. {j \in Calls : status'[j] = "running"} = {j \in Calls : status[j] = "running"}
        BY <1>0, <2>1, <2>4
      <3> QED
        BY <2>1, <3>1 DEF Promise!vars
    <2> QED
      BY <1>4, <2>3, <2>4 DEF Prepared
  <1>5. CASE CommitsDone
    <2>1. pc = "commit" /\ pc \notin Ended /\ \A i \in Calls : ~Committable(i)
      BY <1>5 DEF CommitsDone, Ended
    <2>2. CASE MayStart /\ StartCall
      BY <2>1, <2>2, StartRefines, PoolGrowsParallel DEF Promise!Next, IInv
    <2>3. CASE ~failure /\ inFlight = {} /\ SkipRest
      BY <2>1, <2>3, SkipRefines, QuietIsCommitted DEF Promise!Next, IInv
    <2>4. CASE pc' \in {"race", "nextGroup", "drain"} /\ UNCHANGED <<log, poolVars>>
      BY <2>1, <2>4, Stutters DEF Ended, poolVars
    <2> QED
      BY <1>5, <2>2, <2>3, <2>4 DEF CommitsDone, FillPool, ThrowFailure
  <1>6. CASE Drain
    <2>1. pc = "drain" /\ pc' = "rejected" /\ UNCHANGED <<log, status>>
      BY <1>6 DEF Drain, poolVars
    <2>2. \A i \in Calls : status[i] # "running"
      BY <1>6 DEF Drain, Drained, IInv, Control, StatusFollows
    <2> QED
      BY <2>1, <2>2, EndRefines DEF Promise!Next, Ended
  <1>7. ASSUME NEW i \in Calls, CommitResult(i) PROVE [Promise!Next]_Promise!vars
    <2>1. /\ i = committed + 1 /\ status[i] = "settled" /\ pc = "commit" /\ pc' = pc
          /\ status' = [status EXCEPT ![i] = "answered"]
          /\ log' = Append(log, Event("result", i))
      BY <1>7 DEF CommitResult, Committable
    <2>2. committed < started
      BY <1>0, <2>1 DEF IInv, Control, StatusFollows
    <2>3. {j \in Calls : status'[j] = "running"} = {j \in Calls : status[j] = "running"}
      BY <1>0, <2>1
    <2>4. Promise!Answer
      BY <1>0, <2>1, <2>2, <2>3, PromiseCounts DEF Promise!Answer, Promise!Event, Event, Ended
    <2> QED
      BY <2>4 DEF Promise!Next
  <1> QED
    BY <1>1, <1>2, <1>3, <1>4, <1>5, <1>6, <1>7 DEF Next, Scheduler

(* The scheduler keeps the promise of the batch for every number of calls  *)
(* and every pool size: calls and results in model order, one result for   *)
(* each call of a batch that returns, none invented by one that is         *)
(* rejected, and no tool left running (commitReady, runGroup).             *)
THEOREM Refinement == Spec => ImplementsToolBatch
  <1>1. Init => Promise!Init
    BY DEF Init, Promise!Init, Ended
  <1>2. IInv /\ [Next]_vars => [Promise!Next]_Promise!vars
    BY StepRefines
  <1> QED
    BY Inductive, <1>1, <1>2, PTL DEF Spec, ImplementsToolBatch, Promise!Spec

---------------------------------------------------------------------------
(* The calls as the run looks at them: a behaviour of MCToolCalls in which *)
(* an instance of ToolExecution is looked at is one of that instance.      *)

PairP == INSTANCE ToolExecutionProofs WITH
  Calls <- {call1, call2}, MaxAttempts <- 1, MaxAsks <- 1, MaxSwitches <- 0,
  log <- events, aborted <- signal
SingleP == INSTANCE ToolExecutionProofs WITH
  Calls <- {call1}, MaxAttempts <- 1, MaxAsks <- 2, MaxSwitches <- 1,
  log <- events, aborted <- signal
RetriedP == INSTANCE ToolExecutionProofs WITH
  Calls <- {call1}, MaxAttempts <- 2, MaxAsks <- 2, MaxSwitches <- 1,
  log <- events, aborted <- signal

(* Which half is looked at does not change.                                *)
LEMMA OneHalf ==
  MCSpec => \/ [](half = "scheduler") \/ [](half = "pair")
            \/ [](half = "single") \/ [](half = "retried")
<1>1. MCInit => \/ half = "scheduler" \/ half = "pair"
                \/ half = "single" \/ half = "retried"
  BY DEF MCInit
<1>2. [MCNext]_<<half, vars, executed>> =>
        /\ half = "scheduler" => (half = "scheduler")'
        /\ half = "pair" => (half = "pair")'
        /\ half = "single" => (half = "single")'
        /\ half = "retried" => (half = "retried")'
  BY DEF MCNext
<1> QED
  BY <1>1, <1>2, PTL DEF MCSpec

LEMMA PairBehaves == MCSpec /\ [](half = "pair") => PairP!Spec
<1>1. Pair!Init => PairP!Init
  BY DEF Pair!Init, PairP!Init
<1>2. Pair!Next => PairP!Next
  BY DEF Pair!Cardinality, PairP!Cardinality, Pair!Next, Pair!Step,
         Pair!Prepare, Pair!asking, Pair!Final, Pair!Goto, Pair!Keep,
         Pair!Gate, Pair!Permit, Pair!After, Pair!Code, Pair!Request,
         Pair!Withdrawn, Pair!Cancelled, Pair!Policy, Pair!PolicyAt,
         Pair!Events, Pair!Asked, Pair!Decided, Pair!Apply, Pair!Grants,
         Pair!Answered, Pair!Retry, Pair!Errors, Pair!Invoke,
         Pair!Dispatch, Pair!Checkpoint, Pair!CheckpointFails, Pair!Settle,
         Pair!Withdraw, Pair!Decide, Pair!Switch, Pair!Finalize,
         Pair!Escalate, Pair!Timeout, Pair!InBody, Pair!Answers,
         Pair!Answer, Pair!Policies, Pair!UserSwitches, Pair!Abort,
         PairP!Next, PairP!Step, PairP!Prepare, PairP!asking, PairP!Final,
         PairP!Goto, PairP!Keep, PairP!Gate, PairP!Permit, PairP!After,
         PairP!Code, PairP!Request, PairP!Withdrawn, PairP!Cancelled,
         PairP!Policy, PairP!PolicyAt, PairP!Events, PairP!Asked,
         PairP!Decided, PairP!Apply, PairP!Grants, PairP!Answered,
         PairP!Retry, PairP!Errors, PairP!Invoke, PairP!Dispatch,
         PairP!Checkpoint, PairP!CheckpointFails, PairP!Settle,
         PairP!Withdraw, PairP!Decide, PairP!Switch, PairP!Finalize,
         PairP!Escalate, PairP!Timeout, PairP!InBody, PairP!Answers,
         PairP!Answer, PairP!Policies, PairP!UserSwitches, PairP!Abort
<1>3. MCInit /\ half = "pair" => Pair!Init
  BY DEF MCInit
<1>4. [MCNext]_<<half, vars, executed>> /\ half = "pair" => [PairP!Next]_PairP!vars
  BY <1>2 DEF MCNext, executed, PairP!vars, PairP!asking
<1> QED
  BY <1>1, <1>3, <1>4, PTL DEF MCSpec, PairP!Spec

LEMMA SingleBehaves == MCSpec /\ [](half = "single") => SingleP!Spec
<1>1. Single!Init => SingleP!Init
  BY DEF Single!Init, SingleP!Init
<1>2. Single!Next => SingleP!Next
  BY DEF Single!Cardinality, SingleP!Cardinality, Single!Next, Single!Step,
         Single!Prepare, Single!asking, Single!Final, Single!Goto,
         Single!Keep, Single!Gate, Single!Permit, Single!After,
         Single!Code, Single!Request, Single!Withdrawn, Single!Cancelled,
         Single!Policy, Single!PolicyAt, Single!Events, Single!Asked,
         Single!Decided, Single!Apply, Single!Grants, Single!Answered,
         Single!Retry, Single!Errors, Single!Invoke, Single!Dispatch,
         Single!Checkpoint, Single!CheckpointFails, Single!Settle,
         Single!Withdraw, Single!Decide, Single!Switch, Single!Finalize,
         Single!Escalate, Single!Timeout, Single!InBody, Single!Answers,
         Single!Answer, Single!Policies, Single!UserSwitches, Single!Abort,
         SingleP!Next, SingleP!Step, SingleP!Prepare, SingleP!asking,
         SingleP!Final, SingleP!Goto, SingleP!Keep, SingleP!Gate,
         SingleP!Permit, SingleP!After, SingleP!Code, SingleP!Request,
         SingleP!Withdrawn, SingleP!Cancelled, SingleP!Policy,
         SingleP!PolicyAt, SingleP!Events, SingleP!Asked, SingleP!Decided,
         SingleP!Apply, SingleP!Grants, SingleP!Answered, SingleP!Retry,
         SingleP!Errors, SingleP!Invoke, SingleP!Dispatch,
         SingleP!Checkpoint, SingleP!CheckpointFails, SingleP!Settle,
         SingleP!Withdraw, SingleP!Decide, SingleP!Switch,
         SingleP!Finalize, SingleP!Escalate, SingleP!Timeout,
         SingleP!InBody, SingleP!Answers, SingleP!Answer, SingleP!Policies,
         SingleP!UserSwitches, SingleP!Abort
<1>3. MCInit /\ half = "single" => Single!Init
  BY DEF MCInit
<1>4. [MCNext]_<<half, vars, executed>> /\ half = "single" => [SingleP!Next]_SingleP!vars
  BY <1>2 DEF MCNext, executed, SingleP!vars, SingleP!asking
<1> QED
  BY <1>1, <1>3, <1>4, PTL DEF MCSpec, SingleP!Spec

LEMMA RetriedBehaves == MCSpec /\ [](half = "retried") => RetriedP!Spec
<1>1. Retried!Init => RetriedP!Init
  BY DEF Retried!Init, RetriedP!Init
<1>2. Retried!Next => RetriedP!Next
  BY DEF Retried!Cardinality, RetriedP!Cardinality, Retried!Next,
         Retried!Step, Retried!Prepare, Retried!asking, Retried!Final,
         Retried!Goto, Retried!Keep, Retried!Gate, Retried!Permit,
         Retried!After, Retried!Code, Retried!Request, Retried!Withdrawn,
         Retried!Cancelled, Retried!Policy, Retried!PolicyAt,
         Retried!Events, Retried!Asked, Retried!Decided, Retried!Apply,
         Retried!Grants, Retried!Answered, Retried!Retry, Retried!Errors,
         Retried!Invoke, Retried!Dispatch, Retried!Checkpoint,
         Retried!CheckpointFails, Retried!Settle, Retried!Withdraw,
         Retried!Decide, Retried!Switch, Retried!Finalize,
         Retried!Escalate, Retried!Timeout, Retried!InBody,
         Retried!Answers, Retried!Answer, Retried!Policies,
         Retried!UserSwitches, Retried!Abort, RetriedP!Next, RetriedP!Step,
         RetriedP!Prepare, RetriedP!asking, RetriedP!Final, RetriedP!Goto,
         RetriedP!Keep, RetriedP!Gate, RetriedP!Permit, RetriedP!After,
         RetriedP!Code, RetriedP!Request, RetriedP!Withdrawn,
         RetriedP!Cancelled, RetriedP!Policy, RetriedP!PolicyAt,
         RetriedP!Events, RetriedP!Asked, RetriedP!Decided, RetriedP!Apply,
         RetriedP!Grants, RetriedP!Answered, RetriedP!Retry,
         RetriedP!Errors, RetriedP!Invoke, RetriedP!Dispatch,
         RetriedP!Checkpoint, RetriedP!CheckpointFails, RetriedP!Settle,
         RetriedP!Withdraw, RetriedP!Decide, RetriedP!Switch,
         RetriedP!Finalize, RetriedP!Escalate, RetriedP!Timeout,
         RetriedP!InBody, RetriedP!Answers, RetriedP!Answer,
         RetriedP!Policies, RetriedP!UserSwitches, RetriedP!Abort
<1>3. MCInit /\ half = "retried" => Retried!Init
  BY DEF MCInit, Single!Init, Retried!Init
<1>4. [MCNext]_<<half, vars, executed>> /\ half = "retried" => [RetriedP!Next]_RetriedP!vars
  BY <1>2 DEF MCNext, executed, RetriedP!vars, RetriedP!asking
<1> QED
  BY <1>1, <1>3, <1>4, PTL DEF MCSpec, RetriedP!Spec

(* Who may run a tool, in every behaviour the run of the calls looks at    *)
(* (ApprovalStaysSound of ToolExecutionProofs, for any calls).             *)
THEOREM ApprovalStaysSound == MCSpec => []ApprovalIsSound
<1>1. PairP!Spec => []PairP!ApprovalIsSound
  BY PairP!ApprovalStaysSound
<1>2. PairP!ApprovalIsSound /\ half = "pair" => ApprovalIsSound
  BY DEF ApprovalIsSound, Pair!Cardinality, PairP!Cardinality,
         Pair!ApprovalIsSound, Pair!TypeOK, Pair!asking, Pair!InBody,
         Pair!Errors, Pair!AuditPaired, Pair!Events, Pair!GrantIsDecided,
         Pair!NeverIsNever, Pair!Grants, Pair!PolicyAt,
         PairP!ApprovalIsSound, PairP!TypeOK, PairP!asking, PairP!InBody,
         PairP!Errors, PairP!AuditPaired, PairP!Events,
         PairP!GrantIsDecided, PairP!NeverIsNever, PairP!Grants,
         PairP!PolicyAt
<1>3. SingleP!Spec => []SingleP!ApprovalIsSound
  BY SingleP!ApprovalStaysSound
<1>4. SingleP!ApprovalIsSound /\ half = "single" => ApprovalIsSound
  BY DEF ApprovalIsSound, Single!Cardinality, SingleP!Cardinality,
         Single!ApprovalIsSound, Single!TypeOK, Single!asking,
         Single!InBody, Single!Errors, Single!AuditPaired, Single!Events,
         Single!GrantIsDecided, Single!NeverIsNever, Single!Grants,
         Single!PolicyAt, SingleP!ApprovalIsSound, SingleP!TypeOK,
         SingleP!asking, SingleP!InBody, SingleP!Errors,
         SingleP!AuditPaired, SingleP!Events, SingleP!GrantIsDecided,
         SingleP!NeverIsNever, SingleP!Grants, SingleP!PolicyAt
<1>5. RetriedP!Spec => []RetriedP!ApprovalIsSound
  BY RetriedP!ApprovalStaysSound
<1>6. RetriedP!ApprovalIsSound /\ half = "retried" => ApprovalIsSound
  BY DEF ApprovalIsSound, Retried!Cardinality, RetriedP!Cardinality,
         Retried!ApprovalIsSound, Retried!TypeOK, Retried!asking,
         Retried!InBody, Retried!Errors, Retried!AuditPaired,
         Retried!Events, Retried!GrantIsDecided, Retried!NeverIsNever,
         Retried!Grants, Retried!PolicyAt, RetriedP!ApprovalIsSound,
         RetriedP!TypeOK, RetriedP!asking, RetriedP!InBody,
         RetriedP!Errors, RetriedP!AuditPaired, RetriedP!Events,
         RetriedP!GrantIsDecided, RetriedP!NeverIsNever, RetriedP!Grants,
         RetriedP!PolicyAt
<1>7. half = "scheduler" => ApprovalIsSound
  BY DEF ApprovalIsSound
<1> QED
  BY <1>1, <1>2, <1>3, <1>4, <1>5, <1>6, <1>7,
     OneHalf, PairBehaves, SingleBehaves, RetriedBehaves, PTL

(* What is said of a body's effects, where no retry is composed            *)
(* (EffectsStayHonest of ToolExecutionProofs).                             *)
THEOREM EffectsStayHonest == MCSpec => []EffectsAreHonest
<1>1. PairP!Spec => []PairP!EffectsAreHonest
  BY PairP!EffectsStayHonest
<1>2. PairP!EffectsAreHonest /\ half = "pair" => EffectsAreHonest
  BY DEF EffectsAreHonest, Pair!EffectsAreHonest, Pair!CodeIsHonest,
         Pair!StoredBeforeEffect, PairP!EffectsAreHonest,
         PairP!CodeIsHonest, PairP!StoredBeforeEffect
<1>3. SingleP!Spec => []SingleP!EffectsAreHonest
  BY SingleP!EffectsStayHonest
<1>4. SingleP!EffectsAreHonest /\ half = "single" => EffectsAreHonest
  BY DEF EffectsAreHonest, Single!EffectsAreHonest, Single!CodeIsHonest,
         Single!StoredBeforeEffect, SingleP!EffectsAreHonest,
         SingleP!CodeIsHonest, SingleP!StoredBeforeEffect
<1>5. half = "scheduler" => EffectsAreHonest
  BY DEF EffectsAreHonest
<1>6. half = "retried" => EffectsAreHonest
  BY DEF EffectsAreHonest
<1> QED
  BY <1>1, <1>2, <1>3, <1>4, <1>5, <1>6,
     OneHalf, PairBehaves, SingleBehaves, PTL

(* No outcome of a call is replaced once it is known, with or without a    *)
(* retry (OutcomesAreKept of ToolExecutionProofs).                         *)
THEOREM OutcomesAreKept == MCSpec => OutcomeIsKept
<1>1. PairP!Spec => [][PairP!KeepsOutcome]_PairP!vars
  BY PairP!OutcomesAreKept
<1>2. [PairP!KeepsOutcome]_PairP!vars => [Pair!KeepsOutcome]_executed
  BY DEF executed, Pair!KeepsOutcome, PairP!KeepsOutcome, PairP!vars, PairP!asking
<1>3. SingleP!Spec => [][SingleP!KeepsOutcome]_SingleP!vars
  BY SingleP!OutcomesAreKept
<1>4. [SingleP!KeepsOutcome]_SingleP!vars => [Single!KeepsOutcome]_executed
  BY DEF executed, Single!KeepsOutcome, SingleP!KeepsOutcome, SingleP!vars, SingleP!asking
<1>5. RetriedP!Spec => [][RetriedP!KeepsOutcome]_RetriedP!vars
  BY RetriedP!OutcomesAreKept
<1>6. [RetriedP!KeepsOutcome]_RetriedP!vars => [Retried!KeepsOutcome]_executed
  BY DEF executed, Retried!KeepsOutcome, RetriedP!KeepsOutcome, RetriedP!vars, RetriedP!asking
<1>7. half = "scheduler" =>
       [/\ half = "pair" => Pair!KeepsOutcome
        /\ half = "single" => Single!KeepsOutcome
        /\ half = "retried" => Retried!KeepsOutcome]_executed
  OBVIOUS
<1>8. half = "pair" /\ [Pair!KeepsOutcome]_executed =>
       [/\ half = "pair" => Pair!KeepsOutcome
        /\ half = "single" => Single!KeepsOutcome
        /\ half = "retried" => Retried!KeepsOutcome]_executed
  OBVIOUS
<1>9. half = "single" /\ [Single!KeepsOutcome]_executed =>
       [/\ half = "pair" => Pair!KeepsOutcome
        /\ half = "single" => Single!KeepsOutcome
        /\ half = "retried" => Retried!KeepsOutcome]_executed
  OBVIOUS
<1>10. half = "retried" /\ [Retried!KeepsOutcome]_executed =>
       [/\ half = "pair" => Pair!KeepsOutcome
        /\ half = "single" => Single!KeepsOutcome
        /\ half = "retried" => Retried!KeepsOutcome]_executed
  OBVIOUS
<1> QED
  BY <1>1, <1>2, <1>3, <1>4, <1>5, <1>6, <1>7, <1>8, <1>9, <1>10,
     OneHalf, PairBehaves, SingleBehaves, RetriedBehaves, PTL DEF OutcomeIsKept
=============================================================================
