------------------------- MODULE WriteBehindProofs -------------------------
(***************************************************************************)
(* Proofs about WriteBehind for any set of callers of flush and any number *)
(* of events: nothing is lost, the queue is moving, and the contract of    *)
(* DurableLog is kept.  Then about SessionOwnership for any sessions of an *)
(* id and any number of events, reloads and failures: no session continues *)
(* another's log, a write finds its own session's state, and what is let   *)
(* go is stored.  At the end, what MCPersistence checks of the latter.     *)
(***************************************************************************)
EXTENDS MCPersistence, Integers, SequenceTheorems, FiniteSetTheorems, TLAPS

---------------------------------------------------------------------------
(* The inductive invariant, in named parts.                                *)

(* The first event that is not known to be stored: what is behind it is in *)
(* the active batch and the queue.                                         *)
OldestOpen == log - Len(pending) - Len(batch)

(* The batch and the queue are the end of the log, in its order.           *)
Ordered ==
  /\ Len(batch) + Len(pending) <= log
  /\ \A i \in DOMAIN batch : batch[i] = OldestOpen + i - 1
  /\ \A i \in DOMAIN pending : pending[i] = OldestOpen + Len(batch) + i - 1

(* Events before the head are stored, or initialisation will store them.   *)
Covered ==
  /\ init = "none" => /\ pending = <<>> /\ active = "none"
                      /\ \A f \in Flushers : caller[f] # "init"
  /\ init = "running" => OldestOpen <= seed
  /\ init = "done" => OldestOpen <= Len(stored)
  /\ active = "backend" \/ barrier # "none" => init = "done"

(* What a write leaves behind, and who is waiting for it.                  *)
WriteFollows ==
  /\ active \in {"none", "landed", "failed"} => batch = <<>>
  /\ active = "landed" => outcome = "ok"
  /\ active # "none" /\ ~background => barrier = "write"
  /\ barrier = "write" /\ (active = "failed" \/ (active = "none" /\ outcome = "failed")) => paused

(* A deadline is remembered only for a write that will be continued.       *)
ExpiryFollows ==
  /\ barrier # "none" \/ active = "failed" => ~expired
  /\ active # "none" /\ resuming => ~expired

(* Who waits for the barrier has one; and teardown flushes last.           *)
FlushFollows ==
  /\ \A f \in Flushers : caller[f] = "barrier" => barrier # "none"
  /\ life # "open" /\ caller[Teardown] # "init" =>
       init # "running" /\ \A f \in Callers : caller[f] # "init"

(* Once teardown is answered, nothing writes any more.                     *)
TeardownIsLast ==
  life # "open" /\ caller[Teardown] \notin {"init", "barrier"} /\ init # "failed" =>
    /\ ~timer /\ active = "none" /\ barrier = "none"
    /\ expired => pending = <<>>

(* The stored log is a prefix of the session's.                            *)
StoredIsPrefix == stored = Numbers(Len(stored)) /\ Len(stored) <= log

Control == Covered /\ WriteFollows /\ ExpiryFollows /\ FlushFollows

(* The backend closes after teardown is answered.                          *)
ClosedIsAnswered == life = "closed" => caller[Teardown] \notin {"init", "barrier"}

IInv == /\ TypeOK /\ Ordered /\ Control /\ QueueIsMoving
        /\ TeardownIsLast /\ ClosedIsAnswered /\ StoredIsPrefix

---------------------------------------------------------------------------
(* Lengths and elements of the queue and the batch.                        *)
LEMMA SequenceFacts ==
  ASSUME TypeOK
  PROVE  /\ Len(pending) \in Nat /\ DOMAIN pending = 1..Len(pending)
         /\ Len(batch) \in Nat /\ DOMAIN batch = 1..Len(batch)
         /\ Len(stored) \in Nat /\ log \in Nat /\ seed \in Nat
         /\ pending = <<>> <=> Len(pending) = 0
         /\ batch = <<>> <=> Len(batch) = 0
         /\ OldestOpen \in Int
  <1>1. /\ Len(pending) \in Nat /\ DOMAIN pending = 1..Len(pending)
        /\ Len(batch) \in Nat /\ DOMAIN batch = 1..Len(batch)
        /\ Len(stored) \in Nat /\ log \in Nat /\ seed \in Nat
    BY MaxEventsAssumption, LenProperties DEF TypeOK
  <1>2. (pending = <<>> <=> Len(pending) = 0) /\ (batch = <<>> <=> Len(batch) = 0)
    BY EmptySeq DEF TypeOK
  <1> QED
    BY <1>1, <1>2 DEF OldestOpen

(* The first numbers are a sequence of events.                             *)
LEMMA NumbersType ==
  ASSUME NEW n \in 0..MaxEvents
  PROVE  /\ Numbers(n) \in Seq(0..MaxEvents) /\ Len(Numbers(n)) = n
         /\ \A i \in 1..n : Numbers(n)[i] = i - 1
  <1>1. n \in Nat /\ \A i \in 1..n : i - 1 \in 0..MaxEvents
    BY MaxEventsAssumption
  <1>2. Numbers(n) \in [1..n -> 0..MaxEvents]
    BY <1>1 DEF Numbers
  <1>3. Numbers(n) \in Seq(0..MaxEvents)
    BY <1>1, <1>2, SeqDef
  <1> QED
    BY <1>1, <1>2, <1>3, LenProperties DEF Numbers

(* What a write appends: what is left of the batch after the stored log.   *)
LEMMA FreshFacts ==
  ASSUME TypeOK, Ordered, OldestOpen <= Len(stored)
  PROVE  /\ Fresh \in Seq(0..MaxEvents)
         /\ Len(Fresh) = IF Len(stored) <= OldestOpen + Len(batch)
                           THEN OldestOpen + Len(batch) - Len(stored) ELSE 0
         /\ \A i \in 1..Len(Fresh) : Fresh[i] = Len(stored) + i - 1
  <1> DEFINE k == IF Len(stored) <= OldestOpen + Len(batch) THEN Len(stored) - OldestOpen ELSE Len(batch)
  <1>1. /\ Len(batch) \in Nat /\ DOMAIN batch = 1..Len(batch)
        /\ Len(stored) \in Nat /\ OldestOpen \in Int
    BY SequenceFacts
  <1>2. k \in 0..Len(batch)
    BY <1>1
  <1>3. Stale = 1..k
    BY <1>1 DEF Stale, Ordered
  <1>4. k = IF Len(stored) <= OldestOpen + Len(batch) THEN Len(stored) - OldestOpen ELSE Len(batch)
    OBVIOUS
  <1> HIDE DEF k
  <1>5. Cardinality(Stale) = k
    BY <1>2, <1>3, FS_Interval
  <1>6. Fresh = SubSeq(batch, k + 1, Len(batch))
    BY <1>5 DEF Fresh
  <1>7. \A i \in (k + 1)..Len(batch) : batch[i] \in 0..MaxEvents
    <2>1. batch \in Seq(0..MaxEvents)
      BY DEF TypeOK
    <2>2. \A i \in 1..Len(batch) : batch[i] \in 0..MaxEvents
      BY <2>1, ElementOfSeq
    <2> QED
      BY <1>1, <1>2, <2>2
  <1>8. k + 1 \in Int /\ Len(batch) \in Int
    BY <1>1, <1>2
  <1>9. /\ Fresh \in Seq(0..MaxEvents)
        /\ Len(Fresh) = IF k + 1 <= Len(batch) THEN Len(batch) - (k + 1) + 1 ELSE 0
        /\ \A i \in 1..(Len(batch) - (k + 1) + 1) : Fresh[i] = batch[k + 1 + i - 1]
    BY <1>6, <1>7, <1>8, SubSeqProperties
  <1>a. k \in Nat /\ k <= Len(batch) /\ Len(batch) \in Nat
    BY <1>1, <1>2
  <1>b. Len(Fresh) = IF k + 1 <= Len(batch) THEN Len(batch) - (k + 1) + 1 ELSE 0
    BY <1>9
  <1>10. Len(Fresh) = Len(batch) - k
    BY <1>a, <1>b
  <1>11. ASSUME NEW i \in 1..Len(Fresh) PROVE Fresh[i] = Len(stored) + i - 1
    <2>1. k + i \in 1..Len(batch) /\ Fresh[i] = batch[k + i]
      BY <1>a, <1>9, <1>10
    <2>2. batch[k + i] = OldestOpen + (k + i) - 1
      BY <1>1, <2>1 DEF Ordered
    <2>3. k # Len(batch)
      BY <1>a, <1>10
    <2>4. k = Len(stored) - OldestOpen
      BY <1>4, <2>3
    <2> QED
      BY <1>1, <1>a, <2>1, <2>2, <2>4
  <1>12. Len(Fresh) = IF Len(stored) <= OldestOpen + Len(batch) THEN OldestOpen + Len(batch) - Len(stored) ELSE 0
    <2>1. CASE Len(stored) <= OldestOpen + Len(batch)
      <3>1. k = Len(stored) - OldestOpen
        BY <1>4, <2>1
      <3> QED
        BY <1>1, <1>10, <2>1, <3>1
    <2>2. CASE ~(Len(stored) <= OldestOpen + Len(batch))
      <3>1. k = Len(batch)
        BY <1>4, <2>2
      <3> QED
        BY <1>1, <1>10, <2>2, <3>1
    <2> QED
      BY <2>1, <2>2
  <1> QED
    BY <1>9, <1>11, <1>12

(* Calling flush keeps the types.                                          *)
LEMMA FlushCallTypes ==
  ASSUME TypeOK, NEW f \in Flushers, FlushCall(f),
         life' \in {"open", "teardown", "closed"}, tried' \in BOOLEAN
  PROVE  TypeOK'
  <1>1. caller' \in [Flushers -> {"idle", "init", "barrier", "ok", "rejected"}]
    BY DEF TypeOK, FlushCall
  <1>2. due' \in [Flushers -> 0..log]
    <2>1. log \in 0..log
      BY MaxEventsAssumption DEF TypeOK
    <2> QED
      BY <2>1 DEF TypeOK, FlushCall
  <1>3. init' \in {"none", "running", "done", "failed"} /\ seed' \in 0..log
    BY MaxEventsAssumption DEF TypeOK, FlushCall, InitFor, initVars
  <1> QED
    BY <1>1, <1>2, <1>3 DEF TypeOK, FlushCall, writeVars

(* A round of the barrier's loop keeps the types.                          *)
LEMMA DrainTypes ==
  ASSUME TypeOK, barrier # "none", DrainLoop, paused' \in BOOLEAN,
         UNCHANGED <<log, stored, initVars, due, life, tried>>
  PROVE  TypeOK'
  <1>1. ~timer
    BY DEF TypeOK
  <1>2. CASE pending # <<>> /\ StartWrite(FALSE) /\ barrier' = "write" /\ UNCHANGED <<caller, resuming>>
    BY <1>2, EmptySeq DEF TypeOK, StartWrite, initVars
  <1>3. CASE /\ pending = <<>> /\ barrier' = "none" /\ Settle("ok")
             /\ UNCHANGED <<pending, timer, expired, writeVars>>
    <2>1. caller' \in [Flushers -> {"idle", "init", "barrier", "ok", "rejected"}]
      BY <1>3 DEF Settle, TypeOK
    <2> QED
      BY <1>1, <1>3, <2>1 DEF TypeOK, writeVars, initVars
  <1> QED
    BY <1>2, <1>3 DEF DrainLoop

(* Every step keeps the types.                                             *)
LEMMA TypeStep ==
  ASSUME TypeOK, Ordered, Control, [Next]_vars
  PROVE  TypeOK'
  <1>1. CASE SessionCreated
    BY <1>1, MaxEventsAssumption, EmptySeq DEF SessionCreated, InitFor, TypeOK,
       queueVars, writeVars, flushVars, initVars
  <1>2. CASE InitSucceeds
    <2>1. seed \in 0..MaxEvents
      BY MaxEventsAssumption DEF TypeOK
    <2>2. stored' \in Seq(0..MaxEvents)
      BY <1>2, <2>1, NumbersType DEF InitSucceeds, TypeOK
    <2> QED
      BY <1>2, <2>2 DEF InitSucceeds, TypeOK, queueVars, writeVars, flushVars
  <1>3. CASE InitFails
    BY <1>3, MaxEventsAssumption, EmptySeq DEF InitFails, TypeOK, queueVars,
       writeVars, flushVars
  <1>4. CASE Enqueue
    <2>1. log \in 0..MaxEvents /\ log + 1 \in 0..MaxEvents
      BY <1>4, MaxEventsAssumption DEF Enqueue, TypeOK
    <2>2. pending' \in Seq(0..MaxEvents) /\ pending' # <<>>
      BY <1>4, <2>1, AppendProperties, EmptySeq DEF Enqueue, TypeOK
    <2>3. due' \in [Flushers -> 0..log'] /\ seed' \in 0..log'
      BY <1>4, <2>1 DEF Enqueue, InitFor, initVars, flushVars, TypeOK
    <2>4. timer' => barrier' = "none" /\ ~paused'
      BY <1>4 DEF Enqueue, Arms, flushVars, TypeOK
    <2> QED
      BY <1>4, <2>1, <2>2, <2>3, <2>4 DEF Enqueue, InitFor, initVars, writeVars,
         flushVars, TypeOK, Arms
  <1>5. CASE Deadline
    BY <1>5, MaxEventsAssumption, EmptySeq DEF Deadline, FindsIdle, StartWrite,
       Settled, TypeOK, flushVars, initVars
  <1>6. CASE ContinueAutomatic
    <2>1. batch' \in Seq(0..MaxEvents) /\ pending' \in Seq(0..MaxEvents)
      BY <1>6, EmptySeq DEF ContinueAutomatic, StartWrite, TypeOK
    <2>2. expired' \in BOOLEAN /\ background' \in BOOLEAN /\ resuming' \in BOOLEAN
      BY <1>6 DEF ContinueAutomatic, StartWrite, TypeOK
    <2>4. timer' = FALSE \/ (timer' = timer /\ pending' = pending)
      BY <1>6 DEF ContinueAutomatic, StartWrite
    <2>3. active' \in {"none", "ready", "backend", "landed", "failed"}
      BY <1>6 DEF ContinueAutomatic, StartWrite, TypeOK
    <2>5. UNCHANGED <<log, stored, init, seed, paused, barrier, caller, due, life, tried, outcome>>
      BY <1>6 DEF ContinueAutomatic, StartWrite, initVars, flushVars
    <2>6. timer' => pending' # <<>> /\ barrier' = "none" /\ ~paused'
      <3>1. timer => pending # <<>> /\ barrier = "none" /\ ~paused
        BY DEF TypeOK
      <3> QED
        BY <2>4, <2>5, <3>1
    <2>7. {timer', expired', paused', background', resuming', tried'} \subseteq BOOLEAN
      BY <2>2, <2>4, <2>5 DEF TypeOK
    <2> QED
      BY <2>1, <2>3, <2>5, <2>6, <2>7 DEF TypeOK
  <1>7. CASE AskBackend
    BY <1>7, MaxEventsAssumption, EmptySeq DEF AskBackend, TypeOK, queueVars,
       flushVars, initVars
  <1>8. CASE WriteLands
    <2>1. Fresh \in Seq(0..MaxEvents)
      BY <1>8, FreshFacts DEF WriteLands, Control, Covered
    <2>2. stored' \in Seq(0..MaxEvents)
      BY <1>8, <2>1, ConcatProperties DEF WriteLands, TypeOK
    <2> QED
      BY <1>8, <2>2, EmptySeq DEF WriteLands, TypeOK, queueVars, flushVars, initVars
  <1>9. CASE WriteFails
    <2>1. pending' \in Seq(0..MaxEvents)
      BY <1>9, ConcatProperties DEF WriteFails, TypeOK
    <2> QED
      BY <1>9, <2>1, EmptySeq DEF WriteFails, TypeOK, flushVars, initVars
  <1>10. CASE ClearActive
    BY <1>10, MaxEventsAssumption, EmptySeq DEF ClearActive, TypeOK, queueVars,
       flushVars, initVars
  <1>11. ASSUME NEW f \in Callers, SessionFlush(f) PROVE TypeOK'
    <2>1. f \in Flushers /\ UNCHANGED <<life, tried>>
      BY <1>11 DEF SessionFlush, Flushers
    <2> QED
      BY <1>11, <2>1, FlushCallTypes DEF SessionFlush, TypeOK
  <1>12. ASSUME NEW f \in Flushers, FlushJoins(f) PROVE TypeOK'
    BY <1>12, MaxEventsAssumption, EmptySeq DEF FlushJoins, Resumes, TypeOK,
       queueVars, writeVars, initVars
  <1>13. ASSUME NEW f \in Flushers, FlushOpens(f) PROVE TypeOK'
    BY <1>13, MaxEventsAssumption, EmptySeq DEF FlushOpens, Resumes, Overlaps,
       StartWrite, TypeOK, writeVars, initVars
  <1>14. ASSUME NEW f \in Flushers, FlushRefused(f) PROVE TypeOK'
    BY <1>14, MaxEventsAssumption, EmptySeq DEF FlushRefused, Resumes, TypeOK,
       writeVars, initVars
  <1>15. CASE OverlapSettles
    BY <1>15, DrainTypes DEF OverlapSettles
  <1>16. CASE BarrierResumes
    <2>1. CASE outcome = "ok" /\ DrainLoop
      BY <1>16, <2>1, DrainTypes DEF BarrierResumes, TypeOK
    <2>2. CASE outcome = "failed" /\ barrier' = "none" /\ Settle("rejected") /\ UNCHANGED <<pending, timer, expired, writeVars>>
      <3>1. caller' \in [Flushers -> {"idle", "init", "barrier", "ok", "rejected"}]
        BY <2>2 DEF Settle, TypeOK
      <3> QED
        BY <1>16, <2>2, <3>1 DEF BarrierResumes, TypeOK, writeVars, initVars
    <2> QED
      BY <1>16, <2>1, <2>2 DEF BarrierResumes
  <1>17. CASE BeginTeardown
    <2>1. Teardown \in Flushers /\ life' \in {"open", "teardown", "closed"} /\ tried' \in BOOLEAN
      BY <1>17 DEF BeginTeardown, Flushers
    <2>2. CASE UNCHANGED <<log, stored, initVars, queueVars, writeVars, flushVars>>
      BY <2>1, <2>2 DEF TypeOK, initVars, queueVars, writeVars, flushVars
    <2> QED
      BY <1>17, <2>1, <2>2, FlushCallTypes DEF BeginTeardown
  <1>18. CASE Close
    BY <1>18, MaxEventsAssumption, EmptySeq DEF Close, MayClose, TypeOK, queueVars,
       writeVars, flushVars, initVars
  <1>19. CASE UNCHANGED vars
    BY <1>19, MaxEventsAssumption, EmptySeq DEF vars, TypeOK, queueVars, writeVars,
       flushVars, initVars
  <1> QED
    BY <1>1, <1>2, <1>3, <1>4, <1>5, <1>6, <1>7, <1>8, <1>9, <1>10,
       <1>11, <1>12, <1>13, <1>14, <1>15, <1>16, <1>17, <1>18, <1>19 DEF Next

(* Every step keeps the batch and the queue the end of the log: a write    *)
(* takes the queue over, and a failed one puts its batch back in front.    *)
LEMMA OrderedStep ==
  ASSUME TypeOK, Ordered, Control, [Next]_vars
  PROVE  Ordered'
  <1>0. /\ Len(pending) \in Nat /\ DOMAIN pending = 1..Len(pending)
        /\ Len(batch) \in Nat /\ DOMAIN batch = 1..Len(batch)
        /\ Len(stored) \in Nat /\ log \in Nat /\ Len(<<>>) = 0
    BY SequenceFacts, EmptySeq
  <1>a. ASSUME UNCHANGED <<log, pending, batch>> PROVE Ordered'
    BY <1>a DEF Ordered, OldestOpen
  <1>b. ASSUME UNCHANGED log, batch = <<>>, batch' = pending, pending' = <<>> PROVE Ordered'
    BY <1>0, <1>b DEF Ordered, OldestOpen
  <1>c. active = "none" => batch = <<>>
    BY DEF Control, WriteFollows
  <1>h. OldestOpen \in Int
    BY <1>0 DEF OldestOpen
  <1>1. CASE SessionCreated
    BY <1>1, <1>a DEF SessionCreated, queueVars, writeVars
  <1>2. CASE InitSucceeds
    BY <1>2, <1>a DEF InitSucceeds, queueVars, writeVars
  <1>3. CASE InitFails
    BY <1>3, <1>a DEF InitFails, queueVars, writeVars
  <1>4. CASE Enqueue
    <2>1. /\ Len(pending') = Len(pending) + 1 /\ pending'[Len(pending) + 1] = log
          /\ DOMAIN pending' = 1..(Len(pending) + 1)
          /\ \A i \in 1..Len(pending) : pending'[i] = pending[i]
      <3>1. pending \in Seq(0..MaxEvents) /\ log \in 0..MaxEvents /\ pending' = Append(pending, log)
        BY <1>4 DEF Enqueue, TypeOK
      <3> QED
        BY <1>0, <3>1, AppendProperties
    <2>2. batch' = batch /\ log' = log + 1 /\ OldestOpen' = OldestOpen
      BY <1>4, <1>0, <2>1 DEF Enqueue, writeVars, OldestOpen
    <2> QED
      BY <1>0, <2>1, <2>2 DEF Ordered, OldestOpen
  <1>5. CASE Deadline
    BY <1>5, <1>a, <1>b, <1>c DEF Deadline, FindsIdle, StartWrite
  <1>6. CASE ContinueAutomatic
    <2>1. CASE Continues /\ StartWrite(TRUE)
      <3>1. active = "none"
        BY <1>6, <2>1 DEF ContinueAutomatic, Continues, Control, ExpiryFollows
      <3> QED
        BY <1>6, <2>1, <3>1, <1>b, <1>c DEF ContinueAutomatic, StartWrite
    <2> QED
      BY <1>6, <2>1, <1>a DEF ContinueAutomatic
  <1>7. CASE AskBackend
    BY <1>7, <1>a DEF AskBackend, queueVars
  <1>8. CASE WriteLands
    <2>1. batch' = <<>> /\ UNCHANGED <<log, pending>>
      BY <1>8 DEF WriteLands, queueVars
    <2>2. Len(batch') = 0 /\ DOMAIN batch' = {} /\ OldestOpen' = OldestOpen + Len(batch)
      BY <1>0, <2>1 DEF OldestOpen
    <2> QED
      BY <1>0, <2>1, <2>2 DEF Ordered, OldestOpen
  <1>9. CASE WriteFails
    <2>1. batch' = <<>> /\ UNCHANGED log /\ Len(batch') = 0 /\ DOMAIN batch' = {}
      BY <1>9, <1>0 DEF WriteFails
    <2>2. /\ Len(pending') = Len(batch) + Len(pending)
          /\ DOMAIN pending' = 1..(Len(batch) + Len(pending))
          /\ \A i \in 1..(Len(batch) + Len(pending)) :
                pending'[i] = IF i <= Len(batch) THEN batch[i] ELSE pending[i - Len(batch)]
      <3>1. pending \in Seq(0..MaxEvents) /\ batch \in Seq(0..MaxEvents)
            /\ pending' = batch \o pending
        BY <1>9 DEF WriteFails, TypeOK
      <3> QED
        BY <3>1, ConcatProperties, LenProperties
    <2>3. OldestOpen' = OldestOpen
      BY <1>0, <2>1, <2>2 DEF OldestOpen
    <2>4. ASSUME NEW i \in 1..(Len(batch) + Len(pending)) PROVE pending'[i] = OldestOpen + i - 1
      <3>1. CASE i <= Len(batch)
        BY <1>0, <2>2, <3>1 DEF Ordered
      <3>2. CASE ~(i <= Len(batch))
        <4>1. i - Len(batch) \in 1..Len(pending)
          BY <1>0, <3>2
        <4>2. pending[i - Len(batch)] = OldestOpen + Len(batch) + (i - Len(batch)) - 1
          BY <1>0, <4>1 DEF Ordered
        <4> QED
          BY <1>0, <1>h, <2>2, <3>2, <4>2
      <3> QED
        BY <3>1, <3>2
    <2>5. Len(batch') + Len(pending') <= log'
      BY <1>0, <2>1, <2>2 DEF Ordered
    <2> QED
      BY <1>0, <1>h, <2>1, <2>2, <2>3, <2>4, <2>5 DEF Ordered
  <1>10. CASE ClearActive
    BY <1>10, <1>a DEF ClearActive, queueVars
  <1>11. ASSUME NEW f \in Callers, SessionFlush(f) PROVE Ordered'
    BY <1>11, <1>a DEF SessionFlush, FlushCall, writeVars
  <1>12. ASSUME NEW f \in Flushers, FlushJoins(f) PROVE Ordered'
    BY <1>12, <1>a DEF FlushJoins, queueVars, writeVars
  <1>13. ASSUME NEW f \in Flushers, FlushOpens(f) PROVE Ordered'
    BY <1>13, <1>a, <1>b, <1>c DEF FlushOpens, Overlaps, StartWrite, writeVars
  <1>14. ASSUME NEW f \in Flushers, FlushRefused(f) PROVE Ordered'
    BY <1>14, <1>a DEF FlushRefused, writeVars
  <1>15. CASE OverlapSettles
    BY <1>15, <1>a, <1>b, <1>c DEF OverlapSettles, DrainLoop, StartWrite, writeVars
  <1>16. CASE BarrierResumes
    BY <1>16, <1>a, <1>b, <1>c DEF BarrierResumes, DrainLoop, StartWrite, writeVars
  <1>17. CASE BeginTeardown
    BY <1>17, <1>a DEF BeginTeardown, FlushCall, queueVars, writeVars
  <1>18. CASE Close
    BY <1>18, <1>a DEF Close, queueVars, writeVars
  <1>19. CASE UNCHANGED vars
    BY <1>19, <1>a DEF vars
  <1> QED
    BY <1>1, <1>2, <1>3, <1>4, <1>5, <1>6, <1>7, <1>8, <1>9, <1>10,
       <1>11, <1>12, <1>13, <1>14, <1>15, <1>16, <1>17, <1>18, <1>19 DEF Next

(* Every step keeps what is before the head stored, or in the snapshot     *)
(* that initialisation will store.                                         *)
LEMMA CoveredStep ==
  ASSUME TypeOK, Ordered, Control, [Next]_vars
  PROVE  Covered'
  <1>0. /\ Len(pending) \in Nat /\ Len(batch) \in Nat /\ Len(stored) \in Nat
        /\ log \in Nat /\ seed \in Nat /\ OldestOpen \in Int
        /\ Len(<<>>) = 0 /\ OldestOpen <= log
    BY SequenceFacts, EmptySeq DEF OldestOpen
  <1>a. active = "none" => batch = <<>>
    BY DEF Control, WriteFollows
  <1>b. ASSUME UNCHANGED <<log, pending, batch>> PROVE OldestOpen' = OldestOpen
    BY <1>b DEF OldestOpen
  <1>c. ASSUME UNCHANGED log, batch = <<>>, batch' = pending, pending' = <<>>
        PROVE OldestOpen' = OldestOpen
    BY <1>0, <1>c DEF OldestOpen
  <1>d. Covered
    BY DEF Control
  <1>e. init = "none" => batch = <<>> /\ OldestOpen = log
    BY <1>0, <1>a, <1>d DEF Covered, OldestOpen
  <1>f. ASSUME NEW g \in Flushers, FlushCall(g) PROVE Covered'
    <2>1. OldestOpen' = OldestOpen /\ UNCHANGED <<stored, pending, active, barrier, log>>
      BY <1>b, <1>f DEF FlushCall, writeVars
    <2>2. CASE init = "none"
      <3>1. init' = "running" /\ seed' = log
        BY <1>f, <2>2 DEF FlushCall, InitFor
      <3> QED
        BY <1>0, <1>d, <2>1, <2>2, <3>1 DEF Covered
    <2>3. CASE init # "none"
      <3>1. UNCHANGED <<init, seed>>
        BY <1>f, <2>3 DEF FlushCall, InitFor, initVars
      <3> QED
        BY <1>d, <2>1, <2>3, <3>1 DEF Covered
    <2> QED
      BY <2>2, <2>3
  <1>1. CASE SessionCreated
    <2>1. OldestOpen' = OldestOpen /\ init' = "running" /\ seed' = log
          /\ UNCHANGED <<active, barrier>>
      BY <1>1, <1>b DEF SessionCreated, InitFor, queueVars, writeVars, flushVars
    <2> QED
      BY <1>1, <1>0, <1>d, <2>1 DEF Covered, SessionCreated
  <1>2. CASE InitSucceeds
    <2>1. OldestOpen' = OldestOpen /\ init = "running" /\ init' = "done"
      BY <1>2, <1>b DEF InitSucceeds, queueVars, writeVars
    <2>2. seed \in 0..MaxEvents
      BY MaxEventsAssumption DEF TypeOK
    <2>3. seed <= Len(stored')
      BY <1>2, <1>0, <2>2, NumbersType DEF InitSucceeds
    <2>4. Len(stored') \in Nat
      BY <1>2, <1>0, <2>2, NumbersType DEF InitSucceeds
    <2> QED
      BY <1>0, <1>d, <2>1, <2>3, <2>4 DEF Covered
  <1>3. CASE InitFails
    BY <1>3, <1>d DEF InitFails, Covered, writeVars, flushVars
  <1>4. CASE Enqueue
    <2>1. OldestOpen' = OldestOpen
      <3>1. Len(pending') = Len(pending) + 1 /\ log' = log + 1 /\ batch' = batch
        BY <1>4, AppendProperties DEF Enqueue, writeVars, TypeOK
      <3> QED
        BY <1>0, <3>1 DEF OldestOpen
    <2>2. UNCHANGED <<stored, active, barrier>>
      BY <1>4 DEF Enqueue, writeVars, flushVars
    <2>3. CASE init = "none"
      <3>1. init' = "running" /\ seed' = log + 1
        BY <1>4, <2>3 DEF Enqueue, InitFor
      <3> QED
        BY <1>0, <1>d, <1>e, <2>1, <2>2, <2>3, <3>1 DEF Covered
    <2>4. CASE init # "none"
      <3>1. UNCHANGED <<init, seed>>
        BY <1>4, <2>4 DEF Enqueue, InitFor, initVars
      <3> QED
        BY <1>d, <2>1, <2>2, <2>4, <3>1 DEF Covered
    <2> QED
      BY <2>3, <2>4
  <1>5. CASE Deadline
    <2>1. OldestOpen' = OldestOpen
      BY <1>5, <1>a, <1>b, <1>c DEF Deadline, FindsIdle, StartWrite
    <2>2. timer /\ init # "none"
      BY <1>5, <1>d DEF Deadline, Covered, TypeOK
    <2> QED
      BY <1>5, <1>d, <2>1, <2>2 DEF Deadline, StartWrite, Covered, initVars, flushVars
  <1>6. CASE ContinueAutomatic
    <2>1. CASE Continues /\ StartWrite(TRUE)
      <3>1. active = "none" /\ init # "none"
        BY <1>6, <1>d, <2>1 DEF ContinueAutomatic, Continues, Control,
           ExpiryFollows, Covered
      <3>2. OldestOpen' = OldestOpen
        BY <1>6, <1>a, <1>c, <2>1, <3>1 DEF ContinueAutomatic, StartWrite
      <3> QED
        BY <1>6, <1>d, <2>1, <3>1, <3>2 DEF ContinueAutomatic, StartWrite,
           Covered, initVars, flushVars
    <2>2. CASE ~Continues
      <3>1. OldestOpen' = OldestOpen
        BY <1>6, <1>b, <2>2 DEF ContinueAutomatic
      <3> QED
        BY <1>6, <1>d, <2>2, <3>1 DEF ContinueAutomatic, Covered, initVars, flushVars
    <2> QED
      BY <1>6, <2>1, <2>2 DEF ContinueAutomatic
  <1>7. CASE AskBackend
    BY <1>7, <1>b, <1>d DEF AskBackend, queueVars, initVars, flushVars, Covered
  <1>8. CASE WriteLands
    <2>1. init = "done" /\ OldestOpen <= Len(stored)
      BY <1>8, <1>d DEF WriteLands, Covered
    <2>2. Fresh \in Seq(0..MaxEvents) /\ Len(Fresh) \in Nat
      BY <2>1, FreshFacts, LenProperties
    <2>3. Len(stored') = Len(stored) + Len(Fresh)
      BY <1>8, <2>2, ConcatProperties DEF WriteLands, TypeOK
    <2>4. OldestOpen' = OldestOpen + Len(batch)
      BY <1>8, <1>0 DEF WriteLands, queueVars, OldestOpen
    <2>5. Len(Fresh) = IF Len(stored) <= OldestOpen + Len(batch) THEN OldestOpen + Len(batch) - Len(stored) ELSE 0
      BY <2>1, FreshFacts
    <2>6. OldestOpen' <= Len(stored')
      BY <1>0, <2>2, <2>3, <2>4, <2>5
    <2> QED
      BY <1>8, <2>1, <2>6 DEF WriteLands, Covered, initVars
  <1>9. CASE WriteFails
    <2>1. OldestOpen' = OldestOpen
      <3>1. Len(pending') = Len(batch) + Len(pending) /\ batch' = <<>> /\ log' = log
        BY <1>9, ConcatProperties DEF WriteFails, TypeOK
      <3> QED
        BY <1>0, <3>1 DEF OldestOpen
    <2> QED
      BY <1>9, <2>1, <1>d DEF WriteFails, Covered, initVars, flushVars
  <1>10. CASE ClearActive
    BY <1>10, <1>b, <1>d DEF ClearActive, queueVars, initVars, flushVars, Covered
  <1>11. ASSUME NEW f \in Callers, SessionFlush(f) PROVE Covered'
    <2>1. f \in Flushers
      BY DEF Flushers
    <2> QED
      BY <1>11, <2>1, <1>f DEF SessionFlush
  <1>12. ASSUME NEW f \in Flushers, FlushJoins(f) PROVE Covered'
    BY <1>12, <1>b, <1>d DEF FlushJoins, initVars, queueVars, writeVars, Covered
  <1>13. ASSUME NEW f \in Flushers, FlushOpens(f) PROVE Covered'
    <2>1. init = "done" /\ init' = "done" /\ UNCHANGED stored
      BY <1>13 DEF FlushOpens, initVars
    <2>2. OldestOpen' = OldestOpen
      BY <1>13, <1>a, <1>b, <1>c DEF FlushOpens, Overlaps, StartWrite, writeVars
    <2> QED
      BY <1>d, <2>1, <2>2 DEF Covered
  <1>14. ASSUME NEW f \in Flushers, FlushRefused(f) PROVE Covered'
    BY <1>14, <1>d DEF FlushRefused, initVars, writeVars, Covered
  <1>15. CASE OverlapSettles
    <2>1. init = "done" /\ init' = "done" /\ UNCHANGED stored
      BY <1>15, <1>d DEF OverlapSettles, initVars, Covered
    <2>2. OldestOpen' = OldestOpen
      BY <1>15, <1>a, <1>b, <1>c DEF OverlapSettles, DrainLoop, StartWrite, writeVars
    <2> QED
      BY <1>d, <2>1, <2>2 DEF Covered
  <1>16. CASE BarrierResumes
    <2>1. init = "done" /\ init' = "done" /\ UNCHANGED stored
      BY <1>16, <1>d DEF BarrierResumes, initVars, Covered
    <2>2. OldestOpen' = OldestOpen
      BY <1>16, <1>a, <1>b, <1>c DEF BarrierResumes, DrainLoop, StartWrite, writeVars
    <2> QED
      BY <1>d, <2>1, <2>2 DEF Covered
  <1>17. CASE BeginTeardown
    <2>1. CASE FlushCall(Teardown)
      BY <1>17, <2>1, <1>f DEF BeginTeardown, Flushers
    <2>2. CASE UNCHANGED <<log, stored, initVars, queueVars, writeVars, flushVars>>
      BY <1>b, <1>d, <2>2 DEF initVars, queueVars, writeVars, flushVars, Covered
    <2> QED
      BY <1>17, <2>1, <2>2 DEF BeginTeardown
  <1>18. CASE Close
    BY <1>18, <1>b, <1>d DEF Close, initVars, queueVars, writeVars, flushVars, Covered
  <1>19. CASE UNCHANGED vars
    BY <1>19, <1>b, <1>d DEF vars, Covered
  <1> QED
    BY <1>1, <1>2, <1>3, <1>4, <1>5, <1>6, <1>7, <1>8, <1>9, <1>10,
       <1>11, <1>12, <1>13, <1>14, <1>15, <1>16, <1>17, <1>18, <1>19 DEF Next

(* Every step keeps what a write leaves behind.                             *)
LEMMA WriteStep ==
  ASSUME TypeOK, Control, [Next]_vars
  PROVE  WriteFollows'
  <1>1. CASE SessionCreated
    BY <1>1 DEF SessionCreated, InitFor, WriteFollows, Control, queueVars,
       writeVars, flushVars, initVars
  <1>2. CASE InitSucceeds
    BY <1>2 DEF InitSucceeds, WriteFollows, Control, queueVars, writeVars, flushVars
  <1>3. CASE InitFails
    BY <1>3 DEF InitFails, WriteFollows, Control, queueVars, writeVars, flushVars
  <1>4. CASE Enqueue
    BY <1>4 DEF Enqueue, InitFor, Arms, WriteFollows, Control, writeVars, flushVars,
       initVars
  <1>5. CASE Deadline
    BY <1>5 DEF Deadline, FindsIdle, StartWrite, Settled, WriteFollows, Control,
       flushVars, initVars
  <1>6. CASE ContinueAutomatic
    BY <1>6 DEF ContinueAutomatic, Continues, StartWrite, WriteFollows, Control,
       flushVars, initVars
  <1>7. CASE AskBackend
    BY <1>7 DEF AskBackend, WriteFollows, Control, queueVars, flushVars, initVars
  <1>8. CASE WriteLands
    BY <1>8 DEF WriteLands, WriteFollows, Control, queueVars, flushVars, initVars
  <1>9. CASE WriteFails
    BY <1>9 DEF WriteFails, WriteFollows, Control, flushVars, initVars
  <1>10. CASE ClearActive
    BY <1>10 DEF ClearActive, WriteFollows, Control, queueVars, flushVars, initVars
  <1>11. ASSUME NEW f \in Callers, SessionFlush(f) PROVE WriteFollows'
    BY <1>11 DEF SessionFlush, FlushCall, InitFor, WriteFollows, Control, writeVars,
       initVars
  <1>12. ASSUME NEW f \in Flushers, FlushJoins(f) PROVE WriteFollows'
    BY <1>12 DEF FlushJoins, Resumes, WriteFollows, Control, queueVars, writeVars, initVars
  <1>13. ASSUME NEW f \in Flushers, FlushOpens(f) PROVE WriteFollows'
    BY <1>13 DEF FlushOpens, Resumes, Overlaps, StartWrite, WriteFollows, Control,
       writeVars, initVars
  <1>14. ASSUME NEW f \in Flushers, FlushRefused(f) PROVE WriteFollows'
    BY <1>14 DEF FlushRefused, Resumes, WriteFollows, Control, writeVars, initVars
  <1>15. CASE OverlapSettles
    BY <1>15 DEF OverlapSettles, DrainLoop, Settle, StartWrite, WriteFollows,
       Control, writeVars, initVars
  <1>16. CASE BarrierResumes
    BY <1>16 DEF BarrierResumes, DrainLoop, Settle, StartWrite, WriteFollows,
       Control, writeVars, initVars
  <1>17. CASE BeginTeardown
    BY <1>17 DEF BeginTeardown, FlushCall, InitFor, WriteFollows, Control,
       queueVars, writeVars, flushVars, initVars
  <1>18. CASE Close
    BY <1>18 DEF Close, MayClose, WriteFollows, Control, queueVars, writeVars,
       flushVars, initVars
  <1>19. CASE UNCHANGED vars
    BY <1>19 DEF vars, WriteFollows, Control, queueVars, writeVars, flushVars, initVars
  <1> QED
    BY <1>1, <1>2, <1>3, <1>4, <1>5, <1>6, <1>7, <1>8, <1>9, <1>10,
       <1>11, <1>12, <1>13, <1>14, <1>15, <1>16, <1>17, <1>18, <1>19 DEF Next

(* Every step keeps that a deadline is remembered only for a write that    *)
(* will be continued.                                                      *)
LEMMA ExpiryStep ==
  ASSUME TypeOK, Control, [Next]_vars
  PROVE  ExpiryFollows'
  <1>1. CASE SessionCreated
    BY <1>1 DEF SessionCreated, InitFor, ExpiryFollows, Control, TypeOK, queueVars,
       writeVars, flushVars, initVars
  <1>2. CASE InitSucceeds
    BY <1>2 DEF InitSucceeds, ExpiryFollows, Control, TypeOK, queueVars, writeVars,
       flushVars
  <1>3. CASE InitFails
    BY <1>3 DEF InitFails, ExpiryFollows, Control, TypeOK, queueVars, writeVars, flushVars
  <1>4. CASE Enqueue
    BY <1>4 DEF Enqueue, InitFor, Arms, ExpiryFollows, Control, TypeOK, writeVars,
       flushVars, initVars
  <1>5. CASE Deadline
    BY <1>5 DEF Deadline, FindsIdle, StartWrite, Settled, ExpiryFollows, Control,
       TypeOK, flushVars, initVars
  <1>6. CASE ContinueAutomatic
    BY <1>6 DEF ContinueAutomatic, Continues, StartWrite, ExpiryFollows, Control,
       TypeOK, flushVars, initVars
  <1>7. CASE AskBackend
    BY <1>7 DEF AskBackend, ExpiryFollows, Control, TypeOK, queueVars, flushVars, initVars
  <1>8. CASE WriteLands
    BY <1>8 DEF WriteLands, ExpiryFollows, Control, TypeOK, queueVars, flushVars, initVars
  <1>9. CASE WriteFails
    BY <1>9 DEF WriteFails, ExpiryFollows, Control, TypeOK, flushVars, initVars
  <1>10. CASE ClearActive
    BY <1>10 DEF ClearActive, ExpiryFollows, Control, TypeOK, queueVars, flushVars, initVars
  <1>11. ASSUME NEW f \in Callers, SessionFlush(f) PROVE ExpiryFollows'
    BY <1>11 DEF SessionFlush, FlushCall, InitFor, ExpiryFollows, Control, TypeOK,
       writeVars, initVars
  <1>12. ASSUME NEW f \in Flushers, FlushJoins(f) PROVE ExpiryFollows'
    BY <1>12 DEF FlushJoins, Resumes, ExpiryFollows, Control, TypeOK, queueVars,
       writeVars, initVars
  <1>13. ASSUME NEW f \in Flushers, FlushOpens(f) PROVE ExpiryFollows'
    BY <1>13 DEF FlushOpens, Resumes, Overlaps, StartWrite, ExpiryFollows, Control,
       TypeOK, writeVars, initVars
  <1>14. ASSUME NEW f \in Flushers, FlushRefused(f) PROVE ExpiryFollows'
    BY <1>14 DEF FlushRefused, Resumes, ExpiryFollows, Control, TypeOK, writeVars, initVars
  <1>15. CASE OverlapSettles
    BY <1>15 DEF OverlapSettles, DrainLoop, Settle, StartWrite, ExpiryFollows,
       Control, TypeOK, writeVars, initVars
  <1>16. CASE BarrierResumes
    BY <1>16 DEF BarrierResumes, DrainLoop, Settle, StartWrite, ExpiryFollows,
       Control, TypeOK, writeVars, initVars
  <1>17. CASE BeginTeardown
    BY <1>17 DEF BeginTeardown, FlushCall, InitFor, ExpiryFollows, Control, TypeOK,
       queueVars, writeVars, flushVars, initVars
  <1>18. CASE Close
    BY <1>18 DEF Close, MayClose, ExpiryFollows, Control, TypeOK, queueVars,
       writeVars, flushVars, initVars
  <1>19. CASE UNCHANGED vars
    BY <1>19 DEF vars, ExpiryFollows, Control, TypeOK, queueVars, writeVars,
       flushVars, initVars
  <1> QED
    BY <1>1, <1>2, <1>3, <1>4, <1>5, <1>6, <1>7, <1>8, <1>9, <1>10,
       <1>11, <1>12, <1>13, <1>14, <1>15, <1>16, <1>17, <1>18, <1>19 DEF Next

(* Every step keeps the barrier of those who wait for it, and teardown's   *)
(* flush the last.                                                         *)
LEMMA FlushStep ==
  ASSUME TypeOK, Control, [Next]_vars
  PROVE  FlushFollows'
  <1>1. CASE SessionCreated
    BY <1>1, CallersAssumption DEF SessionCreated, InitFor, FlushFollows, Control,
       Flushers, TypeOK, queueVars, writeVars, flushVars, initVars
  <1>2. CASE InitSucceeds
    BY <1>2, CallersAssumption DEF InitSucceeds, FlushFollows, Control, Flushers,
       TypeOK, queueVars, writeVars, flushVars
  <1>3. CASE InitFails
    BY <1>3, CallersAssumption DEF InitFails, FlushFollows, Control, Flushers,
       TypeOK, queueVars, writeVars, flushVars
  <1>4. CASE Enqueue
    BY <1>4, CallersAssumption DEF Enqueue, InitFor, Arms, FlushFollows, Control,
       Flushers, TypeOK, writeVars, flushVars, initVars
  <1>5. CASE Deadline
    BY <1>5, CallersAssumption DEF Deadline, FindsIdle, StartWrite, Settled,
       FlushFollows, Control, Flushers, TypeOK, flushVars, initVars
  <1>6. CASE ContinueAutomatic
    BY <1>6, CallersAssumption DEF ContinueAutomatic, Continues, StartWrite,
       FlushFollows, Control, Flushers, TypeOK, flushVars, initVars
  <1>7. CASE AskBackend
    BY <1>7, CallersAssumption DEF AskBackend, FlushFollows, Control, Flushers,
       TypeOK, queueVars, flushVars, initVars
  <1>8. CASE WriteLands
    BY <1>8, CallersAssumption DEF WriteLands, FlushFollows, Control, Flushers,
       TypeOK, queueVars, flushVars, initVars
  <1>9. CASE WriteFails
    BY <1>9, CallersAssumption DEF WriteFails, FlushFollows, Control, Flushers,
       TypeOK, flushVars, initVars
  <1>10. CASE ClearActive
    BY <1>10, CallersAssumption DEF ClearActive, FlushFollows, Control, Flushers,
       TypeOK, queueVars, flushVars, initVars
  <1>11. ASSUME NEW f \in Callers, SessionFlush(f) PROVE FlushFollows'
    BY <1>11, CallersAssumption DEF SessionFlush, FlushCall, InitFor, FlushFollows,
       Control, Flushers, TypeOK, writeVars, initVars
  <1>12. ASSUME NEW f \in Flushers, FlushJoins(f) PROVE FlushFollows'
    BY <1>12, CallersAssumption DEF FlushJoins, Resumes, FlushFollows, Control,
       Flushers, TypeOK, queueVars, writeVars, initVars
  <1>13. ASSUME NEW f \in Flushers, FlushOpens(f) PROVE FlushFollows'
    BY <1>13, CallersAssumption DEF FlushOpens, Resumes, Overlaps, StartWrite,
       FlushFollows, Control, Flushers, TypeOK, writeVars, initVars
  <1>14. ASSUME NEW f \in Flushers, FlushRefused(f) PROVE FlushFollows'
    BY <1>14, CallersAssumption DEF FlushRefused, Resumes, FlushFollows, Control,
       Flushers, TypeOK, writeVars, initVars
  <1>15. CASE OverlapSettles
    BY <1>15, CallersAssumption DEF OverlapSettles, DrainLoop, Settle, StartWrite,
       FlushFollows, Control, Flushers, TypeOK, writeVars, initVars
  <1>16. CASE BarrierResumes
    BY <1>16, CallersAssumption DEF BarrierResumes, DrainLoop, Settle, StartWrite,
       FlushFollows, Control, Flushers, TypeOK, writeVars, initVars
  <1>17. CASE BeginTeardown
    <2>1. CASE FlushCall(Teardown)
      <3>1. Teardown \in Flushers
            /\ caller \in [Flushers -> {"idle", "init", "barrier", "ok", "rejected"}]
        BY DEF Flushers, TypeOK
      <3>2. caller' = [caller EXCEPT ![Teardown] = "init"] /\ UNCHANGED barrier
        BY <2>1 DEF FlushCall
      <3> QED
        BY <3>1, <3>2 DEF FlushFollows, Control
    <2>2. CASE init = "none" /\ UNCHANGED <<log, stored, initVars, queueVars, writeVars, flushVars>>
      BY <1>17, <2>2 DEF FlushFollows, Control, Covered, Flushers, initVars, flushVars
    <2> QED
      BY <1>17, <2>1, <2>2 DEF BeginTeardown
  <1>18. CASE Close
    BY <1>18, CallersAssumption DEF Close, MayClose, FlushFollows, Control,
       Flushers, TypeOK, queueVars, writeVars, flushVars, initVars
  <1>19. CASE UNCHANGED vars
    BY <1>19, CallersAssumption DEF vars, FlushFollows, Control, Flushers, TypeOK,
       queueVars, writeVars, flushVars, initVars
  <1> QED
    BY <1>1, <1>2, <1>3, <1>4, <1>5, <1>6, <1>7, <1>8, <1>9, <1>10,
       <1>11, <1>12, <1>13, <1>14, <1>15, <1>16, <1>17, <1>18, <1>19 DEF Next

(* Every step leaves somebody who will take the queue.                     *)
LEMMA QueueStep ==
  ASSUME TypeOK, Control, QueueIsMoving, [Next]_vars
  PROVE  QueueIsMoving'
  <1>0. ASSUME NEW g \in Flushers, FlushCall(g) PROVE QueueIsMoving'
    <2>1. caller' = [caller EXCEPT ![g] = "init"] /\ caller \in [Flushers -> {"idle", "init", "barrier", "ok", "rejected"}]
      BY <1>0 DEF FlushCall, TypeOK
    <2>2. caller'[g] = "init"
      BY <2>1
    <2> QED
      BY <2>2 DEF QueueIsMoving
  <1>1. CASE SessionCreated
    BY <1>1 DEF SessionCreated, InitFor, QueueIsMoving, Control, WriteFollows,
       ExpiryFollows, queueVars, writeVars, flushVars, initVars
  <1>2. CASE InitSucceeds
    BY <1>2 DEF InitSucceeds, QueueIsMoving, Control, WriteFollows, ExpiryFollows,
       queueVars, writeVars, flushVars
  <1>3. CASE InitFails
    BY <1>3 DEF InitFails, QueueIsMoving, Control, WriteFollows, ExpiryFollows,
       queueVars, writeVars, flushVars
  <1>4. CASE Enqueue
    BY <1>4 DEF Enqueue, InitFor, Arms, QueueIsMoving, Control, WriteFollows,
       ExpiryFollows, writeVars, flushVars, initVars
  <1>5. CASE Deadline
    BY <1>5 DEF Deadline, FindsIdle, StartWrite, Settled, QueueIsMoving, Control,
       WriteFollows, ExpiryFollows, flushVars, initVars
  <1>6. CASE ContinueAutomatic
    BY <1>6 DEF ContinueAutomatic, Continues, StartWrite, QueueIsMoving, Control,
       WriteFollows, ExpiryFollows, flushVars, initVars
  <1>7. CASE AskBackend
    BY <1>7 DEF AskBackend, QueueIsMoving, Control, WriteFollows, ExpiryFollows,
       queueVars, flushVars, initVars
  <1>8. CASE WriteLands
    BY <1>8 DEF WriteLands, QueueIsMoving, Control, WriteFollows, ExpiryFollows,
       queueVars, flushVars, initVars
  <1>9. CASE WriteFails
    BY <1>9 DEF WriteFails, QueueIsMoving, Control, WriteFollows, ExpiryFollows,
       flushVars, initVars
  <1>10. CASE ClearActive
    BY <1>10 DEF ClearActive, QueueIsMoving, Control, WriteFollows, ExpiryFollows,
       queueVars, flushVars, initVars
  <1>11. ASSUME NEW f \in Callers, SessionFlush(f) PROVE QueueIsMoving'
    BY <1>11, <1>0 DEF SessionFlush, Flushers
  <1>12. ASSUME NEW f \in Flushers, FlushJoins(f) PROVE QueueIsMoving'
    BY <1>12 DEF FlushJoins, Resumes, QueueIsMoving, Control, WriteFollows,
       ExpiryFollows, queueVars, writeVars, initVars
  <1>13. ASSUME NEW f \in Flushers, FlushOpens(f) PROVE QueueIsMoving'
    BY <1>13 DEF FlushOpens, Resumes, Overlaps, StartWrite, QueueIsMoving, Control,
       WriteFollows, ExpiryFollows, writeVars, initVars
  <1>14. ASSUME NEW f \in Flushers, FlushRefused(f) PROVE QueueIsMoving'
    BY <1>14 DEF FlushRefused, Resumes, QueueIsMoving, Control, WriteFollows,
       ExpiryFollows, writeVars, initVars
  <1>15. CASE OverlapSettles
    BY <1>15 DEF OverlapSettles, DrainLoop, Settle, StartWrite, QueueIsMoving,
       Control, WriteFollows, ExpiryFollows, writeVars, initVars
  <1>16. CASE BarrierResumes
    BY <1>16 DEF BarrierResumes, DrainLoop, Settle, StartWrite, QueueIsMoving,
       Control, WriteFollows, ExpiryFollows, writeVars, initVars
  <1>17. CASE BeginTeardown
    <2>1. CASE UNCHANGED <<log, stored, initVars, queueVars, writeVars, flushVars>>
      BY <2>1 DEF QueueIsMoving, initVars, queueVars, writeVars, flushVars
    <2> QED
      BY <1>17, <2>1, <1>0 DEF BeginTeardown, Flushers
  <1>18. CASE Close
    BY <1>18 DEF Close, MayClose, QueueIsMoving, Control, WriteFollows,
       ExpiryFollows, queueVars, writeVars, flushVars, initVars
  <1>19. CASE UNCHANGED vars
    BY <1>19 DEF vars, QueueIsMoving, Control, WriteFollows, ExpiryFollows,
       queueVars, writeVars, flushVars, initVars
  <1> QED
    BY <1>1, <1>2, <1>3, <1>4, <1>5, <1>6, <1>7, <1>8, <1>9, <1>10,
       <1>11, <1>12, <1>13, <1>14, <1>15, <1>16, <1>17, <1>18, <1>19 DEF Next

(* Every step after teardown was answered leaves the writer still.         *)
LEMMA TeardownStep ==
  ASSUME TypeOK, Control, TeardownIsLast, [Next]_vars
  PROVE  TeardownIsLast'
  <1>1. CASE SessionCreated
    BY <1>1, CallersAssumption DEF SessionCreated, InitFor, TeardownIsLast, Control,
       Covered, WriteFollows, ExpiryFollows, FlushFollows, TypeOK, Flushers,
       queueVars, writeVars, flushVars, initVars
  <1>2. CASE InitSucceeds
    BY <1>2, CallersAssumption DEF InitSucceeds, TeardownIsLast, Control, Covered,
       WriteFollows, ExpiryFollows, FlushFollows, TypeOK, Flushers, queueVars,
       writeVars, flushVars
  <1>3. CASE InitFails
    BY <1>3, CallersAssumption DEF InitFails, TeardownIsLast, Control, Covered,
       WriteFollows, ExpiryFollows, FlushFollows, TypeOK, Flushers, queueVars,
       writeVars, flushVars
  <1>4. CASE Enqueue
    BY <1>4, CallersAssumption DEF Enqueue, InitFor, Arms, TeardownIsLast, Control,
       Covered, WriteFollows, ExpiryFollows, FlushFollows, TypeOK, Flushers,
       writeVars, flushVars, initVars
  <1>5. CASE Deadline
    BY <1>5, CallersAssumption DEF Deadline, FindsIdle, StartWrite, Settled,
       TeardownIsLast, Control, Covered, WriteFollows, ExpiryFollows, FlushFollows,
       TypeOK, Flushers, flushVars, initVars
  <1>6. CASE ContinueAutomatic
    BY <1>6, CallersAssumption DEF ContinueAutomatic, Continues, StartWrite,
       TeardownIsLast, Control, Covered, WriteFollows, ExpiryFollows, FlushFollows,
       TypeOK, Flushers, flushVars, initVars
  <1>7. CASE AskBackend
    BY <1>7, CallersAssumption DEF AskBackend, TeardownIsLast, Control, Covered,
       WriteFollows, ExpiryFollows, FlushFollows, TypeOK, Flushers, queueVars,
       flushVars, initVars
  <1>8. CASE WriteLands
    BY <1>8, CallersAssumption DEF WriteLands, TeardownIsLast, Control, Covered,
       WriteFollows, ExpiryFollows, FlushFollows, TypeOK, Flushers, queueVars,
       flushVars, initVars
  <1>9. CASE WriteFails
    BY <1>9, CallersAssumption DEF WriteFails, TeardownIsLast, Control, Covered,
       WriteFollows, ExpiryFollows, FlushFollows, TypeOK, Flushers, flushVars,
       initVars
  <1>10. CASE ClearActive
    BY <1>10, CallersAssumption DEF ClearActive, TeardownIsLast, Control, Covered,
       WriteFollows, ExpiryFollows, FlushFollows, TypeOK, Flushers, queueVars,
       flushVars, initVars
  <1>11. ASSUME NEW f \in Callers, SessionFlush(f) PROVE TeardownIsLast'
    BY <1>11, CallersAssumption DEF SessionFlush, FlushCall, InitFor,
       TeardownIsLast, Control, Covered, WriteFollows, ExpiryFollows, FlushFollows,
       TypeOK, Flushers, writeVars, initVars
  <1>12. ASSUME NEW f \in Flushers, FlushJoins(f) PROVE TeardownIsLast'
    BY <1>12, CallersAssumption DEF FlushJoins, Resumes, TeardownIsLast, Control,
       Covered, WriteFollows, ExpiryFollows, FlushFollows, TypeOK, Flushers,
       queueVars, writeVars, initVars
  <1>13. ASSUME NEW f \in Flushers, FlushOpens(f) PROVE TeardownIsLast'
    BY <1>13, CallersAssumption DEF FlushOpens, Resumes, Overlaps, StartWrite,
       TeardownIsLast, Control, Covered, WriteFollows, ExpiryFollows, FlushFollows,
       TypeOK, Flushers, writeVars, initVars
  <1>14. ASSUME NEW f \in Flushers, FlushRefused(f) PROVE TeardownIsLast'
    BY <1>14, CallersAssumption DEF FlushRefused, Resumes, TeardownIsLast, Control,
       Covered, WriteFollows, ExpiryFollows, FlushFollows, TypeOK, Flushers,
       writeVars, initVars
  <1>15. CASE OverlapSettles
    BY <1>15, CallersAssumption DEF OverlapSettles, DrainLoop, Settle, StartWrite,
       TeardownIsLast, Control, Covered, WriteFollows, ExpiryFollows, FlushFollows,
       TypeOK, Flushers, writeVars, initVars
  <1>16. CASE BarrierResumes
    BY <1>16, CallersAssumption DEF BarrierResumes, DrainLoop, Settle, StartWrite,
       TeardownIsLast, Control, Covered, WriteFollows, ExpiryFollows, FlushFollows,
       TypeOK, Flushers, writeVars, initVars
  <1>17. CASE BeginTeardown
    BY <1>17, CallersAssumption DEF BeginTeardown, FlushCall, InitFor,
       TeardownIsLast, Control, Covered, WriteFollows, ExpiryFollows, FlushFollows,
       TypeOK, Flushers, queueVars, writeVars, flushVars, initVars
  <1>18. CASE Close
    BY <1>18, CallersAssumption DEF Close, MayClose, TeardownIsLast, Control,
       Covered, WriteFollows, ExpiryFollows, FlushFollows, TypeOK, Flushers,
       queueVars, writeVars, flushVars, initVars
  <1>19. CASE UNCHANGED vars
    BY <1>19, CallersAssumption DEF vars, TeardownIsLast, Control, Covered,
       WriteFollows, ExpiryFollows, FlushFollows, TypeOK, Flushers, queueVars,
       writeVars, flushVars, initVars
  <1> QED
    BY <1>1, <1>2, <1>3, <1>4, <1>5, <1>6, <1>7, <1>8, <1>9, <1>10,
       <1>11, <1>12, <1>13, <1>14, <1>15, <1>16, <1>17, <1>18, <1>19 DEF Next

(* The backend closes after teardown is answered, and nobody asks again.   *)
LEMMA ClosedStep ==
  ASSUME TypeOK, Control, ClosedIsAnswered, [Next]_vars
  PROVE  ClosedIsAnswered'
  <1>1. CASE SessionCreated
    BY <1>1, CallersAssumption DEF SessionCreated, InitFor, ClosedIsAnswered,
       Flushers, TypeOK, Control, FlushFollows, Covered, queueVars, writeVars,
       flushVars, initVars
  <1>2. CASE InitSucceeds
    BY <1>2, CallersAssumption DEF InitSucceeds, ClosedIsAnswered, Flushers, TypeOK,
       Control, FlushFollows, Covered, queueVars, writeVars, flushVars
  <1>3. CASE InitFails
    BY <1>3, CallersAssumption DEF InitFails, ClosedIsAnswered, Flushers, TypeOK,
       Control, FlushFollows, Covered, queueVars, writeVars, flushVars
  <1>4. CASE Enqueue
    BY <1>4, CallersAssumption DEF Enqueue, InitFor, Arms, ClosedIsAnswered,
       Flushers, TypeOK, Control, FlushFollows, Covered, writeVars, flushVars,
       initVars
  <1>5. CASE Deadline
    BY <1>5, CallersAssumption DEF Deadline, FindsIdle, StartWrite, Settled,
       ClosedIsAnswered, Flushers, TypeOK, Control, FlushFollows, Covered,
       flushVars, initVars
  <1>6. CASE ContinueAutomatic
    BY <1>6, CallersAssumption DEF ContinueAutomatic, Continues, StartWrite,
       ClosedIsAnswered, Flushers, TypeOK, Control, FlushFollows, Covered,
       flushVars, initVars
  <1>7. CASE AskBackend
    BY <1>7, CallersAssumption DEF AskBackend, ClosedIsAnswered, Flushers, TypeOK,
       Control, FlushFollows, Covered, queueVars, flushVars, initVars
  <1>8. CASE WriteLands
    BY <1>8, CallersAssumption DEF WriteLands, ClosedIsAnswered, Flushers, TypeOK,
       Control, FlushFollows, Covered, queueVars, flushVars, initVars
  <1>9. CASE WriteFails
    BY <1>9, CallersAssumption DEF WriteFails, ClosedIsAnswered, Flushers, TypeOK,
       Control, FlushFollows, Covered, flushVars, initVars
  <1>10. CASE ClearActive
    BY <1>10, CallersAssumption DEF ClearActive, ClosedIsAnswered, Flushers, TypeOK,
       Control, FlushFollows, Covered, queueVars, flushVars, initVars
  <1>11. ASSUME NEW f \in Callers, SessionFlush(f) PROVE ClosedIsAnswered'
    BY <1>11, CallersAssumption DEF SessionFlush, FlushCall, InitFor,
       ClosedIsAnswered, Flushers, TypeOK, Control, FlushFollows, Covered,
       writeVars, initVars
  <1>12. ASSUME NEW f \in Flushers, FlushJoins(f) PROVE ClosedIsAnswered'
    BY <1>12, CallersAssumption DEF FlushJoins, Resumes, ClosedIsAnswered, Flushers,
       TypeOK, Control, FlushFollows, Covered, queueVars, writeVars, initVars
  <1>13. ASSUME NEW f \in Flushers, FlushOpens(f) PROVE ClosedIsAnswered'
    BY <1>13, CallersAssumption DEF FlushOpens, Resumes, Overlaps, StartWrite,
       ClosedIsAnswered, Flushers, TypeOK, Control, FlushFollows, Covered,
       writeVars, initVars
  <1>14. ASSUME NEW f \in Flushers, FlushRefused(f) PROVE ClosedIsAnswered'
    BY <1>14, CallersAssumption DEF FlushRefused, Resumes, ClosedIsAnswered,
       Flushers, TypeOK, Control, FlushFollows, Covered, writeVars, initVars
  <1>15. CASE OverlapSettles
    BY <1>15, CallersAssumption DEF OverlapSettles, DrainLoop, Settle, StartWrite,
       ClosedIsAnswered, Flushers, TypeOK, Control, FlushFollows, Covered,
       writeVars, initVars
  <1>16. CASE BarrierResumes
    BY <1>16, CallersAssumption DEF BarrierResumes, DrainLoop, Settle, StartWrite,
       ClosedIsAnswered, Flushers, TypeOK, Control, FlushFollows, Covered,
       writeVars, initVars
  <1>17. CASE BeginTeardown
    BY <1>17, CallersAssumption DEF BeginTeardown, FlushCall, InitFor,
       ClosedIsAnswered, Flushers, TypeOK, Control, FlushFollows, Covered,
       queueVars, writeVars, flushVars, initVars
  <1>18. CASE Close
    BY <1>18, CallersAssumption DEF Close, MayClose, ClosedIsAnswered, Flushers,
       TypeOK, Control, FlushFollows, Covered, queueVars, writeVars, flushVars,
       initVars
  <1>19. CASE UNCHANGED vars
    BY <1>19, CallersAssumption DEF vars, ClosedIsAnswered, Flushers, TypeOK,
       Control, FlushFollows, Covered, queueVars, writeVars, flushVars, initVars
  <1> QED
    BY <1>1, <1>2, <1>3, <1>4, <1>5, <1>6, <1>7, <1>8, <1>9, <1>10,
       <1>11, <1>12, <1>13, <1>14, <1>15, <1>16, <1>17, <1>18, <1>19 DEF Next

(* What a write appends continues the stored log.                          *)
LEMMA AppendsPrefix ==
  ASSUME TypeOK, Ordered, StoredIsPrefix, OldestOpen <= Len(stored)
  PROVE  /\ stored \o Fresh = Numbers(Len(stored) + Len(Fresh))
         /\ Len(stored \o Fresh) = Len(stored) + Len(Fresh)
         /\ Len(stored) + Len(Fresh) <= log
         /\ Len(Fresh) \in Nat
         /\ Len(Fresh) = 0 => stored \o Fresh = stored
  <1> DEFINE n == Len(stored) + Len(Fresh)
  <1>1. /\ Len(stored) \in Nat /\ Len(batch) \in Nat /\ Len(pending) \in Nat
        /\ log \in Nat /\ OldestOpen \in Int /\ OldestOpen = log - Len(pending) - Len(batch)
    BY SequenceFacts DEF OldestOpen
  <1>2. /\ Fresh \in Seq(0..MaxEvents)
        /\ Len(Fresh) = IF Len(stored) <= OldestOpen + Len(batch)
                          THEN OldestOpen + Len(batch) - Len(stored) ELSE 0
        /\ \A i \in 1..Len(Fresh) : Fresh[i] = Len(stored) + i - 1
    BY FreshFacts
  <1>3. Len(Fresh) \in Nat
    BY <1>2, LenProperties
  <1>4. Len(stored) <= log
    BY DEF StoredIsPrefix
  <1>5. n \in Nat /\ n <= log
    BY <1>1, <1>2, <1>3, <1>4
  <1>6. n \in 0..MaxEvents
    BY <1>5, MaxEventsAssumption DEF TypeOK
  <1>7. stored \in Seq(0..MaxEvents)
    BY DEF TypeOK
  <1>8. /\ stored \o Fresh \in Seq(0..MaxEvents)
        /\ Len(stored \o Fresh) = n
        /\ \A i \in 1..n : (stored \o Fresh)[i] =
              IF i <= Len(stored) THEN stored[i] ELSE Fresh[i - Len(stored)]
    BY <1>2, <1>7, ConcatProperties
  <1>9. \A i \in 1..Len(stored) : stored[i] = i - 1
    <2>1. Len(stored) \in 0..MaxEvents
      BY <1>1, <1>4, MaxEventsAssumption DEF TypeOK
    <2> QED
      BY <2>1, NumbersType DEF StoredIsPrefix
  <1>10. /\ Numbers(n) \in Seq(0..MaxEvents) /\ Len(Numbers(n)) = n
         /\ \A i \in 1..n : Numbers(n)[i] = i - 1
    BY <1>6, NumbersType
  <1>11. ASSUME NEW i \in 1..n PROVE (stored \o Fresh)[i] = Numbers(n)[i]
    <2>1. CASE i <= Len(stored)
      BY <1>1, <1>8, <1>9, <1>10, <2>1
    <2>2. CASE i > Len(stored)
      <3>1. i - Len(stored) \in 1..Len(Fresh) /\ i \in Int
        BY <1>1, <1>3, <2>2
      <3>2. Fresh[i - Len(stored)] = i - 1
        BY <1>1, <1>2, <3>1
      <3> QED
        BY <1>1, <1>8, <1>10, <2>2, <3>2
    <2> QED
      BY <1>1, <1>5, <2>1, <2>2
  <1>12. stored \o Fresh = Numbers(n)
    BY <1>5, <1>8, <1>10, <1>11, SeqEqual
  <1>13. Len(Fresh) = 0 => stored \o Fresh = stored
    BY <1>2, <1>7, EmptySeq, ConcatEmptySeq
  <1> QED
    BY <1>3, <1>5, <1>8, <1>12, <1>13

(* Every step keeps the stored log a prefix of the session's.              *)
LEMMA PrefixStep ==
  ASSUME TypeOK, Ordered, Control, StoredIsPrefix, [Next]_vars
  PROVE  StoredIsPrefix'
  <1>0. /\ Len(stored) \in Nat /\ Len(batch) \in Nat /\ Len(pending) \in Nat
        /\ log \in Nat /\ OldestOpen \in Int
    BY SequenceFacts
  <1>a. ASSUME UNCHANGED <<stored, log>> PROVE StoredIsPrefix'
    BY <1>a DEF StoredIsPrefix
  <1>1. CASE SessionCreated
    BY <1>1, <1>a DEF SessionCreated
  <1>2. CASE InitSucceeds
    <2>1. seed \in 0..MaxEvents /\ seed <= log
      BY <1>0, MaxEventsAssumption DEF TypeOK
    <2>2. stored' = stored \/ stored' = Numbers(seed)
      BY <1>2 DEF InitSucceeds
    <2>3. Len(Numbers(seed)) = seed
      BY <2>1, NumbersType
    <2> QED
      BY <1>2, <2>1, <2>2, <2>3 DEF InitSucceeds, StoredIsPrefix
  <1>3. CASE InitFails
    BY <1>3, <1>a DEF InitFails
  <1>4. CASE Enqueue
    BY <1>4, <1>0 DEF Enqueue, StoredIsPrefix
  <1>5. CASE Deadline
    BY <1>5, <1>a DEF Deadline
  <1>6. CASE ContinueAutomatic
    BY <1>6, <1>a DEF ContinueAutomatic
  <1>7. CASE AskBackend
    BY <1>7, <1>a DEF AskBackend
  <1>8. CASE WriteLands
    BY <1>8, AppendsPrefix DEF WriteLands, StoredIsPrefix, Control, Covered
  <1>9. CASE WriteFails
    BY <1>9, <1>a DEF WriteFails
  <1>10. CASE ClearActive
    BY <1>10, <1>a DEF ClearActive
  <1>11. ASSUME NEW f \in Callers, SessionFlush(f) PROVE StoredIsPrefix'
    BY <1>11, <1>a DEF SessionFlush, FlushCall
  <1>12. ASSUME NEW f \in Flushers, FlushJoins(f) PROVE StoredIsPrefix'
    BY <1>12, <1>a DEF FlushJoins
  <1>13. ASSUME NEW f \in Flushers, FlushOpens(f) PROVE StoredIsPrefix'
    BY <1>13, <1>a DEF FlushOpens
  <1>14. ASSUME NEW f \in Flushers, FlushRefused(f) PROVE StoredIsPrefix'
    BY <1>14, <1>a DEF FlushRefused
  <1>15. CASE OverlapSettles
    BY <1>15, <1>a DEF OverlapSettles
  <1>16. CASE BarrierResumes
    BY <1>16, <1>a DEF BarrierResumes
  <1>17. CASE BeginTeardown
    BY <1>17, <1>a DEF BeginTeardown, FlushCall
  <1>18. CASE Close
    BY <1>18, <1>a DEF Close
  <1>19. CASE UNCHANGED vars
    BY <1>19, <1>a DEF vars
  <1> QED
    BY <1>1, <1>2, <1>3, <1>4, <1>5, <1>6, <1>7, <1>8, <1>9, <1>10,
       <1>11, <1>12, <1>13, <1>14, <1>15, <1>16, <1>17, <1>18, <1>19 DEF Next

---------------------------------------------------------------------------
(* The invariant holds initially and is kept by every step.                *)
LEMMA InitHolds == Init => IInv
  <1> SUFFICES ASSUME Init PROVE IInv
    OBVIOUS
  <1>0. /\ log \in 0..MaxEvents /\ log \in Nat /\ pending = <<>> /\ batch = <<>>
        /\ Len(<<>>) = 0 /\ <<>> \in Seq(0..MaxEvents)
    BY MaxEventsAssumption, EmptySeq DEF Init
  <1>1. PICK n \in 0..log : stored = Numbers(n)
    BY DEF Init
  <1>2. n \in 0..MaxEvents
    BY <1>0, MaxEventsAssumption
  <1>3. stored \in Seq(0..MaxEvents) /\ Len(stored) = n
    BY <1>1, <1>2, NumbersType
  <1>4. StoredIsPrefix
    BY <1>0, <1>1, <1>3 DEF StoredIsPrefix
  <1>5. TypeOK
    <2>1. 0 \in 0..log /\ due \in [Flushers -> 0..log]
      BY <1>0 DEF Init
    <2>2. timer = FALSE /\ {timer, expired, paused, background, resuming, tried} \subseteq BOOLEAN
      BY DEF Init
    <2>3. caller \in [Flushers -> {"idle", "init", "barrier", "ok", "rejected"}]
      BY DEF Init
    <2> QED
      BY <1>0, <1>3, <2>1, <2>2, <2>3 DEF Init, TypeOK
  <1>6. Ordered
    BY <1>0 DEF Ordered, OldestOpen
  <1>7. Control
    BY DEF Init, Control, Covered, WriteFollows, ExpiryFollows, FlushFollows
  <1>8. QueueIsMoving /\ TeardownIsLast /\ ClosedIsAnswered
    BY DEF Init, QueueIsMoving, TeardownIsLast, ClosedIsAnswered
  <1> QED
    BY <1>4, <1>5, <1>6, <1>7, <1>8 DEF IInv

LEMMA StepHolds == IInv /\ [Next]_vars => IInv'
  <1> SUFFICES ASSUME IInv, [Next]_vars PROVE IInv'
    OBVIOUS
  <1>1. TypeOK' /\ Ordered' /\ StoredIsPrefix'
    BY TypeStep, OrderedStep, PrefixStep DEF IInv
  <1>2. Control'
    BY CoveredStep, WriteStep, ExpiryStep, FlushStep DEF IInv, Control
  <1>3. QueueIsMoving' /\ TeardownIsLast' /\ ClosedIsAnswered'
    BY QueueStep, TeardownStep, ClosedStep DEF IInv
  <1> QED
    BY <1>1, <1>2, <1>3 DEF IInv

LEMMA Inductive == Spec => []IInv
  BY InitHolds, StepHolds, PTL DEF Spec

(* Every variable has its type, and a deadline is armed only for a queue   *)
(* that nothing else is taking (armTimer, enqueue, flush).                 *)
THEOREM TypeCorrect == Spec => []TypeOK
  <1>1. IInv => TypeOK
    BY DEF IInv
  <1> QED
    BY Inductive, <1>1, PTL

(* What is stored, then the active batch, then the queue hold every event  *)
(* in order, whatever fails and whenever flushes and events arrive         *)
(* (startWrite and its catch, appendLiveBatch).                            *)
THEOREM NothingIsLost == Spec => []NothingLost
  <1>1. IInv => NothingLost
    <2> SUFFICES ASSUME IInv, init = "done" PROVE NothingLost
      BY DEF NothingLost
    <2> DEFINE queued == batch \o pending
    <2>1. /\ Len(batch) \in Nat /\ Len(pending) \in Nat /\ log \in Nat
          /\ DOMAIN batch = 1..Len(batch) /\ DOMAIN pending = 1..Len(pending)
      BY SequenceFacts DEF IInv
    <2>2. /\ Len(queued) = Len(batch) + Len(pending)
          /\ DOMAIN queued = 1..(Len(batch) + Len(pending))
          /\ \A i \in 1..(Len(batch) + Len(pending)) :
                queued[i] = IF i <= Len(batch) THEN batch[i] ELSE pending[i - Len(batch)]
      <3>1. batch \in Seq(0..MaxEvents) /\ pending \in Seq(0..MaxEvents)
        BY DEF IInv, TypeOK
      <3> QED
        BY <3>1, ConcatProperties, LenProperties
    <2> HIDE DEF queued
    <2>3. log - Len(queued) = OldestOpen /\ OldestOpen <= Len(stored) /\ OldestOpen \in Int
      BY <2>1, <2>2 DEF OldestOpen, IInv, Control, Covered
    <2>4. ASSUME NEW i \in DOMAIN queued PROVE queued[i] = OldestOpen + i - 1
      <3>1. i \in 1..(Len(batch) + Len(pending))
        BY <2>2
      <3>2. CASE i <= Len(batch)
        BY <2>1, <2>2, <3>1, <3>2 DEF IInv, Ordered
      <3>3. CASE ~(i <= Len(batch))
        <4>1. i - Len(batch) \in 1..Len(pending)
          BY <2>1, <3>1, <3>3
        <4>2. pending[i - Len(batch)] = OldestOpen + Len(batch) + (i - Len(batch)) - 1
          BY <2>1, <4>1 DEF IInv, Ordered
        <4>3. queued[i] = pending[i - Len(batch)]
          BY <2>2, <3>1, <3>3
        <4>4. \A a, b \in Int : \A k \in Nat : a + k + (b - k) - 1 = a + b - 1
          OBVIOUS
        <4>5. i \in Int
          BY <3>1
        <4> QED
          BY <2>1, <2>3, <4>2, <4>3, <4>4, <4>5
      <3> QED
        BY <3>2, <3>3
    <2> QED
      BY <2>3, <2>4 DEF NothingLost, queued
  <1> QED
    BY Inductive, <1>1, PTL

(* A queued event always has something that will take it, unless a failure *)
(* leaves it to the next event or flush (enqueue, onDeadline,              *)
(* continueAutomatic, cancelAutomaticWait).                                *)
THEOREM QueueKeepsMoving == Spec => []QueueIsMoving
  <1>1. IInv => QueueIsMoving
    BY DEF IInv
  <1> QED
    BY Inductive, <1>1, PTL

---------------------------------------------------------------------------
(* The refinement of DurableLog.                                           *)

(* Steps in which the session's log, the stored log and the answers are    *)
(* the same are none of the contract's.                                    *)
LEMMA Stutters ==
  ASSUME UNCHANGED <<log, stored, caller, due, life>>
  PROVE  UNCHANGED Contract!vars
  BY DEF Contract!vars

(* A call of flush is the contract's.                                      *)
LEMMA CallRefines ==
  ASSUME TypeOK, NEW f \in Flushers, FlushCall(f), life' = "closed" <=> life = "closed"
  PROVE  Contract!Call(f)
  <1>1. caller \in [Flushers -> {"idle", "init", "barrier", "ok", "rejected"}]
    BY DEF TypeOK
  <1>2. caller[f] \notin {"init", "barrier"} /\ caller' = [caller EXCEPT ![f] = "init"]
        /\ due' = [due EXCEPT ![f] = log] /\ UNCHANGED <<log, stored>>
    BY DEF FlushCall
  <1> QED
    BY <1>1, <1>2 DEF Contract!Call

(* What is stored is a longer prefix of the same log.                      *)
LEMMA PersistRefines ==
  ASSUME IInv, life # "closed", NEW n \in Nat, n <= log, Len(stored) < n,
         stored' = Numbers(n), UNCHANGED <<log, caller, due, life>>
  PROVE  Contract!Persist
  <1>1. n \in (Len(stored) + 1)..log /\ stored' = Contract!Numbers(n)
    BY SequenceFacts DEF IInv, Numbers, Contract!Numbers
  <1> QED
    BY <1>1 DEF Contract!Persist

(* Everything is stored once the queue is empty and no write is active.    *)
LEMMA QuietIsStored ==
  ASSUME IInv, init = "done", active = "none", pending = <<>>
  PROVE  \A f \in Flushers : Len(stored) >= due[f]
  <1>1. OldestOpen <= Len(stored) /\ batch = <<>>
    BY DEF IInv, Control, Covered, WriteFollows
  <1>2. log <= Len(stored)
    BY <1>1, SequenceFacts, EmptySeq DEF OldestOpen, IInv
  <1> QED
    BY <1>2, SequenceFacts DEF IInv, TypeOK

(* One caller is answered by itself.                                       *)
LEMMA AnswersOne ==
  ASSUME IInv, NEW f \in Flushers, caller[f] = "init", NEW reply \in {"ok", "rejected"},
         caller' = [caller EXCEPT ![f] = reply], UNCHANGED <<log, stored, due, life>>,
         reply = "ok" => Len(stored) >= due[f]
  PROVE  [Contract!Next]_Contract!vars
  <1>1. caller \in [Flushers -> {"idle", "init", "barrier", "ok", "rejected"}]
    BY DEF IInv, TypeOK
  <1>2. Contract!Answer({f}, reply)
    BY <1>1 DEF Contract!Answer
  <1> QED
    BY <1>2 DEF Contract!Next

(* The callers that joined the barrier are answered together.              *)
LEMMA SettleRefines ==
  ASSUME IInv, NEW reply \in {"ok", "rejected"}, Settle(reply), UNCHANGED <<log, stored, due,
         life>>,
         reply = "ok" => \A f \in Flushers : Len(stored) >= due[f]
  PROVE  [Contract!Next]_Contract!vars
  <1> DEFINE joined == {f \in Flushers : caller[f] = "barrier"}
  <1>1. /\ caller \in [Flushers -> {"idle", "init", "barrier", "ok", "rejected"}]
        /\ caller' = [f \in Flushers |-> IF caller[f] = "barrier" THEN reply ELSE caller[f]]
    BY DEF IInv, TypeOK, Settle
  <1>2. CASE joined = {}
    <2>1. caller' = caller
      BY <1>1, <1>2
    <2> QED
      BY <2>1, Stutters
  <1>3. CASE joined # {}
    <2>1. Contract!Answer(joined, reply)
      BY <1>1, <1>3 DEF Contract!Answer
    <2>2. joined \in SUBSET Flushers
      OBVIOUS
    <2> QED
      BY <2>1, <2>2 DEF Contract!Next
  <1> QED
    BY <1>2, <1>3

(* A round of the barrier's loop writes on, or answers.                    *)
LEMMA DrainRefines ==
  ASSUME IInv, barrier # "none", active = "none", DrainLoop, UNCHANGED <<log, stored, due, life>>
  PROVE  [Contract!Next]_Contract!vars
  <1>1. CASE pending # <<>> /\ UNCHANGED caller
    BY <1>1, Stutters
  <1>2. CASE pending = <<>> /\ Settle("ok")
    BY <1>2, QuietIsStored, SettleRefines DEF IInv, Control, Covered
  <1> QED
    BY <1>1, <1>2 DEF DrainLoop

(* A caller that starts to wait for the barrier was waiting before.        *)
LEMMA JoinStutters ==
  ASSUME caller \in [Flushers -> {"idle", "init", "barrier", "ok", "rejected"}],
         NEW f \in Flushers, caller[f] = "init", caller' = [caller EXCEPT ![f] = "barrier"],
         UNCHANGED <<log, stored, due, life>>
  PROVE  UNCHANGED Contract!vars
  BY DEF Contract!vars

(* Every step is a step of the contract or none.                           *)
LEMMA StepRefines ==
  ASSUME IInv, [Next]_vars
  PROVE  [Contract!Next]_Contract!vars
  <1>1. CASE SessionCreated
    BY <1>1, Stutters DEF SessionCreated, flushVars
  <1>2. CASE InitSucceeds
    <2>1. life # "closed"
      BY <1>2 DEF InitSucceeds, IInv, Control, FlushFollows, ClosedIsAnswered
    <2>2. CASE seed > Len(stored)
      <3>1. seed \in Nat /\ seed <= log /\ Len(stored) < seed
        BY <2>2, SequenceFacts DEF IInv, TypeOK
      <3> QED
        BY <1>2, <2>1, <2>2, <3>1, PersistRefines DEF InitSucceeds, flushVars, Contract!Next
    <2>3. CASE ~(seed > Len(stored))
      BY <1>2, <2>3, Stutters DEF InitSucceeds, flushVars
    <2> QED
      BY <2>2, <2>3
  <1>3. CASE InitFails
    BY <1>3, Stutters DEF InitFails, flushVars
  <1>4. CASE Enqueue
    BY <1>4 DEF Enqueue, flushVars, Contract!Next, Contract!Accept
  <1>5. CASE Deadline
    BY <1>5, Stutters DEF Deadline, flushVars
  <1>6. CASE ContinueAutomatic
    BY <1>6, Stutters DEF ContinueAutomatic, flushVars
  <1>7. CASE AskBackend
    BY <1>7, Stutters DEF AskBackend, flushVars
  <1>8. CASE WriteLands
    <2>1. active = "backend" /\ init = "done" /\ OldestOpen <= Len(stored)
      BY <1>8 DEF WriteLands, IInv, Control, Covered
    <2>2. life # "closed"
      BY <2>1 DEF IInv, TeardownIsLast, ClosedIsAnswered
    <2>3. /\ stored \o Fresh = Numbers(Len(stored) + Len(Fresh))
          /\ Len(stored) + Len(Fresh) <= log /\ Len(Fresh) \in Nat /\ Len(stored) \in Nat
          /\ Len(Fresh) = 0 => stored \o Fresh = stored
      BY <2>1, AppendsPrefix, SequenceFacts DEF IInv
    <2>4. stored' = stored \o Fresh /\ UNCHANGED <<log, caller, due, life>>
      BY <1>8 DEF WriteLands, flushVars
    <2>5. CASE Len(Fresh) = 0
      BY <2>3, <2>4, <2>5, Stutters
    <2>6. CASE Len(Fresh) # 0
      <3> DEFINE n == Len(stored) + Len(Fresh)
      <3>1. n \in Nat /\ n <= log /\ Len(stored) < n /\ stored' = Numbers(n)
        BY <2>3, <2>4, <2>6
      <3> QED
        BY <2>2, <2>4, <3>1, PersistRefines DEF Contract!Next
    <2> QED
      BY <2>5, <2>6
  <1>9. CASE WriteFails
    BY <1>9, Stutters DEF WriteFails, flushVars
  <1>10. CASE ClearActive
    BY <1>10, Stutters DEF ClearActive, flushVars
  <1>11. ASSUME NEW f \in Callers, SessionFlush(f) PROVE [Contract!Next]_Contract!vars
    BY <1>11, CallRefines DEF SessionFlush, Flushers, IInv, Contract!Next
  <1>12. ASSUME NEW f \in Flushers, FlushJoins(f) PROVE [Contract!Next]_Contract!vars
    <2>1. /\ caller \in [Flushers -> {"idle", "init", "barrier", "ok", "rejected"}]
          /\ caller[f] = "init" /\ caller' = [caller EXCEPT ![f] = "barrier"]
          /\ UNCHANGED <<log, stored, due, life>>
      BY <1>12 DEF FlushJoins, Resumes, IInv, TypeOK
    <2> QED
      BY <2>1, JoinStutters
  <1>13. ASSUME NEW f \in Flushers, FlushOpens(f) PROVE [Contract!Next]_Contract!vars
    <2>1. /\ caller \in [Flushers -> {"idle", "init", "barrier", "ok", "rejected"}]
          /\ caller[f] = "init" /\ init = "done" /\ UNCHANGED <<log, stored, due, life>>
      BY <1>13 DEF FlushOpens, Resumes, IInv, TypeOK
    <2>2. CASE caller' = [caller EXCEPT ![f] = "barrier"]
      BY <2>1, <2>2, JoinStutters
    <2>3. CASE ~Overlaps /\ pending = <<>> /\ caller' = [caller EXCEPT ![f] = "ok"]
      BY <2>1, <2>3, QuietIsStored, AnswersOne DEF Overlaps
    <2> QED
      BY <1>13, <2>2, <2>3 DEF FlushOpens
  <1>14. ASSUME NEW f \in Flushers, FlushRefused(f) PROVE [Contract!Next]_Contract!vars
    BY <1>14, AnswersOne DEF FlushRefused, Resumes
  <1>15. CASE OverlapSettles
    BY <1>15, DrainRefines DEF OverlapSettles
  <1>16. CASE BarrierResumes
    <2>1. CASE outcome = "ok" /\ DrainLoop
      BY <1>16, <2>1, DrainRefines DEF BarrierResumes
    <2>2. CASE Settle("rejected")
      BY <1>16, <2>2, SettleRefines DEF BarrierResumes
    <2> QED
      BY <1>16, <2>1, <2>2 DEF BarrierResumes
  <1>17. CASE BeginTeardown
    <2>1. Teardown \in Flushers /\ (life' = "closed" <=> life = "closed")
      BY <1>17 DEF BeginTeardown, Flushers
    <2>2. CASE FlushCall(Teardown)
      BY <1>17, <2>1, <2>2, CallRefines DEF IInv, Contract!Next
    <2>3. CASE UNCHANGED <<log, stored, initVars, queueVars, writeVars, flushVars>>
      BY <2>1, <2>3 DEF Contract!vars, flushVars
    <2> QED
      BY <1>17, <2>2, <2>3 DEF BeginTeardown
  <1>18. CASE Close
    BY <1>18 DEF Close, flushVars, Contract!Next, Contract!Close
  <1>19. CASE UNCHANGED vars
    BY <1>19, Stutters DEF vars
  <1> QED
    BY <1>1, <1>2, <1>3, <1>4, <1>5, <1>6, <1>7, <1>8, <1>9, <1>10,
       <1>11, <1>12, <1>13, <1>14, <1>15, <1>16, <1>17, <1>18, <1>19 DEF Next

(* The write path keeps the contract of the session log for any callers    *)
(* and any number of events: events become durable in order and without a  *)
(* gap, a flush that succeeds vouches for every event accepted before it,  *)
(* and a closed backend is not written (write-behind.ts, coordinator       *)
(* flush, installWritePath).                                               *)
THEOREM Refinement == Spec => ImplementsDurableLog
  <1>1. Init => Contract!Init
    BY DEF Init, Contract!Init, Numbers, Contract!Numbers
  <1>2. IInv /\ [Next]_vars => [Contract!Next]_Contract!vars
    BY StepRefines
  <1> QED
    BY Inductive, <1>1, <1>2, PTL DEF Spec, ImplementsDurableLog, Contract!Spec

---------------------------------------------------------------------------
(* Who owns the id of a session.                                           *)

(* NoOne is nobody, and the bounds of the model are bounds.                *)
OwnersAreMeant ==
  NoOne \notin Sessions /\ MaxOwned \in Nat /\ MaxReloads \in Nat /\ MaxFails \in Nat

(* The inductive invariant, in named parts.                                *)

(* What is tracked is what is stored, and a log that nobody has stored is  *)
(* empty.                                                                  *)
StateIsStored ==
  /\ ~state.tracked => state = Own!Untracked
  /\ state.tracked => state.cursor = Len(store)
  /\ state.tracked /\ ~state.materialized => store = <<>>
  /\ Len(store) <= MaxOwned + 1

(* Sessions follow one another: one lives, an unborn one is not bound, and *)
(* what is bound under a plugin that is on and has gone is being retired.  *)
OneAtATime ==
  /\ \A r, s \in Sessions : alive[r] = "live" /\ alive[s] = "live" => r = s
  /\ \A s \in Sessions :
       /\ Len(events[s]) <= MaxOwned + 1
       /\ alive[s] = "unborn" => inits[s] = "none"
       /\ retire[s] # "no" => alive[s] = "gone"
       /\ plugin = "on" /\ alive[s] = "live" => inits[s] # "none"
       /\ plugin = "on" /\ alive[s] = "gone" /\ inits[s] # "none" => retire[s] # "no"
       /\ plugin = "off" => inits[s] = "none"
  /\ plugin = "off" => chain = <<>>

Bound == {"append", "ok", "failed"}

(* An initialisation that has not run comes after every session that is    *)
(* bound, and that one is being retired.                                   *)
Succession ==
  \A r, s \in Sessions :
    r # s /\ inits[r] \in Bound /\ inits[s] = "pending" => retire[r] # "no"

(* The jobs of the chain are those the sessions wait for, each once.       *)
JobsAreMeant ==
  /\ \A i, j \in DOMAIN chain : chain[i] = chain[j] => i = j
  /\ \A i \in DOMAIN chain :
       /\ chain[i].kind \in {"create", "load"} <=> chain[i].of = NoOne
       /\ chain[i].kind = "init" => \/ inits[chain[i].of] = "pending"
                                    \/ inits[chain[i].of] = "append" /\ i = 1
       /\ chain[i].kind = "write" => writing[chain[i].of] # <<>>
       /\ chain[i].kind = "release" => /\ retire[chain[i].of] = "release"
                                       /\ inits[chain[i].of] = "ok" /\ ~Own!HasWork(chain[i].of)
       /\ chain[i].kind = "load" => /\ \A j \in 1 .. i : chain[j].of = NoOne
                                    /\ state.owner = NoOne
                                    /\ \A s \in Sessions : inits[s] \in {"none", "pending"}
  /\ \A i, j \in DOMAIN chain :
       i < j /\ chain[i].kind = "init" /\ chain[j].kind = "init" => retire[chain[i].of] # "no"
  /\ \A s \in Sessions : inits[s] = "pending" => \E i \in DOMAIN chain : chain[i] = Own!Job("init", s)
  /\ \A s \in Sessions : inits[s] = "append" => chain # <<>> /\ chain[1] = Own!Job("init", s)

(* The work of a session is the end of its log, from `base` on; it reaches *)
(* the end of the log, except while the plugin drains and no longer hears. *)
WorkIs(w, q, n, base) ==
  /\ \A i \in DOMAIN w : w[i] = base + i
  /\ \A i \in DOMAIN q : q[i] = base + Len(w) + i
  /\ base + Len(w) + Len(q) <= n

WorkFrom(s, base) ==
  /\ WorkIs(writing[s], queue[s], Len(events[s]), base)
  /\ plugin = "on" \/ retire[s] # "no" =>
       base + Len(writing[s]) + Len(queue[s]) = Len(events[s])

WorkIsKept ==
  \A s \in Sessions :
    /\ inits[s] = "none" => ~Own!HasWork(s)
    /\ writing[s] # <<>> => inits[s] = "ok"
    /\ inits[s] \in {"pending", "append"} => WorkFrom(s, seeds[s])
    /\ inits[s] = "ok" /\ state.owner = s => WorkFrom(s, state.cursor)

(* The owner is bound; who is bound and was taken from had said nothing.   *)
OwnerIsBound ==
  \A s \in Sessions :
    /\ state.owner = s => inits[s] \in Bound
    /\ inits[s] = "append" => state.owner = s /\ seeds[s] > state.cursor
    /\ inits[s] = "ok" /\ state.owner # s =>
         alive[s] = "gone" /\ ~Own!HasWork(s) /\ events[s] = <<>>

OwnershipInv == /\ Own!TypeOK /\ StateIsStored /\ OneAtATime /\ Succession
                /\ JobsAreMeant /\ WorkIsKept
                /\ OwnerIsBound /\ Own!OwnerContinuesLog /\ Own!ReleasedIsStored

---------------------------------------------------------------------------
(* Sequences and prefixes.                                                 *)

LEMMA TailFacts ==
  ASSUME NEW S, NEW c \in Seq(S), c # <<>>
  PROVE  /\ Tail(c) \in Seq(S) /\ Len(Tail(c)) = Len(c) - 1 /\ Head(c) = c[1] /\ Len(c) > 0
         /\ \A i \in 1 .. Len(c) - 1 : Tail(c)[i] = c[i + 1]
BY HeadTailProperties

LEMMA AppendFacts ==
  ASSUME NEW S, NEW c \in Seq(S), NEW e \in S
  PROVE  /\ Append(c, e) \in Seq(S) /\ Len(Append(c, e)) = Len(c) + 1
         /\ Append(c, e)[Len(c) + 1] = e /\ \A i \in 1 .. Len(c) : Append(c, e)[i] = c[i]
BY AppendProperties

LEMMA PrefixMeans ==
  ASSUME NEW S, NEW p \in Seq(S), NEW q \in Seq(S)
  PROVE  Own!Prefix(p, q) <=> Len(p) <= Len(q) /\ \A i \in 1 .. Len(p) : p[i] = q[i]
<1>1. ASSUME Len(p) <= Len(q)
      PROVE  /\ SubSeq(q, 1, Len(p)) \in Seq(S) /\ Len(SubSeq(q, 1, Len(p))) = Len(p)
             /\ \A i \in 1 .. Len(p) : SubSeq(q, 1, Len(p))[i] = q[i]
  BY <1>1, SubSeqProperties
<1>2. ASSUME Len(p) <= Len(q), \A i \in 1 .. Len(p) : p[i] = q[i]
      PROVE  SubSeq(q, 1, Len(p)) = p
  BY <1>1, <1>2, SeqEqual
<1> QED
  BY <1>1, <1>2 DEF Own!Prefix

LEMMA PrefixAppend ==
  ASSUME NEW S, NEW p \in Seq(S), NEW q \in Seq(S), NEW e \in S, Own!Prefix(p, q)
  PROVE  Own!Prefix(p, Append(q, e))
<1> DEFINE a == Append(q, e)
<1>1. a \in Seq(S) /\ Len(a) = Len(q) + 1 /\ \A i \in 1 .. Len(q) : a[i] = q[i]
  BY AppendFacts
<1>2. Len(p) <= Len(q) /\ \A i \in 1 .. Len(p) : p[i] = q[i]
  BY PrefixMeans
<1> HIDE DEF a
<1>3. Own!Prefix(p, a)
  BY <1>1, <1>2, PrefixMeans
<1> QED
  BY <1>3 DEF a

LEMMA PrefixEmpty == ASSUME NEW S, NEW q \in Seq(S) PROVE Own!Prefix(<<>>, q)
<1> DEFINE p == <<>>
<1>1. p \in Seq(S) /\ Len(p) = 0
  BY EmptySeq
<1> HIDE DEF p
<1>2. Len(p) <= Len(q) /\ \A i \in 1 .. Len(p) : p[i] = q[i]
  BY <1>1
<1>3. Own!Prefix(p, q)
  BY <1>1, <1>2, PrefixMeans
<1> QED
  BY <1>3 DEF p

LEMMA PrefixItself == ASSUME NEW S, NEW q \in Seq(S) PROVE Own!Prefix(q, q)
BY PrefixMeans

(* A log that is continued from where another ends.                        *)
LEMMA OwnerContinues ==
  ASSUME NEW S, NEW p \in Seq(S), NEW q \in Seq(S), Own!Prefix(p, q),
         NEW n \in Nat, Len(p) <= n, n <= Len(q)
  PROVE  LET r == p \o SubSeq(q, Len(p) + 1, n)
         IN r \in Seq(S) /\ Len(r) = n /\ Own!Prefix(r, q) /\ Own!Prefix(p, r)
<1> DEFINE t == SubSeq(q, Len(p) + 1, n)
           r == p \o t
<1>1. /\ t \in Seq(S) /\ Len(t) = n - Len(p)
      /\ \A i \in 1 .. n - Len(p) : t[i] = q[Len(p) + i]
  <2>1. CASE Len(p) = n
    BY <2>1, SubSeqProperties, EmptySeq
  <2>2. CASE Len(p) < n
    BY <2>2, SubSeqProperties
  <2> QED
    BY <2>1, <2>2
<1> HIDE DEF t
<1>2. /\ r \in Seq(S) /\ Len(r) = n
      /\ \A i \in 1 .. n : r[i] = IF i <= Len(p) THEN p[i] ELSE t[i - Len(p)]
  BY <1>1, ConcatProperties
<1> HIDE DEF r
<1>3. \A i \in 1 .. Len(p) : p[i] = q[i]
  BY PrefixMeans
<1>4. ASSUME NEW i \in 1 .. n PROVE r[i] = q[i]
  <2>1. CASE i <= Len(p)
    BY <1>2, <1>3, <2>1
  <2>2. CASE i > Len(p)
    <3>1. i - Len(p) \in 1 .. n - Len(p)
      BY <2>2
    <3>2. r[i] = t[i - Len(p)]
      BY <1>2, <2>2
    <3>3. t[i - Len(p)] = q[Len(p) + (i - Len(p))]
      BY <1>1, <3>1
    <3>4. \A a, b \in Int : a + (b - a) = b
      OBVIOUS
    <3>5. Len(p) \in Int /\ i \in Int
      OBVIOUS
    <3> QED
      BY <3>2, <3>3, <3>4, <3>5
  <2> QED
    BY <2>1, <2>2
<1>5. Own!Prefix(r, q) /\ Own!Prefix(p, r)
  BY <1>2, <1>4, PrefixMeans
<1> QED
  BY <1>2, <1>5 DEF r, t

(* What is a prefix of both of two of which one continues the other.       *)
LEMMA PrefixTransitive ==
  ASSUME NEW S, NEW p \in Seq(S), NEW q \in Seq(S), NEW r \in Seq(S), Own!Prefix(p, q),
         Own!Prefix(q, r)
  PROVE  Own!Prefix(p, r)
<1>1. Len(p) <= Len(q) /\ \A i \in 1 .. Len(p) : p[i] = q[i]
  BY PrefixMeans
<1>2. Len(q) <= Len(r) /\ \A i \in 1 .. Len(q) : q[i] = r[i]
  BY PrefixMeans
<1> QED
  BY <1>1, <1>2, PrefixMeans

---------------------------------------------------------------------------
(* The shapes of the steps.                                                *)

JobSet == [kind : {"init", "write", "release", "create", "load"}, of : Sessions \cup {NoOne}]

LEMMA Enqueued ==
  ASSUME Own!TypeOK, NEW kind \in {"init", "write", "release", "create", "load"},
         NEW s \in Sessions \cup {NoOne}, Own!Enqueue(kind, s)
  PROVE  /\ chain' \in Seq(JobSet) /\ Len(chain') = Len(chain) + 1
         /\ chain'[Len(chain) + 1].kind = kind /\ chain'[Len(chain) + 1].of = s
         /\ chain'[Len(chain) + 1] = Own!Job(kind, s)
         /\ \A i \in 1 .. Len(chain) : chain'[i] = chain[i]
<1> DEFINE j == Own!Job(kind, s)
<1>1. j \in JobSet /\ j.kind = kind /\ j.of = s
  BY DEF Own!Job, JobSet
<1>2. chain \in Seq(JobSet) /\ chain' = Append(chain, j)
  BY DEF Own!TypeOK, JobSet, Own!Enqueue
<1> HIDE DEF j
<1>3. /\ chain' \in Seq(JobSet) /\ Len(chain') = Len(chain) + 1 /\ chain'[Len(chain) + 1] = j
      /\ \A i \in 1 .. Len(chain) : chain'[i] = chain[i]
  BY <1>1, <1>2, AppendFacts
<1> QED
  BY <1>1, <1>3 DEF j

LEMMA Popped ==
  ASSUME Own!TypeOK, chain # <<>>, Own!Done
  PROVE  /\ chain' \in Seq(JobSet) /\ Len(chain') = Len(chain) - 1 /\ Len(chain) > 0
         /\ \A i \in 1 .. Len(chain) - 1 : chain'[i] = chain[i + 1]
<1>1. chain \in Seq(JobSet)
  BY DEF Own!TypeOK, JobSet
<1> QED
  BY <1>1, TailFacts DEF Own!Done

LEMMA HeadRuns ==
  ASSUME Own!TypeOK, NEW kind, Own!Runs(kind)
  PROVE  chain # <<>> /\ Len(chain) > 0 /\ Head(chain) = chain[1] /\ chain[1].kind = kind
<1>1. chain \in Seq(JobSet)
  BY DEF Own!TypeOK, JobSet
<1>2. chain # <<>> /\ Head(chain).kind = kind
  BY DEF Own!Runs
<1> QED
  BY <1>1, <1>2, TailFacts

(* What is known of the state while it is tracked.                         *)
LEMMA StateFacts ==
  ASSUME OwnersAreMeant, OwnershipInv
  PROVE  /\ state.tracked \in BOOLEAN /\ state.materialized \in BOOLEAN
         /\ state.owner \in Sessions \cup {NoOne} /\ state.cursor \in 0 .. MaxOwned + 1
         /\ ~state.tracked => state.owner = NoOne
         /\ state.tracked => state.cursor = Len(store)
         /\ store \in Seq(Own!Writers) /\ Len(store) \in Nat
         /\ \A s \in Sessions : events[s] \in Seq(Own!Writers) /\ Len(events[s]) \in 0 .. MaxOwned + 1
<1>1. /\ state \in [tracked : BOOLEAN, owner : Sessions \cup {NoOne}, cursor : 0 .. MaxOwned + 1,
                    materialized : BOOLEAN]
      /\ store \in Seq(Own!Writers) /\ \A s \in Sessions : events[s] \in Seq(Own!Writers)
  BY DEF OwnershipInv, Own!TypeOK
<1>2. /\ ~state.tracked => state.owner = NoOne
      /\ state.tracked => state.cursor = Len(store)
  BY DEF OwnershipInv, StateIsStored, Own!Untracked
<1>3. \A s \in Sessions : Len(events[s]) \in 0 .. MaxOwned + 1
  <2> TAKE s \in Sessions
  <2>1. Len(events[s]) \in Nat
    BY <1>1
  <2>2. Len(events[s]) <= MaxOwned + 1
    BY DEF OwnershipInv, OneAtATime
  <2>3. MaxOwned \in Nat
    BY DEF OwnersAreMeant
  <2> QED
    BY <2>1, <2>2, <2>3
<1>4. state.cursor \in 0 .. MaxOwned + 1 /\ Len(store) \in Nat
  BY <1>1
<1> QED
  BY <1>1, <1>2, <1>3, <1>4

(* A seed is the beginning of its session's log, which only grows.         *)
LEMMA SeedFacts ==
  ASSUME OwnersAreMeant, OwnershipInv, NEW s \in Sessions, inits[s] \in {"pending", "append"}
  PROVE  seeds[s] \in Nat /\ seeds[s] <= Len(events[s])
<1>1. seeds[s] \in Nat /\ queue[s] \in Seq(Own!Indices) /\ writing[s] \in Seq(Own!Indices)
  BY DEF OwnershipInv, Own!TypeOK, OwnersAreMeant
<1>2. WorkFrom(s, seeds[s])
  BY DEF OwnershipInv, WorkIsKept
<1>3. Len(events[s]) \in Nat
  BY StateFacts, SMT
<1> QED
  BY <1>1, <1>2, <1>3 DEF WorkFrom, WorkIs

LEMMA CoversMeans ==
  ASSUME OwnersAreMeant, OwnershipInv, NEW s \in Sessions, inits[s] = "pending",
         Own!Covers(SubSeq(events[s], 1, seeds[s]), Len(store))
  PROVE  Len(store) <= seeds[s] /\ Own!Prefix(store, events[s])
<1> DEFINE said == SubSeq(events[s], 1, seeds[s])
<1>1. seeds[s] \in Nat /\ seeds[s] <= Len(events[s]) /\ events[s] \in Seq(Own!Writers)
  BY SeedFacts, StateFacts
<1>2. said \in Seq(Own!Writers) /\ Len(said) = seeds[s]
      /\ \A i \in 1 .. seeds[s] : said[i] = events[s][i]
  BY <1>1, SubSeqProperties
<1>3. store \in Seq(Own!Writers) /\ Len(store) \in Nat
  BY StateFacts
<1> HIDE DEF said
<1>4. Len(store) <= Len(said) /\ SubSeq(said, 1, Len(store)) = SubSeq(store, 1, Len(store))
  BY DEF Own!Covers, said
<1>5. SubSeq(store, 1, Len(store)) = store
  BY <1>3, SubSeqFull
<1>6. Own!Prefix(store, said)
  BY <1>4, <1>5 DEF Own!Prefix
<1>7. \A i \in 1 .. Len(store) : store[i] = said[i]
  BY <1>2, <1>3, <1>6, PrefixMeans
<1>8. \A i \in 1 .. Len(store) : store[i] = events[s][i]
  BY <1>1, <1>2, <1>3, <1>4, <1>7
<1>9. Own!Prefix(store, events[s])
  BY <1>1, <1>2, <1>3, <1>4, <1>8, PrefixMeans
<1> QED
  BY <1>2, <1>4, <1>9

(* An initialisation binds its session to what is stored, or it fails and  *)
(* at most what was tracked is let go; it takes an id only from nobody, or *)
(* from an owner that stored nothing and has nothing to store.             *)
Free == state.owner = NoOne \/ Own!MayTake

Binds(s) ==
  /\ Free
  /\ \E m \in BOOLEAN : state' = Own!Track(s, Len(store), m) /\ (~m => store = <<>>)
  /\ Own!Prefix(store, events[s]) /\ Len(store) <= seeds[s]
  /\ \/ seeds[s] > Len(store) /\ inits' = [inits EXCEPT ![s] = "append"] /\ UNCHANGED chain
     \/ seeds[s] = Len(store) /\ inits' = [inits EXCEPT ![s] = "ok"] /\ Own!Done

Refuses(s) ==
  /\ inits' = [inits EXCEPT ![s] = "failed"] /\ Own!Done
  /\ state' = state \/ (Free /\ state' = Own!Untracked)

LEMMA InitShape ==
  ASSUME OwnersAreMeant, OwnershipInv, NEW s \in Sessions, Own!RunInit(s)
  PROVE  /\ chain # <<>> /\ chain[1] = Own!Job("init", s) /\ inits[s] = "pending"
         /\ Binds(s) \/ Refuses(s)
         /\ UNCHANGED <<store, events, alive, seeds, queue, writing, retire, plugin>>
         /\ torn' \in BOOLEAN /\ spent' \in [reloads : 0 .. MaxReloads, fails : 0 .. MaxFails]
<1>1. Own!TypeOK
  BY DEF OwnershipInv
<1>2. chain # <<>> /\ Head(chain) = chain[1] /\ chain[1].kind = "init" /\ chain[1].of = s
      /\ chain[1] \in JobSet
  <2>1. chain # <<>> /\ Len(chain) > 0 /\ Head(chain) = chain[1] /\ chain[1].kind = "init"
    BY <1>1, HeadRuns DEF Own!RunInit
  <2>2. chain \in Seq(JobSet)
    BY <1>1 DEF Own!TypeOK, JobSet
  <2>3. chain[1] \in JobSet
    BY <2>1, <2>2
  <2> QED
    BY <2>1, <2>3 DEF Own!RunInit
<1>3. chain[1] = Own!Job("init", s)
  BY <1>2 DEF Own!Job, JobSet
<1>4. inits[s] = "pending"
      /\ UNCHANGED <<store, events, alive, seeds, queue, writing, retire, plugin>>
  BY DEF Own!RunInit
<1>5. seeds[s] \in Nat /\ Len(store) \in Nat
  BY <1>4, SeedFacts, StateFacts
<1>6. ASSUME NEW m \in BOOLEAN, ~m => store = <<>>, Free, Own!Bind(s, Len(store), m),
             Own!Prefix(store, events[s]), Len(store) <= seeds[s]
      PROVE  Binds(s)
  BY <1>5, <1>6 DEF Own!Bind, Binds, Own!Settle
<1>7. spent \in [reloads : 0 .. MaxReloads, fails : 0 .. MaxFails] /\ torn \in BOOLEAN
  BY <1>1 DEF Own!TypeOK
<1>8. Own!Fails => spent' \in [reloads : 0 .. MaxReloads, fails : 0 .. MaxFails]
  BY <1>7 DEF Own!Fails, OwnersAreMeant
<1> DEFINE said == SubSeq(events[s], 1, seeds[s])
<1>9. ASSUME Own!Covers(said, Len(store))
      PROVE Len(store) <= seeds[s] /\ Own!Prefix(store, events[s])
  BY <1>4, <1>9, CoversMeans
<1>10. store = <<>> => Len(store) = 0 /\ Own!Prefix(store, events[s])
  BY StateFacts, PrefixEmpty
<1> DEFINE Refuse(st) == Own!Settle(s, "failed") /\ Own!Done /\ state' = st /\ UNCHANGED <<torn, spent>>
           taken   == state.tracked /\ state.owner # NoOne
           Resolve ==
             \/ /\ store # <<>> /\ Own!Covers(said, Len(store))
                /\ Own!Bind(s, Len(store), TRUE) /\ torn' = FALSE /\ UNCHANGED spent
             \/ store # <<>> /\ ~Own!Covers(said, Len(store)) /\ Refuse(Own!Untracked)
             \/ store = <<>> /\ Own!Bind(s, 0, FALSE) /\ UNCHANGED <<torn, spent>>
             \/ /\ Own!Fails /\ Own!Settle(s, "failed") /\ Own!Done /\ state' = Own!Untracked
                /\ UNCHANGED torn
           Shape == Binds(s) \/ Refuses(s)
           Kept  == torn' \in BOOLEAN
           /\ spent' \in [reloads : 0 .. MaxReloads, fails : 0 .. MaxFails]
<1>11. ASSUME Free, Resolve PROVE Shape /\ Kept
  <2>1. CASE store # <<>> /\ Own!Covers(said, Len(store)) /\ Own!Bind(s, Len(store), TRUE)
             /\ torn' = FALSE /\ UNCHANGED spent
    <3>1. Binds(s)
      BY <1>6, <1>9, <1>11, <2>1
    <3> QED
      BY <1>7, <2>1, <3>1
  <2>2. CASE Refuse(Own!Untracked)
    BY <1>7, <1>11, <2>2 DEF Refuses, Own!Settle
  <2>3. CASE store = <<>> /\ Own!Bind(s, 0, FALSE) /\ UNCHANGED <<torn, spent>>
    <3>1. Len(store) = 0 /\ Own!Prefix(store, events[s]) /\ Len(store) <= seeds[s]
      BY <1>5, <1>10, <2>3
    <3>2. Own!Bind(s, Len(store), FALSE)
      BY <2>3, <3>1
    <3>3. Binds(s)
      BY <1>6, <1>11, <2>3, <3>1, <3>2
    <3> QED
      BY <1>7, <2>3, <3>3
  <2>4. CASE Own!Fails /\ Own!Settle(s, "failed") /\ Own!Done /\ state' = Own!Untracked /\ UNCHANGED torn
    BY <1>7, <1>8, <1>11, <2>4 DEF Refuses, Own!Settle
  <2> QED
    BY <1>11, <2>1, <2>2, <2>3, <2>4
<1>12. \/ ~state.tracked /\ Resolve
       \/ taken /\ Own!MayTake /\ Resolve
       \/ taken /\ ~Own!MayTake /\ Refuse(state)
       \/ /\ state.tracked /\ ~taken /\ Own!Covers(said, state.cursor)
          /\ Own!Bind(s, state.cursor, state.materialized) /\ UNCHANGED <<torn, spent>>
       \/ state.tracked /\ ~taken /\ ~Own!Covers(said, state.cursor) /\ Refuse(state)
       \/ /\ state.tracked /\ ~taken /\ state.cursor > 0
          /\ Own!Fails /\ Own!Settle(s, "failed") /\ Own!Done /\ UNCHANGED <<state, torn>>
  BY DEF Own!RunInit
<1> HIDE DEF Resolve, said
<1>13. Shape /\ Kept
  <2>1. CASE ~state.tracked /\ Resolve
    BY <1>11, <2>1, StateFacts DEF Free
  <2>2. CASE taken /\ Own!MayTake /\ Resolve
    BY <1>11, <2>2 DEF Free
  <2>3. CASE Refuse(state)
    BY <1>7, <2>3 DEF Refuses, Own!Settle
  <2>4. CASE state.tracked /\ ~taken /\ Own!Covers(said, state.cursor)
             /\ Own!Bind(s, state.cursor, state.materialized) /\ UNCHANGED <<torn, spent>>
    <3>1. /\ state.cursor = Len(store) /\ state.materialized \in BOOLEAN
          /\ ~state.materialized => store = <<>>
      BY <2>4, StateFacts DEF OwnershipInv, StateIsStored
    <3>2. Binds(s)
      BY <1>6, <1>9, <2>4, <3>1 DEF Free
    <3> QED
      BY <1>7, <2>4, <3>2
  <2>5. CASE Own!Fails /\ Own!Settle(s, "failed") /\ Own!Done /\ UNCHANGED <<state, torn>>
    BY <1>7, <1>8, <2>5 DEF Refuses, Own!Settle
  <2> QED
    BY <1>12, <2>1, <2>2, <2>3, <2>4, <2>5
<1> QED
  BY <1>2, <1>3, <1>4, <1>13

(* What is stored of its owner's log continues what was stored.            *)
LEMMA StoredShape ==
  ASSUME OwnersAreMeant, OwnershipInv, NEW s \in Sessions, state.owner = s, NEW n \in Nat,
         Len(store) <= n, n <= Len(events[s]), Own!Stored(s, n)
  PROVE  /\ store' \in Seq(Own!Writers) /\ Len(store') = n
         /\ Own!Prefix(store', events[s]) /\ Own!Prefix(store, store')
         /\ state' = Own!Track(s, n, TRUE)
<1>1. state.tracked /\ state.cursor = Len(store) /\ s # NoOne
  BY StateFacts DEF OwnersAreMeant
<1>2. store \in Seq(Own!Writers) /\ events[s] \in Seq(Own!Writers)
  BY StateFacts
<1>3. Own!Prefix(store, events[s])
  BY <1>1 DEF OwnershipInv, Own!OwnerContinuesLog
<1>4. store' = store \o SubSeq(events[s], Len(store) + 1, n)
  BY <1>1 DEF Own!Stored
<1>5. state' = Own!Track(s, n, TRUE)
  <2>1. state \in [tracked : BOOLEAN, owner : Sessions \cup {NoOne}, cursor : 0 .. MaxOwned + 1,
                   materialized : BOOLEAN]
    BY DEF OwnershipInv, Own!TypeOK
  <2> QED
    BY <1>1, <2>1 DEF Own!Stored, Own!Track
<1> QED
  BY <1>2, <1>3, <1>4, <1>5, OwnerContinues

LEMMA FirstJob ==
  ASSUME Own!TypeOK, NEW kind, NEW s \in Sessions \cup {NoOne}, Own!Runs(kind), Head(chain).of = s
  PROVE  chain # <<>> /\ Len(chain) > 0 /\ chain[1] = Own!Job(kind, s) /\ chain[1].kind = kind /\ chain[1].of = s
<1>1. chain # <<>> /\ Len(chain) > 0 /\ Head(chain) = chain[1] /\ chain[1].kind = kind
      /\ chain[1].of = s
  BY HeadRuns
<1>2. chain \in Seq(JobSet)
  BY DEF Own!TypeOK, JobSet
<1>3. chain[1] \in JobSet
  BY <1>1, <1>2
<1> QED
  BY <1>1, <1>3 DEF Own!Job, JobSet

AppendsAll(s) ==
  /\ store' \in Seq(Own!Writers) /\ Len(store') = seeds[s]
  /\ Own!Prefix(store', events[s]) /\ Own!Prefix(store, store')
  /\ state' = Own!Track(s, seeds[s], TRUE) /\ inits' = [inits EXCEPT ![s] = "ok"]

LEMMA AppendShape ==
  ASSUME OwnersAreMeant, OwnershipInv, NEW s \in Sessions, Own!InitAppends(s)
  PROVE  /\ chain # <<>> /\ chain[1] = Own!Job("init", s) /\ inits[s] = "append" /\ Own!Done
         /\ state.owner = s /\ seeds[s] \in Nat /\ seeds[s] <= MaxOwned + 1
         /\ spent' \in [reloads : 0 .. MaxReloads, fails : 0 .. MaxFails]
         /\ UNCHANGED <<torn, events, alive, seeds, queue, writing, retire, plugin>>
         /\ \/ AppendsAll(s)
            \/ inits' = [inits EXCEPT ![s] = "failed"] /\ UNCHANGED <<store, state>>
<1>1. Own!TypeOK
  BY DEF OwnershipInv
<1>2. chain # <<>> /\ chain[1] = Own!Job("init", s) /\ inits[s] = "append" /\ Own!Done
  BY <1>1, FirstJob DEF Own!InitAppends
<1>3. state.owner = s /\ seeds[s] > state.cursor
  BY <1>2 DEF OwnershipInv, OwnerIsBound
<1>4. /\ seeds[s] \in Nat /\ seeds[s] <= Len(events[s]) /\ Len(store) \in Nat
      /\ Len(events[s]) \in 0 .. MaxOwned + 1
  BY <1>2, SeedFacts, StateFacts
<1>5. state.cursor = Len(store)
  BY <1>3, StateFacts DEF OwnersAreMeant
<1>6. spent \in [reloads : 0 .. MaxReloads, fails : 0 .. MaxFails]
  BY <1>1 DEF Own!TypeOK
<1>7. spent' \in [reloads : 0 .. MaxReloads, fails : 0 .. MaxFails]
  BY <1>6 DEF Own!InitAppends, Own!Fails, OwnersAreMeant
<1>8. ASSUME Own!Stored(s, seeds[s]), inits' = [inits EXCEPT ![s] = "ok"] PROVE AppendsAll(s)
  <2>1. Len(store) <= seeds[s]
    BY <1>3, <1>4, <1>5
  <2>2. /\ store' \in Seq(Own!Writers) /\ Len(store') = seeds[s]
        /\ Own!Prefix(store', events[s]) /\ Own!Prefix(store, store')
        /\ state' = Own!Track(s, seeds[s], TRUE)
    BY <1>3, <1>4, <1>8, <2>1, StoredShape
  <2> QED
    BY <1>8, <2>2 DEF AppendsAll
<1>9. \/ AppendsAll(s)
      \/ inits' = [inits EXCEPT ![s] = "failed"] /\ UNCHANGED <<store, state>>
  BY <1>8 DEF Own!InitAppends, Own!Settle
<1>10. UNCHANGED <<torn, events, alive, seeds, queue, writing, retire, plugin>>
  BY DEF Own!InitAppends
<1>11. seeds[s] <= MaxOwned + 1
  BY <1>4 DEF OwnersAreMeant
<1> QED
  BY <1>2, <1>3, <1>4, <1>7, <1>9, <1>10, <1>11

(* A write finds its own session's state, where its log goes on.           *)
LEMMA WriteFinds ==
  ASSUME OwnersAreMeant, OwnershipInv, NEW s \in Sessions, writing[s] # <<>>
  PROVE  /\ inits[s] = "ok" /\ state.owner = s /\ WorkFrom(s, state.cursor)
         /\ state.cursor = Len(store) /\ Len(writing[s]) \in Nat /\ Len(writing[s]) > 0
<1>1. inits[s] = "ok" /\ Own!HasWork(s)
  BY DEF OwnershipInv, WorkIsKept, Own!HasWork
<1>2. state.owner = s
  BY <1>1 DEF OwnershipInv, OwnerIsBound
<1>3. WorkFrom(s, state.cursor) /\ state.cursor = Len(store)
  BY <1>1, <1>2, StateFacts DEF OwnershipInv, WorkIsKept, OwnersAreMeant
<1>4. writing[s] \in Seq(Own!Indices)
  BY DEF OwnershipInv, Own!TypeOK
<1> QED
  BY <1>1, <1>2, <1>3, <1>4, EmptySeq

Written(s) ==
  LET n == Len(store) + Len(writing[s])
  IN /\ store' \in Seq(Own!Writers) /\ Len(store') = n
     /\ Own!Prefix(store', events[s]) /\ Own!Prefix(store, store')
     /\ state' = Own!Track(s, n, TRUE) /\ UNCHANGED <<queue, retire>>

PutBack(s) ==
  /\ queue' = [queue EXCEPT ![s] = writing[s] \o @]
  /\ retire' = IF retire[s] = "flush" THEN [retire EXCEPT ![s] = "failed"] ELSE retire
  /\ UNCHANGED <<store, state>>

LEMMA WriteShape ==
  ASSUME OwnersAreMeant, OwnershipInv, NEW s \in Sessions, Own!RunWrite(s)
  PROVE  /\ chain # <<>> /\ chain[1] = Own!Job("write", s) /\ Own!Done
         /\ writing[s] # <<>> /\ writing' = [writing EXCEPT ![s] = <<>>]
         /\ spent' \in [reloads : 0 .. MaxReloads, fails : 0 .. MaxFails]
         /\ UNCHANGED <<torn, events, alive, inits, seeds, plugin>>
         /\ Written(s) \/ PutBack(s)
<1>1. Own!TypeOK
  BY DEF OwnershipInv
<1>2. chain # <<>> /\ Len(chain) > 0 /\ chain[1] = Own!Job("write", s)
      /\ chain[1].kind = "write" /\ chain[1].of = s /\ Own!Done
  BY <1>1, FirstJob DEF Own!RunWrite
<1>3. writing[s] # <<>>
  <2>1. 1 \in DOMAIN chain
    BY <1>1, <1>2 DEF Own!TypeOK
  <2> QED
    BY <1>2, <2>1 DEF OwnershipInv, JobsAreMeant
<1>4. /\ state.owner = s /\ WorkFrom(s, state.cursor) /\ state.cursor = Len(store)
      /\ Len(writing[s]) \in Nat /\ Len(writing[s]) > 0
  BY <1>3, WriteFinds
<1>5. writing[s] \in Seq(Own!Indices) /\ queue[s] \in Seq(Own!Indices)
  BY <1>1 DEF Own!TypeOK
<1>6. Len(store) \in Nat /\ Len(events[s]) \in Nat
  BY StateFacts, SMT
<1> DEFINE last == writing[s][Len(writing[s])]
           next == IF writing[s][1] > state.cursor THEN writing[s][1] ELSE state.cursor + 1
<1>7. writing[s][1] = Len(store) + 1 /\ last = Len(store) + Len(writing[s])
  <2>1. \A i \in DOMAIN writing[s] : writing[s][i] = Len(store) + i
    BY <1>4 DEF WorkFrom, WorkIs
  <2>2. 1 \in DOMAIN writing[s] /\ Len(writing[s]) \in DOMAIN writing[s]
    BY <1>4, <1>5
  <2> QED
    BY <2>1, <2>2
<1>8. next = state.cursor + 1 /\ last > state.cursor
  BY <1>4, <1>6, <1>7
<1>9. Len(store) + Len(writing[s]) <= Len(events[s])
  <2>1. Len(queue[s]) \in Nat
    BY <1>5
  <2>2. Len(store) + Len(writing[s]) + Len(queue[s]) <= Len(events[s])
    BY <1>4 DEF WorkFrom, WorkIs
  <2>3. \A a, b, c, d \in Nat : a + b + c <= d => a + b <= d
    OBVIOUS
  <2>4. Len(store) \in Nat /\ Len(writing[s]) \in Nat /\ Len(events[s]) \in Nat
    BY <1>4, <1>6
  <2> QED
    BY <2>1, <2>2, <2>3, <2>4
<1>10. spent \in [reloads : 0 .. MaxReloads, fails : 0 .. MaxFails]
  BY <1>1 DEF Own!TypeOK
<1>11. \/ (IF last > state.cursor THEN Own!Stored(s, last) ELSE UNCHANGED <<store, state>>)
            /\ writing' = [writing EXCEPT ![s] = <<>>] /\ UNCHANGED <<queue, retire, spent>>
       \/ Own!Fails /\ writing' = [writing EXCEPT ![s] = <<>>] /\ PutBack(s)
  BY DEF Own!RunWrite, PutBack
<1>12. ASSUME Own!Stored(s, last), UNCHANGED <<queue, retire>> PROVE Written(s)
  <2>1. Own!Stored(s, Len(store) + Len(writing[s]))
    BY <1>7, <1>12
  <2>2. Len(store) + Len(writing[s]) \in Nat /\ Len(store) <= Len(store) + Len(writing[s])
    BY <1>4, <1>6
  <2> HIDE DEF last
  <2> QED
    BY <1>4, <1>9, <1>12, <2>1, <2>2, StoredShape DEF Written
<1> HIDE DEF last
<1>13. /\ writing' = [writing EXCEPT ![s] = <<>>]
       /\ spent' \in [reloads : 0 .. MaxReloads, fails : 0 .. MaxFails]
       /\ Written(s) \/ PutBack(s)
  BY <1>8, <1>10, <1>11, <1>12 DEF Own!Fails, OwnersAreMeant
<1>14. UNCHANGED <<torn, events, alive, inits, seeds, plugin>>
  BY DEF Own!RunWrite
<1> QED
  BY <1>2, <1>3, <1>13, <1>14

LEMMA ReleaseShape ==
  ASSUME OwnersAreMeant, OwnershipInv, NEW s \in Sessions, Own!Release(s)
  PROVE  /\ chain # <<>> /\ chain[1] = Own!Job("release", s) /\ Own!Done
         /\ retire[s] = "release" /\ inits[s] = "ok" /\ ~Own!HasWork(s)
<1>1. Own!TypeOK
  BY DEF OwnershipInv
<1>2. chain # <<>> /\ Len(chain) > 0 /\ chain[1] = Own!Job("release", s)
      /\ chain[1].kind = "release" /\ chain[1].of = s /\ Own!Done
  BY <1>1, FirstJob DEF Own!Release
<1>3. 1 \in DOMAIN chain
  BY <1>1, <1>2 DEF Own!TypeOK
<1> QED
  BY <1>2, <1>3 DEF OwnershipInv, JobsAreMeant

CreatesNothing == UNCHANGED <<store, torn, state>>
Creates == ~state.tracked /\ store = <<>> /\ state' = Own!Track(NoOne, 0, FALSE) /\ UNCHANGED <<store, torn>>
Loads ==
  /\ store' = store \/ (store' = Append(store, Repair) /\ Len(store') <= MaxOwned)
  /\ state' = Own!Track(NoOne, Len(store'), TRUE) /\ torn' = FALSE
  /\ \A s \in Sessions : inits[s] \in {"none", "pending"}

LEMMA CallShape ==
  ASSUME OwnersAreMeant, OwnershipInv, Own!RunCall
  PROVE  /\ chain # <<>> /\ chain[1].of = NoOne /\ Own!Done
         /\ UNCHANGED <<events, alive, Own!control, retire, plugin, spent>>
         /\ CreatesNothing \/ Creates \/ (Loads /\ state.owner = NoOne)
<1>1. Own!TypeOK
  BY DEF OwnershipInv
<1>2. chain # <<>> /\ Len(chain) > 0 /\ chain[1].kind \in {"create", "load"} /\ Own!Runs(chain[1].kind)
  <2>1. CASE Own!Runs("create")
    BY <1>1, <2>1, HeadRuns
  <2>2. CASE Own!Runs("load")
    BY <1>1, <2>2, HeadRuns
  <2> QED
    BY <2>1, <2>2 DEF Own!RunCall
<1>3. 1 \in DOMAIN chain
  BY <1>1, <1>2 DEF Own!TypeOK
<1>4. chain[1].of = NoOne
  BY <1>2, <1>3 DEF OwnershipInv, JobsAreMeant
<1>5. ASSUME Own!Runs("load")
      PROVE state.owner = NoOne /\ \A s \in Sessions : inits[s] \in {"none", "pending"}
  <2>1. chain[1].kind = "load"
    BY <1>1, <1>5, HeadRuns
  <2> QED
    BY <1>3, <2>1 DEF OwnershipInv, JobsAreMeant
<1>6. CreatesNothing \/ Creates \/ (Loads /\ state.owner = NoOne)
  BY <1>5 DEF Own!RunCall, CreatesNothing, Creates, Loads
<1> QED
  BY <1>2, <1>4, <1>6 DEF Own!RunCall

---------------------------------------------------------------------------
(* The types.                                                              *)

LEMMA InRange == ASSUME OwnersAreMeant, NEW n \in Nat, n <= MaxOwned + 1
  PROVE n \in 0 .. MaxOwned + 1
BY DEF OwnersAreMeant

(* A restored Session is bound in the call, and its end-seed may follow.    *)
BoundAtOnce(s) == /\ inits' = [inits EXCEPT ![s] = "ok"] /\ events'[s] = store
                  /\ UNCHANGED <<seeds, chain>>
BoundToAppend(s) ==
  /\ inits' = [inits EXCEPT ![s] = "append"] /\ seeds' = [seeds EXCEPT ![s] = Len(store) + 1]
  /\ Len(events'[s]) = Len(store) + 1
  /\ chain' \in Seq(JobSet) /\ Len(chain') = 1 /\ chain'[1] = Own!Job("init", s)

LEMMA RestoreShape ==
  ASSUME OwnersAreMeant, OwnershipInv, NEW s \in Sessions, Own!Restore(s)
  PROVE  /\ chain = <<>> /\ Len(chain) = 0 /\ inits[s] = "none" /\ alive[s] = "unborn"
         /\ plugin = "on" /\ Own!NoneLive /\ state.tracked /\ state.owner = NoOne
         /\ state.cursor = Len(store) /\ Len(store) \in Nat
         /\ \A r \in Sessions : inits[r] # "pending" /\ inits[r] # "append"
         /\ alive' = [alive EXCEPT ![s] = "live"]
         /\ state'.owner = s /\ state'.cursor = state.cursor
         /\ events'[s] \in Seq(Own!Writers) /\ Len(events'[s]) <= MaxOwned + 1
         /\ events' \in [Sessions -> Seq(Own!Writers)]
         /\ \A r \in Sessions : r # s => events'[r] = events[r]
         /\ Own!Prefix(store, events'[s])
         /\ Len(store) + 1 \in 0 .. MaxOwned + 1 \/ BoundAtOnce(s)
         /\ BoundAtOnce(s) \/ BoundToAppend(s)
         /\ UNCHANGED <<store, torn, queue, writing, retire, plugin, spent>>
<1>1. /\ Own!TypeOK /\ alive[s] = "unborn" /\ chain = <<>> /\ plugin = "on" /\ Own!NoneLive
      /\ state.tracked /\ state.owner = NoOne /\ inits[s] = "none"
      /\ alive' = [alive EXCEPT ![s] = "live"]
      /\ UNCHANGED <<store, torn, queue, writing, retire, plugin, spent>>
  BY DEF Own!Restore, OwnershipInv, OneAtATime
<1>2. /\ events \in [Sessions -> Seq(Own!Writers)] /\ store \in Seq(Own!Writers)
      /\ s \in Own!Writers /\ Len(store) \in Nat /\ state.cursor = Len(store)
  BY <1>1, StateFacts DEF Own!TypeOK, Own!Writers
<1>3. \A r \in Sessions : inits[r] # "pending" /\ inits[r] # "append"
  <2>1. DOMAIN chain = {}
    BY <1>1, EmptySeq
  <2> QED
    BY <1>1, <2>1 DEF OwnershipInv, JobsAreMeant
<1>4. state'.owner = s /\ state'.cursor = state.cursor
  BY <1>1 DEF Own!Restore, Own!TypeOK
<1>5. Len(chain) = 0
  BY <1>1, EmptySeq
<1>6. CASE /\ events' = [events EXCEPT ![s] = store] /\ inits' = [inits EXCEPT ![s] = "ok"]
           /\ UNCHANGED <<seeds, chain>>
  <2>1. /\ events'[s] = store /\ events' \in [Sessions -> Seq(Own!Writers)]
        /\ \A r \in Sessions : r # s => events'[r] = events[r]
    BY <1>2, <1>6
  <2>2. Len(events'[s]) <= MaxOwned + 1
    BY <2>1 DEF OwnershipInv, StateIsStored
  <2>3. Own!Prefix(store, events'[s])
    BY <1>2, <2>1, PrefixItself
  <2>4. BoundAtOnce(s)
    BY <1>6, <2>1 DEF BoundAtOnce
  <2> QED
    BY <1>1, <1>2, <1>3, <1>4, <1>5, <2>1, <2>2, <2>3, <2>4
<1>7. CASE /\ Len(store) < MaxOwned
           /\ events' = [events EXCEPT ![s] = Append(store, s)]
           /\ inits' = [inits EXCEPT ![s] = "append"]
           /\ seeds' = [seeds EXCEPT ![s] = Len(store) + 1]
           /\ Own!Enqueue("init", s)
  <2>1. Append(store, s) \in Seq(Own!Writers) /\ Len(Append(store, s)) = Len(store) + 1
    BY <1>2, AppendFacts
  <2>2. /\ events'[s] = Append(store, s) /\ events' \in [Sessions -> Seq(Own!Writers)]
        /\ \A r \in Sessions : r # s => events'[r] = events[r]
    BY <1>2, <1>7, <2>1
  <2>3. Len(store) + 1 \in 0 .. MaxOwned + 1 /\ Len(store) + 1 <= MaxOwned + 1
    BY <1>2, <1>7 DEF OwnersAreMeant
  <2>4. Own!Prefix(store, events'[s])
    <3>1. Own!Prefix(store, store)
      BY <1>2, PrefixItself
    <3>2. Own!Prefix(store, Append(store, s))
      BY <1>2, <3>1, PrefixAppend
    <3> QED
      BY <2>2, <3>2
  <2>5. chain' \in Seq(JobSet) /\ Len(chain') = 1 /\ chain'[1] = Own!Job("init", s)
    BY <1>1, <1>5, <1>7, Enqueued
  <2>6. BoundToAppend(s)
    BY <1>7, <2>1, <2>2, <2>5 DEF BoundToAppend
  <2>7. events'[s] \in Seq(Own!Writers) /\ Len(events'[s]) <= MaxOwned + 1
    BY <2>1, <2>2, <2>3
  <2> QED
    BY <1>1, <1>2, <1>3, <1>4, <1>5, <2>2, <2>3, <2>4, <2>6, <2>7
<1> QED
  BY <1>6, <1>7 DEF Own!Restore

LEMMA SessionTypes ==
  ASSUME OwnersAreMeant, OwnershipInv, NEW s \in Sessions,
         Own!Create(s) \/ Own!Restore(s) \/ Own!Speak(s) \/ Own!Dispose(s)
  PROVE  Own!TypeOK'
<1>1. Own!TypeOK
  BY DEF OwnershipInv
<1>2. /\ store \in Seq(Own!Writers) /\ Repair \in Own!Writers /\ s \in Own!Writers
      /\ events \in [Sessions -> Seq(Own!Writers)] /\ Len(store) \in 0 .. MaxOwned + 1
  <2>1. store \in Seq(Own!Writers) /\ Len(store) <= MaxOwned + 1 /\ Len(store) \in Nat
    BY <1>1, StateFacts DEF OwnershipInv, StateIsStored
  <2>2. Len(store) \in 0 .. MaxOwned + 1
    BY <2>1, InRange
  <2> QED
    BY <1>1, <2>1, <2>2 DEF Own!TypeOK, Own!Writers
<1>3. CASE Own!Create(s)
  <2>1. PICK said \in {<<>>, <<s>>, store, Append(store, s)} :
          /\ Len(said) <= MaxOwned /\ events' = [events EXCEPT ![s] = said]
          /\ IF plugin = "on" THEN Own!InitFor(s, said) ELSE UNCHANGED <<inits, seeds, chain>>
    BY <1>3 DEF Own!Create
  <2>2. said \in Seq(Own!Writers) /\ Len(said) \in 0 .. MaxOwned + 1
    <3>1. said \in Seq(Own!Writers)
      <4>1. <<>> \in Seq(Own!Writers) /\ <<s>> \in Seq(Own!Writers)
        BY <1>2
      <4>2. Append(store, s) \in Seq(Own!Writers)
        BY <1>2, AppendFacts
      <4> QED
        BY <1>2, <4>1, <4>2
    <3>2. Len(said) \in Nat
      BY <3>1
    <3>3. Len(said) <= MaxOwned + 1
      BY <2>1, <3>2 DEF OwnersAreMeant
    <3> QED
      BY <3>1, <3>2, <3>3, InRange
  <2>3. events' \in [Sessions -> Seq(Own!Writers)]
    BY <1>2, <2>1, <2>2
  <2>4. /\ inits' \in [Sessions -> {"none", "pending", "append", "ok", "failed"}]
        /\ seeds' \in [Sessions -> 0 .. MaxOwned + 1]
        /\ chain' \in Seq(JobSet)
    <3>1. CASE plugin = "on"
      <4>1. Own!Enqueue("init", s)
        BY <2>1, <3>1 DEF Own!InitFor
      <4>2. chain' \in Seq(JobSet)
        BY <1>1, <4>1, Enqueued
      <4>3. inits' = [inits EXCEPT ![s] = "pending"] /\ seeds' = [seeds EXCEPT ![s] = Len(said)]
        BY <2>1, <3>1 DEF Own!InitFor
      <4>4. /\ inits \in [Sessions -> {"none", "pending", "append", "ok", "failed"}]
            /\ seeds \in [Sessions -> 0 .. MaxOwned + 1]
        BY <1>1 DEF Own!TypeOK
      <4>5. seeds' \in [Sessions -> 0 .. MaxOwned + 1]
        BY <2>2, <4>3, <4>4
      <4> QED
        BY <4>2, <4>3, <4>4, <4>5
    <3>2. CASE plugin # "on"
      BY <1>1, <2>1, <3>2 DEF Own!TypeOK, JobSet
    <3> QED
      BY <3>1, <3>2
  <2>5. /\ alive' = [alive EXCEPT ![s] = "live"]
        /\ UNCHANGED <<store, torn, state, queue, writing, retire, plugin, spent>>
    BY <1>3 DEF Own!Create
  <2> QED
    BY <1>1, <2>3, <2>4, <2>5 DEF Own!TypeOK, JobSet
<1>4. CASE Own!Restore(s)
  <2>1. /\ events' \in [Sessions -> Seq(Own!Writers)] /\ alive' = [alive EXCEPT ![s] = "live"]
        /\ UNCHANGED <<store, torn, queue, writing, retire, plugin, spent>>
        /\ BoundAtOnce(s) \/ (BoundToAppend(s) /\ Len(store) + 1 \in 0 .. MaxOwned + 1)
    BY <1>4, RestoreShape
  <2>2. state' = [state EXCEPT !.owner = s]
    BY <1>4 DEF Own!Restore
  <2>3. /\ inits' \in [Sessions -> {"none", "pending", "append", "ok", "failed"}]
        /\ seeds' \in [Sessions -> 0 .. MaxOwned + 1]
    <3>1. /\ inits \in [Sessions -> {"none", "pending", "append", "ok", "failed"}]
          /\ seeds \in [Sessions -> 0 .. MaxOwned + 1]
      BY <1>1 DEF Own!TypeOK
    <3>2. CASE BoundAtOnce(s)
      BY <3>1, <3>2 DEF BoundAtOnce
    <3>3. CASE BoundToAppend(s) /\ Len(store) + 1 \in 0 .. MaxOwned + 1
      <4>1. seeds' \in [Sessions -> 0 .. MaxOwned + 1]
        BY <3>1, <3>3 DEF BoundToAppend
      <4>2. inits' \in [Sessions -> {"none", "pending", "append", "ok", "failed"}]
        BY <3>1, <3>3 DEF BoundToAppend
      <4> QED
        BY <4>1, <4>2
    <3> QED
      BY <2>1, <3>2, <3>3
  <2>4. chain' \in Seq(JobSet)
    BY <1>1, <2>1 DEF BoundAtOnce, BoundToAppend, Own!TypeOK, JobSet
  <2> QED
    BY <1>1, <2>1, <2>2, <2>3, <2>4 DEF Own!TypeOK, JobSet
<1>5. CASE Own!Speak(s)
  <2>1. Len(events[s]) \in Nat /\ Len(events[s]) < MaxOwned
    BY <1>2, <1>5 DEF Own!Speak
  <2>2. Own!NextSeq(s) \in Own!Indices
    BY <2>1 DEF Own!NextSeq, Own!Indices, OwnersAreMeant
  <2>3. Append(events[s], s) \in Seq(Own!Writers)
        /\ Append(queue[s], Own!NextSeq(s)) \in Seq(Own!Indices)
    BY <1>1, <1>2, <2>2, AppendFacts DEF Own!TypeOK
  <2>4. /\ events' \in [Sessions -> Seq(Own!Writers)] /\ queue' \in [Sessions -> Seq(Own!Indices)]
    BY <1>1, <1>2, <1>5, <2>3 DEF Own!Speak, Own!TypeOK
  <2> QED
    BY <1>1, <1>5, <2>4 DEF Own!Speak, Own!TypeOK
<1>6. CASE Own!Dispose(s)
  BY <1>1, <1>6 DEF Own!Dispose, Own!TypeOK, Own!control
<1> QED
  BY <1>3, <1>4, <1>5, <1>6

LEMMA WriteTypes ==
  ASSUME OwnersAreMeant, OwnershipInv, NEW s \in Sessions,
         Own!StartWrite(s) \/ Own!Flush(s) \/ Own!RunWrite(s)
  PROVE  Own!TypeOK'
<1>1. Own!TypeOK
  BY DEF OwnershipInv
<1>2. CASE Own!StartWrite(s)
  <2>1. chain' \in Seq(JobSet)
    BY <1>1, <1>2, Enqueued DEF Own!StartWrite
  <2>2. queue' \in [Sessions -> Seq(Own!Indices)] /\ writing' \in [Sessions -> Seq(Own!Indices)]
    BY <1>1, <1>2, EmptySeq DEF Own!StartWrite, Own!TypeOK
  <2> QED
    BY <1>1, <1>2, <2>1, <2>2 DEF Own!StartWrite, Own!TypeOK, JobSet
<1>3. CASE Own!Flush(s)
  <2>1. chain' \in Seq(JobSet)
    BY <1>1, <1>3, Enqueued DEF Own!Flush, Own!TypeOK, JobSet
  <2> QED
    BY <1>1, <1>3, <2>1 DEF Own!Flush, Own!TypeOK, JobSet, Own!control
<1>4. CASE Own!RunWrite(s)
  <2>1. /\ chain # <<>> /\ Own!Done /\ writing' = [writing EXCEPT ![s] = <<>>]
        /\ spent' \in [reloads : 0 .. MaxReloads, fails : 0 .. MaxFails]
        /\ UNCHANGED <<torn, events, alive, inits, seeds, plugin>>
        /\ Written(s) \/ PutBack(s)
    BY <1>4, WriteShape
  <2>2. chain' \in Seq(JobSet)
    BY <1>1, <2>1, Popped
  <2>3. writing[s] \in Seq(Own!Indices) /\ queue[s] \in Seq(Own!Indices)
    BY <1>1 DEF Own!TypeOK
  <2>4. writing' \in [Sessions -> Seq(Own!Indices)]
    BY <1>1, <2>1, EmptySeq DEF Own!TypeOK
  <2>5. CASE Written(s)
    <3>1. writing[s] # <<>>
      BY <1>4, WriteShape
    <3>2. Len(store) + Len(writing[s]) \in 0 .. MaxOwned + 1
      <4>1. WorkFrom(s, Len(store)) /\ Len(store) \in Nat /\ Len(writing[s]) \in Nat
            /\ Len(queue[s]) \in Nat /\ Len(events[s]) \in Nat /\ Len(events[s]) <= MaxOwned + 1
        <5>1. Len(events[s]) \in 0 .. MaxOwned + 1
          BY StateFacts
        <5> QED
          BY <2>3, <3>1, <5>1, WriteFinds, StateFacts DEF OwnersAreMeant
      <4>2. Len(store) + Len(writing[s]) + Len(queue[s]) <= Len(events[s])
        BY <4>1 DEF WorkFrom, WorkIs
      <4>3. \A a, b, c, d \in Nat : a + b + c <= d => a + b <= d
        OBVIOUS
      <4>4. Len(store) + Len(writing[s]) <= Len(events[s])
        BY <4>1, <4>2, <4>3
      <4>5. \A a, b, c, d \in Nat : a + b <= c /\ c <= d => a + b \in Nat /\ a + b <= d
        OBVIOUS
      <4>6. MaxOwned + 1 \in Nat
        BY DEF OwnersAreMeant
      <4>7. Len(store) + Len(writing[s]) \in Nat /\ Len(store) + Len(writing[s]) <= MaxOwned + 1
        BY <4>1, <4>4, <4>5, <4>6
      <4> QED
        BY <4>7, InRange
    <3>3. state' \in [tracked : BOOLEAN, owner : Sessions \cup {NoOne}, cursor : 0 .. MaxOwned + 1,
                      materialized : BOOLEAN]
      BY <2>5, <3>2 DEF Written, Own!Track
    <3> QED
      BY <1>1, <2>1, <2>2, <2>4, <2>5, <3>3 DEF Written, Own!TypeOK, JobSet
  <2>6. CASE PutBack(s)
    <3>1. queue' \in [Sessions -> Seq(Own!Indices)]
      <4>1. writing[s] \o queue[s] \in Seq(Own!Indices)
        BY <2>3, ConcatProperties
      <4> QED
        BY <1>1, <2>6, <4>1 DEF PutBack, Own!TypeOK
    <3>2. retire' \in [Sessions -> {"no", "flush", "release", "done", "failed"}]
      BY <1>1, <2>6 DEF PutBack, Own!TypeOK
    <3> QED
      BY <1>1, <2>1, <2>2, <2>4, <2>6, <3>1, <3>2 DEF PutBack, Own!TypeOK, JobSet
  <2> QED
    BY <2>1, <2>5, <2>6
<1> QED
  BY <1>2, <1>3, <1>4

LEMMA InitTypes ==
  ASSUME OwnersAreMeant, OwnershipInv, NEW s \in Sessions,
         Own!RunInit(s) \/ Own!InitAppends(s) \/ Own!Release(s)
  PROVE  Own!TypeOK'
<1>1. Own!TypeOK /\ Len(store) \in 0 .. MaxOwned + 1
  BY StateFacts DEF OwnershipInv, StateIsStored, OwnersAreMeant
<1>2. CASE Own!RunInit(s)
  <2>1. /\ chain # <<>>
        /\ Binds(s) \/ Refuses(s)
        /\ UNCHANGED <<store, events, alive, seeds, queue, writing, retire, plugin>>
        /\ torn' \in BOOLEAN /\ spent' \in [reloads : 0 .. MaxReloads, fails : 0 .. MaxFails]
    BY <1>2, InitShape
  <2>2. chain' \in Seq(JobSet)
    <3>1. chain \in Seq(JobSet)
      BY <1>1 DEF Own!TypeOK, JobSet
    <3>2. Own!Done => chain' \in Seq(JobSet)
      BY <1>1, <2>1, Popped
    <3> QED
      BY <2>1, <3>1, <3>2 DEF Binds, Refuses
  <2>3. inits' \in [Sessions -> {"none", "pending", "append", "ok", "failed"}]
    BY <1>1, <2>1 DEF Binds, Refuses, Own!TypeOK
  <2>4. state' \in [tracked : BOOLEAN, owner : Sessions \cup {NoOne}, cursor : 0 .. MaxOwned + 1,
                    materialized : BOOLEAN]
    <3>1. CASE Binds(s)
      BY <1>1, <3>1 DEF Binds, Own!Track
    <3>2. CASE Refuses(s)
      <4>1. Own!Untracked \in [tracked : BOOLEAN, owner : Sessions \cup {NoOne}, cursor : 0 .. MaxOwned + 1,
                           materialized : BOOLEAN]
        BY DEF Own!Untracked, OwnersAreMeant
      <4>2. state' = state \/ state' = Own!Untracked
        BY <3>2 DEF Refuses
      <4> QED
        BY <1>1, <4>1, <4>2 DEF Own!TypeOK
    <3> QED
      BY <2>1, <3>1, <3>2
  <2> QED
    BY <1>1, <2>1, <2>2, <2>3, <2>4 DEF Own!TypeOK, JobSet
<1>3. CASE Own!InitAppends(s)
  <2>1. /\ chain # <<>> /\ Own!Done /\ seeds[s] \in Nat /\ seeds[s] <= MaxOwned + 1
        /\ spent' \in [reloads : 0 .. MaxReloads, fails : 0 .. MaxFails]
        /\ UNCHANGED <<torn, events, alive, seeds, queue, writing, retire, plugin>>
        /\ \/ AppendsAll(s)
           \/ inits' = [inits EXCEPT ![s] = "failed"] /\ UNCHANGED <<store, state>>
    BY <1>3, AppendShape
  <2>2. chain' \in Seq(JobSet)
    BY <1>1, <2>1, Popped
  <2>3. CASE AppendsAll(s)
    <3>1. state' \in [tracked : BOOLEAN, owner : Sessions \cup {NoOne}, cursor : 0 .. MaxOwned + 1,
                      materialized : BOOLEAN]
      BY <2>1, <2>3 DEF AppendsAll, Own!Track, OwnersAreMeant
    <3> QED
      BY <1>1, <2>1, <2>2, <2>3, <3>1 DEF AppendsAll, Own!TypeOK, JobSet
  <2>4. CASE inits' = [inits EXCEPT ![s] = "failed"] /\ UNCHANGED <<store, state>>
    BY <1>1, <2>1, <2>2, <2>4 DEF Own!TypeOK, JobSet
  <2> QED
    BY <2>1, <2>3, <2>4
<1>4. CASE Own!Release(s)
  <2>1. chain' \in Seq(JobSet)
    BY <1>1, <1>4, ReleaseShape, Popped
  <2>2. state' \in [tracked : BOOLEAN, owner : Sessions \cup {NoOne}, cursor : 0 .. MaxOwned + 1,
                    materialized : BOOLEAN]
    BY <1>1, <1>4 DEF Own!Release, Own!LetGo, Own!Untracked, Own!TypeOK, OwnersAreMeant
  <2> QED
    BY <1>1, <1>4, <2>1, <2>2 DEF Own!Release, Own!Settle, Own!TypeOK, JobSet
<1> QED
  BY <1>2, <1>3, <1>4

LEMMA CallTypes == ASSUME OwnersAreMeant, OwnershipInv, Own!RunCall PROVE Own!TypeOK'
<1>1. Own!TypeOK /\ Len(store) \in 0 .. MaxOwned + 1
  BY StateFacts DEF OwnershipInv, StateIsStored, OwnersAreMeant
<1>2. /\ chain # <<>> /\ Own!Done
      /\ UNCHANGED <<events, alive, Own!control, retire, plugin, spent>>
      /\ CreatesNothing \/ Creates \/ Loads
  BY CallShape
<1>3. chain' \in Seq(JobSet)
  BY <1>1, <1>2, Popped
<1>4. /\ store' \in Seq(Own!Writers) /\ torn' \in BOOLEAN
      /\ state' \in [tracked : BOOLEAN, owner : Sessions \cup {NoOne}, cursor : 0 .. MaxOwned + 1,
                     materialized : BOOLEAN]
  <2>1. CASE CreatesNothing
    BY <1>1, <2>1 DEF CreatesNothing, Own!TypeOK
  <2>2. CASE Creates
    BY <1>1, <2>2 DEF Creates, Own!Track, Own!TypeOK, OwnersAreMeant
  <2>3. CASE Loads
    <3>1. store' \in Seq(Own!Writers) /\ Len(store') \in 0 .. MaxOwned + 1
      <4>1. CASE store' = store
        BY <1>1, <4>1 DEF Own!TypeOK
      <4>2. CASE store' = Append(store, Repair) /\ Len(store') <= MaxOwned
        <5>1. Append(store, Repair) \in Seq(Own!Writers)
              /\ Len(Append(store, Repair)) = Len(store) + 1
          BY <1>1, AppendFacts DEF Own!TypeOK, Own!Writers
        <5> QED
          BY <1>1, <4>2, <5>1 DEF OwnersAreMeant
      <4> QED
        BY <2>3, <4>1, <4>2 DEF Loads
    <3> QED
      BY <2>3, <3>1 DEF Loads, Own!Track
  <2> QED
    BY <1>2, <2>1, <2>2, <2>3
<1> QED
  BY <1>1, <1>2, <1>3, <1>4 DEF Own!TypeOK, JobSet, Own!control

LEMMA OwnershipTypeStep == ASSUME OwnersAreMeant, OwnershipInv, [Own!Next]_(Own!vars)
  PROVE Own!TypeOK'
<1>1. Own!TypeOK
  BY DEF OwnershipInv
<1>2. ASSUME NEW k \in {"create", "load"}, Own!Call(k) PROVE Own!TypeOK'
  <2>1. chain' \in Seq(JobSet)
    BY <1>1, <1>2, Enqueued DEF Own!Call
  <2> QED
    BY <1>1, <1>2, <2>1 DEF Own!Call, Own!TypeOK, JobSet, Own!control
<1>3. CASE Own!Unload
  <2>1. spent' \in [reloads : 0 .. MaxReloads, fails : 0 .. MaxFails]
    <3>1. /\ spent \in [reloads : 0 .. MaxReloads, fails : 0 .. MaxFails]
          /\ spent' = [spent EXCEPT !.reloads = @ + 1] /\ spent.reloads < MaxReloads
      BY <1>1, <1>3 DEF Own!Unload, Own!TypeOK
    <3>2. spent.reloads + 1 \in 0 .. MaxReloads
      BY <3>1 DEF OwnersAreMeant
    <3> QED
      BY <3>1, <3>2
  <2> QED
    BY <1>1, <1>3, <2>1 DEF Own!Unload, Own!TypeOK, Own!control
<1>4. CASE Own!Unloaded
  <2>1. /\ queue' \in [Sessions -> Seq(Own!Indices)] /\ writing' \in [Sessions -> Seq(Own!Indices)]
        /\ seeds' \in [Sessions -> 0 .. MaxOwned + 1]
    BY <1>4, EmptySeq DEF Own!Unloaded, OwnersAreMeant
  <2> QED
    BY <1>1, <1>4, <2>1 DEF Own!Unloaded, Own!Untracked, Own!TypeOK, OwnersAreMeant
<1>5. CASE Own!Load
  <2>1. CASE Own!NoneLive
    BY <1>1, <1>5, <2>1 DEF Own!Load, Own!TypeOK
  <2>2. CASE ~Own!NoneLive
    <3> DEFINE s == CHOOSE s \in Sessions : alive[s] = "live"
    <3>1. s \in Sessions /\ Own!InitFor(s, events[s])
      BY <1>5, <2>2 DEF Own!Load, Own!NoneLive
    <3> HIDE DEF s
    <3>2. chain' \in Seq(JobSet)
      BY <1>1, <3>1, Enqueued DEF Own!InitFor
    <3>3. Len(events[s]) \in 0 .. MaxOwned + 1
      BY <3>1, StateFacts
    <3> QED
      BY <1>1, <1>5, <3>1, <3>2, <3>3 DEF Own!Load, Own!InitFor, Own!TypeOK, JobSet
  <2> QED
    BY <2>1, <2>2
<1>6. CASE UNCHANGED Own!vars
  BY <1>1, <1>6 DEF Own!vars, Own!control, Own!TypeOK
<1> QED
  BY <1>2, <1>3, <1>4, <1>5, <1>6, SessionTypes, WriteTypes, InitTypes, CallTypes DEF Own!Next,
     Own!Chain

---------------------------------------------------------------------------
(* The parts of the invariant about what is stored and who follows whom.   *)

LEMMA StoredStep == ASSUME OwnersAreMeant, OwnershipInv, [Own!Next]_(Own!vars)
  PROVE StateIsStored'
<1>1. StateIsStored /\ Own!TypeOK /\ Own!TypeOK' /\ Len(store) \in Nat
  BY OwnershipTypeStep, StateFacts DEF OwnershipInv
<1>2. CASE UNCHANGED <<store, state>>
  BY <1>1, <1>2 DEF StateIsStored, Own!Untracked
<1>3. ASSUME NEW s \in Sessions, Own!Restore(s) PROVE StateIsStored'
  BY <1>1, <1>3 DEF Own!Restore, StateIsStored, Own!TypeOK
<1>4. CASE Own!RunCall
  <2>1. CASE CreatesNothing
    BY <1>2, <2>1 DEF CreatesNothing
  <2>2. CASE Creates
    <3>1. Len(store') = 0 /\ store' = <<>>
      BY <2>2 DEF Creates
    <3> QED
      BY <1>1, <2>2, <3>1 DEF Creates, Own!Track, StateIsStored, OwnersAreMeant
  <2>3. CASE Loads
    BY <1>1, <2>3 DEF Loads, Own!Track, StateIsStored, OwnersAreMeant
  <2> QED
    BY <1>4, <2>1, <2>2, <2>3, CallShape
<1>5. ASSUME NEW s \in Sessions, Own!RunInit(s) PROVE StateIsStored'
  <2>1. UNCHANGED store /\ (Binds(s) \/ Refuses(s))
    BY <1>5, InitShape
  <2>2. CASE Binds(s)
    BY <1>1, <2>1, <2>2 DEF Binds, Own!Track, StateIsStored
  <2>3. CASE state' = Own!Untracked
    BY <1>1, <2>1, <2>3 DEF Own!Untracked, StateIsStored
  <2> QED
    BY <1>2, <2>1, <2>2, <2>3 DEF Refuses
<1>6. ASSUME NEW s \in Sessions, Own!InitAppends(s) PROVE StateIsStored'
  BY <1>1, <1>2, <1>6, AppendShape DEF AppendsAll, Own!Track, StateIsStored
<1>7. ASSUME NEW s \in Sessions, Own!RunWrite(s) PROVE StateIsStored'
  <2>1. CASE PutBack(s)
    BY <1>2, <2>1 DEF PutBack
  <2>2. CASE Written(s)
    <3>1. state'.tracked /\ state'.materialized /\ state'.cursor = Len(store')
      BY <2>2 DEF Written, Own!Track
    <3>2. state'.cursor \in 0 .. MaxOwned + 1
      BY <1>1 DEF Own!TypeOK
    <3> QED
      BY <3>1, <3>2 DEF StateIsStored
  <2> QED
    BY <1>7, <2>1, <2>2, WriteShape
<1>8. ASSUME NEW s \in Sessions, Own!Release(s) PROVE StateIsStored'
  BY <1>1, <1>8 DEF Own!Release, Own!LetGo, Own!Untracked, StateIsStored
<1>9. CASE Own!Unloaded
  BY <1>1, <1>9 DEF Own!Unloaded, Own!Untracked, StateIsStored
<1> QED
  BY <1>2, <1>3, <1>4, <1>5, <1>6, <1>7, <1>8, <1>9
     DEF Own!Next, Own!Chain, Own!Create, Own!Speak, Own!Dispose, Own!StartWrite, Own!Flush,
         Own!Call, Own!Unload, Own!Load, Own!vars

(* How an initialisation comes to be settled, session by session.          *)
LEMMA InitMoves ==
  ASSUME OwnersAreMeant, OwnershipInv, NEW s \in Sessions, Own!RunInit(s) \/ Own!InitAppends(s)
  PROVE  /\ inits[s] \in {"pending", "append"} /\ inits'[s] \in Bound
         /\ inits[s] = "append" => inits'[s] # "append"
         /\ \A r \in Sessions : r # s => inits'[r] = inits[r]
         /\ UNCHANGED <<events, alive, seeds, queue, writing, retire, plugin>>
         /\ chain # <<>> /\ chain[1] = Own!Job("init", s)
         /\ \/ inits[s] = "pending" /\ inits'[s] = "append" /\ UNCHANGED chain
            \/ inits'[s] \in {"ok", "failed"} /\ Own!Done
<1>1. inits \in [Sessions -> {"none", "pending", "append", "ok", "failed"}]
  BY DEF OwnershipInv, Own!TypeOK
<1>2. CASE Own!RunInit(s)
  <2>1. /\ chain # <<>> /\ chain[1] = Own!Job("init", s) /\ inits[s] = "pending"
        /\ Binds(s) \/ Refuses(s)
        /\ UNCHANGED <<store, events, alive, seeds, queue, writing, retire, plugin>>
    BY <1>2, InitShape
  <2> QED
    BY <1>1, <2>1 DEF Binds, Refuses, Bound
<1>3. CASE Own!InitAppends(s)
  <2>1. /\ chain # <<>> /\ chain[1] = Own!Job("init", s) /\ inits[s] = "append" /\ Own!Done
        /\ UNCHANGED <<torn, events, alive, seeds, queue, writing, retire, plugin>>
        /\ \/ inits' = [inits EXCEPT ![s] = "ok"]
           \/ inits' = [inits EXCEPT ![s] = "failed"]
    BY <1>3, AppendShape DEF AppendsAll
  <2> QED
    BY <1>1, <2>1 DEF Bound
<1> QED
  BY <1>2, <1>3

(* A retirement moves on, and starts with a disposal.                      *)
LEMMA RetireMoves ==
  ASSUME OwnersAreMeant, OwnershipInv, NEW r \in Sessions, [Own!Next]_(Own!vars)
  PROVE  /\ retire[r] # "no" /\ retire'[r] = "no" => Own!Unloaded
         /\ retire[r] = "no" /\ retire'[r] # "no" => Own!Dispose(r) /\ plugin = "on"
<1>1. retire \in [Sessions -> {"no", "flush", "release", "done", "failed"}]
  BY DEF OwnershipInv, Own!TypeOK
<1>2. CASE UNCHANGED retire
  BY <1>2
<1>3. ASSUME NEW s \in Sessions, Own!Dispose(s)
      PROVE retire'[r] = retire[r] \/ (r = s /\ retire'[r] # "no" /\ plugin = "on")
  BY <1>1, <1>3 DEF Own!Dispose
<1>4. ASSUME NEW s \in Sessions, Own!Flush(s)
      PROVE retire'[r] = retire[r] \/ (retire[r] # "no" /\ retire'[r] # "no")
  BY <1>1, <1>4 DEF Own!Flush
<1>5. ASSUME NEW s \in Sessions, Own!RunWrite(s)
      PROVE retire'[r] = retire[r] \/ (retire[r] # "no" /\ retire'[r] # "no")
  BY <1>1, <1>5, WriteShape DEF Written, PutBack
<1>6. ASSUME NEW s \in Sessions, Own!Release(s)
      PROVE retire'[r] = retire[r] \/ (retire[r] # "no" /\ retire'[r] # "no")
  BY <1>1, <1>6, ReleaseShape DEF Own!Release
<1>7. CASE Own!Unloaded
  BY <1>1, <1>7 DEF Own!Unloaded
<1> QED
  BY <1>2, <1>3, <1>4, <1>5, <1>6, <1>7, InitMoves, CallShape
     DEF Own!Next, Own!Chain, Own!Create, Own!Restore, Own!Speak, Own!StartWrite, Own!Call,
         Own!Unload, Own!Load, Own!vars

LEMMA OneStep == ASSUME OwnersAreMeant, OwnershipInv, [Own!Next]_(Own!vars) PROVE OneAtATime'
<1>1. OneAtATime /\ Own!TypeOK
  BY DEF OwnershipInv
<1>2. /\ inits \in [Sessions -> {"none", "pending", "append", "ok", "failed"}]
      /\ alive \in [Sessions -> {"unborn", "live", "gone"}]
      /\ retire \in [Sessions -> {"no", "flush", "release", "done", "failed"}]
      /\ events \in [Sessions -> Seq(Own!Writers)]
  BY <1>1 DEF Own!TypeOK
<1>3. CASE UNCHANGED <<alive, events, inits, retire, plugin, chain>>
  BY <1>1, <1>3 DEF OneAtATime
<1>4. ASSUME NEW s \in Sessions, Own!Create(s) PROVE OneAtATime'
  <2>1. /\ alive[s] = "unborn" /\ alive' = [alive EXCEPT ![s] = "live"] /\ Own!NoneLive
        /\ retire' = retire /\ plugin' = plugin
    BY <1>4 DEF Own!Create
  <2>2. PICK said \in {<<>>, <<s>>, store, Append(store, s)} :
          /\ Len(said) <= MaxOwned /\ events' = [events EXCEPT ![s] = said]
          /\ IF plugin = "on" THEN Own!InitFor(s, said) ELSE UNCHANGED <<inits, seeds, chain>>
    BY <1>4 DEF Own!Create
  <2>3. Len(said) <= MaxOwned + 1
    <3>1. Own!TypeOK'
      BY OwnershipTypeStep
    <3>2. events'[s] \in Seq(Own!Writers) /\ events'[s] = said
      BY <1>2, <2>2, <3>1 DEF Own!TypeOK
    <3>3. Len(said) \in Nat
      BY <3>2
    <3> QED
      BY <2>2, <3>3 DEF OwnersAreMeant
  <2>4. \A r \in Sessions : Len(events'[r]) <= MaxOwned + 1
    BY <1>1, <1>2, <2>2, <2>3 DEF OneAtATime
  <2>5. /\ \A r \in Sessions : r # s => inits'[r] = inits[r]
        /\ inits'[s] = IF plugin = "on" THEN "pending" ELSE inits[s]
        /\ plugin # "on" => chain' = chain
    BY <1>2, <2>2 DEF Own!InitFor
  <2>6. \A r \in Sessions : alive[r] # "live"
    BY <2>1 DEF Own!NoneLive
  <2> QED
    BY <1>1, <1>2, <2>1, <2>4, <2>5, <2>6 DEF OneAtATime
<1>5. ASSUME NEW s \in Sessions, Own!Restore(s) PROVE OneAtATime'
  <2>1. /\ alive[s] = "unborn" /\ Own!NoneLive /\ plugin = "on" /\ UNCHANGED <<retire, plugin>>
        /\ alive' = [alive EXCEPT ![s] = "live"]
    BY <1>5, RestoreShape
  <2>2. \A r \in Sessions : Len(events'[r]) <= MaxOwned + 1
    BY <1>1, <1>5, RestoreShape DEF OneAtATime
  <2>3. inits' = [inits EXCEPT ![s] = "ok"] \/ inits' = [inits EXCEPT ![s] = "append"]
    BY <1>5, RestoreShape DEF BoundAtOnce, BoundToAppend
  <2> QED
    BY <1>1, <1>2, <2>1, <2>2, <2>3 DEF Own!NoneLive, OneAtATime
<1>6. ASSUME NEW s \in Sessions, Own!Speak(s) PROVE OneAtATime'
  <2>1. Len(events[s]) \in Nat /\ Len(events[s]) < MaxOwned
        /\ events' = [events EXCEPT ![s] = Append(@, s)]
    BY <1>6, StateFacts DEF Own!Speak
  <2>2. Len(Append(events[s], s)) <= MaxOwned + 1
    <3>1. events[s] \in Seq(Own!Writers) /\ s \in Own!Writers
      BY <1>2 DEF Own!Writers
    <3>2. Len(Append(events[s], s)) = Len(events[s]) + 1
      BY <3>1, AppendFacts
    <3> QED
      BY <2>1, <3>2 DEF OwnersAreMeant
  <2>3. \A r \in Sessions : Len(events'[r]) <= MaxOwned + 1
    BY <1>1, <1>2, <2>1, <2>2 DEF OneAtATime
  <2> QED
    BY <1>1, <1>6, <2>3 DEF Own!Speak, OneAtATime
<1>7. ASSUME NEW s \in Sessions, Own!Dispose(s) PROVE OneAtATime'
  BY <1>1, <1>2, <1>7 DEF Own!Dispose, Own!control, OneAtATime
<1>8. ASSUME NEW s \in Sessions, Own!StartWrite(s) PROVE OneAtATime'
  BY <1>1, <1>2, <1>8 DEF Own!StartWrite, OneAtATime
<1>9. ASSUME NEW s \in Sessions, Own!Flush(s) PROVE OneAtATime'
  BY <1>1, <1>2, <1>9 DEF Own!Flush, Own!control, OneAtATime
<1>10. ASSUME NEW k \in {"create", "load"}, Own!Call(k) PROVE OneAtATime'
  BY <1>1, <1>10 DEF Own!Call, Own!control, OneAtATime
<1>11. CASE Own!RunCall
  BY <1>1, <1>11, CallShape DEF Own!control, OneAtATime
<1>12. ASSUME NEW s \in Sessions, Own!RunInit(s) \/ Own!InitAppends(s) PROVE OneAtATime'
  BY <1>1, <1>12, InitMoves DEF OneAtATime, Bound
<1>13. ASSUME NEW s \in Sessions, Own!RunWrite(s) PROVE OneAtATime'
  <2>1. UNCHANGED <<events, alive, inits, plugin>> /\ chain # <<>> /\ (Written(s) \/ PutBack(s))
    BY <1>13, WriteShape
  <2>2. retire' = retire \/ (retire[s] = "flush" /\ retire' = [retire EXCEPT ![s] = "failed"])
    BY <2>1 DEF Written, PutBack
  <2>3. \A r \in Sessions : retire'[r] = "no" <=> retire[r] = "no"
    BY <1>2, <2>2
  <2> QED
    BY <1>1, <2>1, <2>3 DEF OneAtATime
<1>14. ASSUME NEW s \in Sessions, Own!Release(s) PROVE OneAtATime'
  BY <1>1, <1>2, <1>14, ReleaseShape DEF Own!Release, Own!Settle, OneAtATime
<1>15. CASE Own!Unload
  BY <1>1, <1>15 DEF Own!Unload, Own!control, OneAtATime
<1>16. CASE Own!Unloaded
  BY <1>1, <1>2, <1>16 DEF Own!Unloaded, OneAtATime
<1>17. CASE Own!Load
  <2>1. CASE Own!NoneLive
    BY <1>1, <1>17, <2>1 DEF Own!Load, Own!NoneLive, OneAtATime
  <2>2. CASE ~Own!NoneLive
    <3> DEFINE s == CHOOSE s \in Sessions : alive[s] = "live"
    <3>1. s \in Sessions /\ alive[s] = "live" /\ Own!InitFor(s, events[s])
      BY <1>17, <2>2 DEF Own!Load, Own!NoneLive
    <3> HIDE DEF s
    <3>2. \A r \in Sessions : inits'[r] = IF r = s THEN "pending" ELSE inits[r]
      BY <1>2, <3>1 DEF Own!InitFor
    <3> QED
      BY <1>1, <1>17, <3>1, <3>2 DEF Own!Load, OneAtATime
  <2> QED
    BY <2>1, <2>2
<1> QED
  BY <1>3, <1>4, <1>5, <1>6, <1>7, <1>8, <1>9, <1>10, <1>11, <1>12, <1>13, <1>14, <1>15, <1>16,
     <1>17
     DEF Own!Next, Own!Chain, Own!vars, Own!control

LEMMA SuccessionStep == ASSUME OwnersAreMeant, OwnershipInv, [Own!Next]_(Own!vars)
  PROVE Succession'
<1>1. Succession /\ OneAtATime /\ Own!TypeOK
  BY DEF OwnershipInv
<1>2. /\ inits \in [Sessions -> {"none", "pending", "append", "ok", "failed"}]
      /\ alive \in [Sessions -> {"unborn", "live", "gone"}]
  BY <1>1 DEF Own!TypeOK
<1>3. CASE Own!Unloaded
  BY <1>3 DEF Own!Unloaded, Succession
<1>4. ASSUME ~Own!Unloaded, NEW r \in Sessions, NEW s \in Sessions, r # s,
             inits'[r] \in Bound, inits'[s] = "pending"
      PROVE  retire[r] # "no"
  <2>1. CASE inits[r] \in Bound /\ inits[s] = "pending"
    BY <1>1, <1>4, <2>1 DEF Succession
  <2>2. ASSUME NEW x \in Sessions, Own!Create(x) PROVE retire[r] # "no"
    <3>1. /\ alive[x] = "unborn" /\ Own!NoneLive
          /\ (plugin = "on" /\ inits' = [inits EXCEPT ![x] = "pending"]) \/ inits' = inits
      BY <2>2 DEF Own!Create, Own!InitFor
    <3>2. CASE plugin = "on" /\ inits' = [inits EXCEPT ![x] = "pending"]
      <4>1. inits[r] \in Bound
        BY <1>2, <1>4, <3>2 DEF Bound
      <4>2. alive[r] = "gone"
        BY <1>1, <1>2, <3>1, <4>1 DEF Own!NoneLive, OneAtATime, Bound
      <4> QED
        BY <1>1, <3>2, <4>1, <4>2 DEF OneAtATime, Bound
    <3> QED
      BY <1>4, <2>1, <3>1, <3>2
  <2>3. ASSUME NEW x \in Sessions, Own!Restore(x) PROVE FALSE
    <3>1. inits' = [inits EXCEPT ![x] = "ok"] \/ inits' = [inits EXCEPT ![x] = "append"]
      BY <2>3, RestoreShape DEF BoundAtOnce, BoundToAppend
    <3>2. inits[s] = "pending"
      BY <1>2, <1>4, <3>1
    <3> QED
      BY <2>3, <3>2, RestoreShape
  <2>4. ASSUME NEW x \in Sessions, Own!RunInit(x) \/ Own!InitAppends(x) PROVE retire[r] # "no"
    <3>1. /\ inits[x] \in {"pending", "append"} /\ inits'[x] \in Bound
          /\ \A y \in Sessions : y # x => inits'[y] = inits[y]
          /\ chain # <<>> /\ chain[1] = Own!Job("init", x)
      BY <2>4, InitMoves
    <3>2. s # x /\ inits[s] = "pending"
      BY <1>4, <3>1 DEF Bound
    <3>3. CASE r # x
      BY <1>4, <2>1, <3>1, <3>2, <3>3
    <3>4. CASE r = x
      <4>1. PICK j \in DOMAIN chain : chain[j] = Own!Job("init", s)
        BY <3>2 DEF OwnershipInv, JobsAreMeant
      <4>2. chain \in Seq(JobSet)
        BY <1>1 DEF Own!TypeOK, JobSet
      <4>3. Own!Job("init", s) # Own!Job("init", x) /\ Own!Job("init", s).kind = "init"
            /\ Own!Job("init", x).kind = "init" /\ Own!Job("init", x).of = x
        BY <3>2 DEF Own!Job
      <4>4. 1 \in DOMAIN chain /\ 1 < j
        BY <3>1, <4>1, <4>2, <4>3
      <4> QED
        BY <3>1, <3>4, <4>1, <4>3, <4>4 DEF OwnershipInv, JobsAreMeant
    <3> QED
      BY <3>3, <3>4
  <2>5. ASSUME NEW x \in Sessions, Own!Release(x) PROVE retire[r] # "no"
    <3>1. inits' = [inits EXCEPT ![x] = "none"]
      BY <2>5 DEF Own!Release, Own!Settle
    <3> QED
      BY <1>2, <1>4, <2>1, <3>1 DEF Bound
  <2>6. CASE Own!Load
    <3>1. \A x \in Sessions : inits[x] = "none"
      BY <1>1, <2>6 DEF Own!Load, OneAtATime
    <3>2. inits'[r] \in {"none", "pending"}
      BY <1>2, <2>6, <3>1 DEF Own!Load, Own!InitFor
    <3> QED
      BY <1>4, <3>2 DEF Bound
  <2>7. CASE inits' = inits
    BY <1>4, <2>1, <2>7
  <2> QED
    BY <1>4, <2>2, <2>3, <2>4, <2>5, <2>6, <2>7, CallShape, WriteShape
       DEF Own!Next, Own!Chain, Own!vars, Own!control, Own!Speak, Own!Dispose, Own!StartWrite,
           Own!Flush, Own!Call, Own!Unload
<1> QED
  BY <1>3, <1>4, RetireMoves DEF Succession

---------------------------------------------------------------------------
(* The parts of the invariant about owners.                                *)

(* Whom an id is taken from has said nothing.                              *)
LEMMA TakenIsSilent ==
  ASSUME OwnersAreMeant, OwnershipInv, NEW r \in Sessions, NEW x \in Sessions, state.owner = r,
         Own!MayTake,
         inits[r] = "ok", inits[x] = "pending"
  PROVE  alive[r] = "gone" /\ ~Own!HasWork(r) /\ events[r] = <<>>
<1>1. r # x /\ retire[r] # "no"
  BY DEF OwnershipInv, Succession, Bound
<1>2. alive[r] = "gone" /\ ~Own!HasWork(r) /\ WorkFrom(r, state.cursor)
  BY <1>1 DEF OwnershipInv, OneAtATime, WorkIsKept, Own!MayTake
<1>3. state.tracked /\ state.cursor = Len(store) /\ ~state.materialized
      /\ events[r] \in Seq(Own!Writers)
  BY StateFacts DEF Own!MayTake, OwnersAreMeant
<1>4. store = <<>>
  BY <1>3 DEF OwnershipInv, StateIsStored
<1>5. Len(writing[r]) = 0 /\ Len(queue[r]) = 0 /\ state.cursor = 0
  BY <1>2, <1>3, <1>4, EmptySeq DEF Own!HasWork
<1>6. Len(events[r]) = 0
  BY <1>1, <1>2, <1>5 DEF WorkFrom
<1>7. events[r] = <<>>
  BY <1>3, <1>6, EmptySeq
<1> QED
  BY <1>2, <1>7

(* No session's initialisation appends while another's job runs.           *)
LEMMA OneAppends ==
  ASSUME OwnersAreMeant, OwnershipInv, NEW r \in Sessions, inits[r] = "append"
  PROVE  chain # <<>> /\ chain[1] = Own!Job("init", r) /\ state.owner = r
BY DEF OwnershipInv, JobsAreMeant, OwnerIsBound

LEMMA JobsDiffer ==
  ASSUME NEW k, NEW l, NEW r, NEW s
  PROVE  /\ Own!Job(k, r) = Own!Job(l, s) <=> k = l /\ r = s
         /\ Own!Job(k, r).kind = k /\ Own!Job(k, r).of = r
BY DEF Own!Job

LEMMA OwnerStep == ASSUME OwnersAreMeant, OwnershipInv, [Own!Next]_(Own!vars) PROVE OwnerIsBound'
<1>1. OwnerIsBound /\ OneAtATime /\ Own!TypeOK
  BY DEF OwnershipInv
<1>2. /\ inits \in [Sessions -> {"none", "pending", "append", "ok", "failed"}]
      /\ alive \in [Sessions -> {"unborn", "live", "gone"}]
      /\ events \in [Sessions -> Seq(Own!Writers)]
      /\ queue \in [Sessions -> Seq(Own!Indices)] /\ writing \in [Sessions -> Seq(Own!Indices)]
  BY <1>1 DEF Own!TypeOK
<1>3. CASE UNCHANGED <<state, events, Own!control>> /\ \A s \in Sessions : alive[s] = "gone" => alive'[s] = "gone"
  BY <1>1, <1>3 DEF OwnerIsBound, Own!HasWork, Own!control
<1>4. ASSUME NEW s \in Sessions, Own!Create(s) PROVE OwnerIsBound'
  <2>1. alive[s] = "unborn" /\ inits[s] = "none" /\ state.owner # s
    BY <1>1, <1>4 DEF Own!Create, OneAtATime, OwnerIsBound, Bound
  <2>2. /\ \A r \in Sessions : r # s => inits'[r] = inits[r] /\ events'[r] = events[r] /\ seeds'[r] = seeds[r]
        /\ inits'[s] \in {"none", "pending"}
        /\ alive' = [alive EXCEPT ![s] = "live"] /\ UNCHANGED <<state, queue, writing>>
    BY <1>1, <1>2, <1>4, <2>1 DEF Own!Create, Own!InitFor, Own!TypeOK
  <2> QED
    BY <1>1, <1>2, <2>1, <2>2 DEF OwnerIsBound, Own!HasWork, Bound
<1>5. ASSUME NEW s \in Sessions, Own!Restore(s) PROVE OwnerIsBound'
  <2>1. /\ state.owner = NoOne /\ state'.owner = s /\ alive[s] = "unborn"
        /\ state'.cursor = Len(store) /\ Len(store) \in Nat
        /\ alive' = [alive EXCEPT ![s] = "live"] /\ UNCHANGED <<queue, writing>>
        /\ \A r \in Sessions : r # s => events'[r] = events[r]
    BY <1>5, RestoreShape
  <2>2. \A r \in Sessions : inits[r] # "append" /\ NoOne # r
    BY <1>1, <2>1 DEF OwnerIsBound, OwnersAreMeant
  <2>3. /\ \A r \in Sessions : r # s => inits'[r] = inits[r]
        /\ inits'[s] = "ok" \/ (inits'[s] = "append" /\ seeds'[s] = Len(store) + 1)
    <3>1. CASE BoundAtOnce(s)
      BY <1>2, <3>1 DEF BoundAtOnce
    <3>2. CASE BoundToAppend(s)
      <4>1. seeds \in [Sessions -> 0 .. MaxOwned + 1]
        BY <1>1 DEF Own!TypeOK
      <4> QED
        BY <1>2, <3>2, <4>1 DEF BoundToAppend
    <3> QED
      BY <1>5, <3>1, <3>2, RestoreShape
  <2>4. inits'[s] = "append" => seeds'[s] > state'.cursor
    BY <2>1, <2>3
  <2>5. \A r \in Sessions : r # s => alive'[r] = alive[r]
    BY <1>2, <2>1
  <2> QED
    BY <1>1, <2>1, <2>2, <2>3, <2>4, <2>5 DEF OwnerIsBound, Own!HasWork, Bound
<1>6. ASSUME NEW s \in Sessions, Own!Speak(s) PROVE OwnerIsBound'
  <2>1. alive[s] = "live" /\ UNCHANGED <<state, alive, inits, seeds, writing>>
        /\ \A r \in Sessions : r # s => events'[r] = events[r] /\ queue'[r] = queue[r]
    BY <1>2, <1>6 DEF Own!Speak
  <2> QED
    BY <1>1, <2>1 DEF OwnerIsBound, Own!HasWork
<1>7. ASSUME NEW s \in Sessions, Own!Dispose(s) PROVE OwnerIsBound'
  BY <1>2, <1>3, <1>7 DEF Own!Dispose
<1>8. ASSUME NEW s \in Sessions, Own!StartWrite(s) PROVE OwnerIsBound'
  BY <1>1, <1>2, <1>8 DEF Own!StartWrite, OwnerIsBound, Own!HasWork
<1>9. CASE Own!RunCall
  <2>1. UNCHANGED <<events, alive, Own!control>> /\ (CreatesNothing \/ Creates \/ (Loads /\ state.owner = NoOne))
    BY <1>9, CallShape
  <2>2. state'.owner = state.owner /\ (state' = state \/ \A s \in Sessions : inits[s] # "append")
    <3>1. CASE CreatesNothing
      BY <3>1 DEF CreatesNothing
    <3>2. CASE Creates
      BY <1>1, <3>2, StateFacts DEF Creates, Own!Track, OwnerIsBound, OwnersAreMeant
    <3>3. CASE Loads /\ state.owner = NoOne
      BY <3>3 DEF Loads, Own!Track
    <3> QED
      BY <2>1, <3>1, <3>2, <3>3
  <2> QED
    BY <1>1, <2>1, <2>2 DEF OwnerIsBound, Own!HasWork, Own!control
<1>10. ASSUME NEW s \in Sessions, Own!RunInit(s) PROVE OwnerIsBound'
  <2>1. /\ chain[1] = Own!Job("init", s) /\ inits[s] = "pending"
        /\ Binds(s) \/ Refuses(s)
        /\ UNCHANGED <<store, events, alive, seeds, queue, writing, retire, plugin>>
    BY <1>10, InitShape
  <2>2. \A r \in Sessions : inits[r] # "append"
    BY <2>1, OneAppends, JobsDiffer
  <2>3. \A r \in Sessions : r # s => inits'[r] = inits[r]
    BY <1>10, InitMoves
  <2>4. state.owner # s
    BY <1>1, <2>1 DEF OwnerIsBound, Bound
  <2>5. ASSUME NEW r \in Sessions, r # s, inits[r] = "ok", state'.owner # r
        PROVE  alive[r] = "gone" /\ ~Own!HasWork(r) /\ events[r] = <<>>
    <3>1. CASE state.owner # r
      BY <1>1, <2>5, <3>1 DEF OwnerIsBound
    <3>2. CASE state.owner = r
      <4>1. Own!MayTake
        BY <2>1, <2>5, <3>2 DEF Binds, Refuses, Free, OwnersAreMeant
      <4> QED
        BY <2>1, <2>5, <3>2, <4>1, TakenIsSilent
    <3> QED
      BY <3>1, <3>2
  <2>6. CASE Binds(s)
    <3>1. state'.owner = s /\ state'.cursor = Len(store)
      BY <2>6 DEF Binds, Own!Track
    <3>2. (inits'[s] = "append" /\ seeds[s] > Len(store)) \/ inits'[s] = "ok"
      BY <1>2, <2>6 DEF Binds
    <3> QED
      BY <1>1, <2>1, <2>2, <2>3, <2>5, <3>1, <3>2 DEF OwnerIsBound, Own!HasWork, Bound
  <2>7. CASE Refuses(s)
    <3>1. inits'[s] = "failed" /\ (state'.owner = state.owner \/ state'.owner = NoOne)
      BY <1>2, <2>7 DEF Refuses, Own!Untracked
    <3> QED
      BY <1>1, <2>1, <2>2, <2>3, <2>5, <3>1 DEF OwnerIsBound, Own!HasWork, Bound, OwnersAreMeant
  <2> QED
    BY <2>1, <2>6, <2>7
<1>11. ASSUME NEW s \in Sessions, Own!InitAppends(s) PROVE OwnerIsBound'
  <2>1. /\ state.owner = s /\ inits[s] = "append"
        /\ UNCHANGED <<torn, events, alive, seeds, queue, writing, retire, plugin>>
        /\ state'.owner = s /\ inits'[s] \in {"ok", "failed"}
    BY <1>2, <1>11, AppendShape DEF AppendsAll, Own!Track
  <2>2. \A r \in Sessions : r # s => inits'[r] = inits[r]
    BY <1>11, InitMoves
  <2> QED
    BY <1>1, <2>1, <2>2 DEF OwnerIsBound, Own!HasWork, Bound
<1>12. ASSUME NEW s \in Sessions, Own!RunWrite(s) PROVE OwnerIsBound'
  <2>1. /\ writing[s] # <<>> /\ UNCHANGED <<events, alive, inits, seeds>>
        /\ \A r \in Sessions : r # s => queue'[r] = queue[r] /\ writing'[r] = writing[r]
        /\ state' = state \/ state'.owner = s
    BY <1>2, <1>12, WriteShape DEF Written, PutBack, Own!Track
  <2>2. state.owner = s /\ inits[s] = "ok"
    BY <2>1, WriteFinds
  <2> QED
    BY <1>1, <2>1, <2>2 DEF OwnerIsBound, Own!HasWork
<1>13. ASSUME NEW s \in Sessions, Own!Release(s) PROVE OwnerIsBound'
  <2>1. /\ inits[s] = "ok" /\ inits' = [inits EXCEPT ![s] = "none"] /\ UNCHANGED <<events, alive, seeds, queue, writing>>
        /\ state' = IF state.owner = s THEN Own!Untracked ELSE state
    BY <1>13, ReleaseShape DEF Own!Release, Own!Settle, Own!LetGo
  <2> QED
    BY <1>1, <1>2, <2>1 DEF OwnerIsBound, Own!HasWork, Own!Untracked, Bound, OwnersAreMeant
<1>14. CASE Own!Unloaded
  BY <1>14 DEF Own!Unloaded, Own!Untracked, OwnerIsBound, OwnersAreMeant
<1>15. CASE Own!Load
  <2>1. \A s \in Sessions : inits[s] = "none" /\ state.owner # s
    BY <1>1, <1>15 DEF Own!Load, OneAtATime, OwnerIsBound, Bound
  <2>2. \A s \in Sessions : inits'[s] \in {"none", "pending"}
    BY <1>2, <1>15, <2>1 DEF Own!Load, Own!InitFor
  <2> QED
    BY <1>15, <2>1, <2>2 DEF Own!Load, OwnerIsBound
<1> QED
  BY <1>3, <1>4, <1>5, <1>6, <1>7, <1>8, <1>9, <1>10, <1>11, <1>12, <1>13, <1>14, <1>15
     DEF Own!Next, Own!Chain, Own!vars, Own!control, Own!Flush, Own!Call, Own!Unload

LEMMA LogStep == ASSUME OwnersAreMeant, OwnershipInv, [Own!Next]_(Own!vars)
  PROVE Own!OwnerContinuesLog'
<1>1. Own!OwnerContinuesLog /\ OwnerIsBound /\ OneAtATime /\ Own!TypeOK
  BY DEF OwnershipInv
<1>2. /\ events \in [Sessions -> Seq(Own!Writers)] /\ store \in Seq(Own!Writers)
      /\ state.owner \in Sessions \cup {NoOne}
  BY <1>1, StateFacts DEF Own!TypeOK
<1>3. CASE UNCHANGED <<store, state, events>>
  BY <1>1, <1>3 DEF Own!OwnerContinuesLog
<1>4. ASSUME NEW s \in Sessions, Own!Create(s) PROVE Own!OwnerContinuesLog'
  <2>1. state.owner # s
    BY <1>1, <1>4 DEF Own!Create, OneAtATime, OwnerIsBound, Bound
  <2>2. UNCHANGED <<store, state>> /\ \A r \in Sessions : r # s => events'[r] = events[r]
    BY <1>2, <1>4 DEF Own!Create
  <2> QED
    BY <1>1, <1>2, <2>1, <2>2 DEF Own!OwnerContinuesLog
<1>5. ASSUME NEW s \in Sessions, Own!Restore(s) PROVE Own!OwnerContinuesLog'
  BY <1>5, RestoreShape DEF Own!OwnerContinuesLog
<1>6. ASSUME NEW s \in Sessions, Own!Speak(s) PROVE Own!OwnerContinuesLog'
  <2>1. events' = [events EXCEPT ![s] = Append(events[s], s)] /\ UNCHANGED <<store, state>>
    BY <1>6 DEF Own!Speak
  <2>2. Own!Prefix(store, events[s]) => Own!Prefix(store, Append(events[s], s))
    BY <1>2, PrefixAppend DEF Own!Writers
  <2> QED
    BY <1>1, <1>2, <2>1, <2>2 DEF Own!OwnerContinuesLog
<1>7. CASE Own!RunCall
  <2>1. CASE CreatesNothing
    BY <1>3, <1>7, <2>1, CallShape DEF CreatesNothing
  <2>2. CASE Creates \/ Loads
    BY <2>2 DEF Creates, Loads, Own!Track, Own!OwnerContinuesLog
  <2> QED
    BY <1>7, <2>1, <2>2, CallShape
<1>8. ASSUME NEW s \in Sessions, Own!RunInit(s) PROVE Own!OwnerContinuesLog'
  <2>1. UNCHANGED <<store, events>> /\ (Binds(s) \/ Refuses(s))
    BY <1>8, InitShape
  <2>2. CASE Binds(s)
    BY <2>1, <2>2 DEF Binds, Own!Track, Own!OwnerContinuesLog
  <2>3. CASE Refuses(s)
    BY <1>3, <2>1, <2>3 DEF Refuses, Own!Untracked, Own!OwnerContinuesLog
  <2> QED
    BY <2>1, <2>2, <2>3
<1>9. ASSUME NEW s \in Sessions, Own!InitAppends(s) PROVE Own!OwnerContinuesLog'
  BY <1>3, <1>9, AppendShape DEF AppendsAll, Own!Track, Own!OwnerContinuesLog
<1>10. ASSUME NEW s \in Sessions, Own!RunWrite(s) PROVE Own!OwnerContinuesLog'
  <2>1. UNCHANGED events /\ (Written(s) \/ PutBack(s))
    BY <1>10, WriteShape
  <2>2. CASE Written(s)
    <3>1. state'.owner = s /\ state'.cursor = Len(store') /\ Own!Prefix(store', events[s])
      BY <2>2 DEF Written, Own!Track
    <3> QED
      BY <2>1, <3>1 DEF Own!OwnerContinuesLog
  <2>3. CASE PutBack(s)
    BY <1>3, <2>1, <2>3 DEF PutBack
  <2> QED
    BY <2>1, <2>2, <2>3
<1>11. ASSUME NEW s \in Sessions, Own!Release(s) PROVE Own!OwnerContinuesLog'
  BY <1>1, <1>11 DEF Own!Release, Own!LetGo, Own!Untracked, Own!OwnerContinuesLog
<1>12. CASE Own!Unloaded
  BY <1>12 DEF Own!Unloaded, Own!Untracked, Own!OwnerContinuesLog
<1> QED
  BY <1>3, <1>4, <1>5, <1>6, <1>7, <1>8, <1>9, <1>10, <1>11, <1>12
     DEF Own!Next, Own!Chain, Own!vars, Own!control, Own!Dispose, Own!StartWrite, Own!Flush,
         Own!Call, Own!Unload, Own!Load

---------------------------------------------------------------------------
(* The work of a session.                                                  *)

(* Whose work is kept, step by step: it stays the end of the log from the  *)
(* same place on, unless its session speaks, writes or changes its state.  *)
LEMMA WorkStays ==
  ASSUME OwnersAreMeant, OwnershipInv, [Own!Next]_(Own!vars), ~Own!Load, NEW r \in Sessions,
         NEW b,
         WorkFrom(r, b), queue'[r] = queue[r], writing'[r] = writing[r], events'[r] = events[r]
  PROVE  /\ WorkIs(writing'[r], queue'[r], Len(events'[r]), b)
         /\ plugin' = "on" \/ retire'[r] # "no" =>
              b + Len(writing'[r]) + Len(queue'[r]) = Len(events'[r])
<1>1. plugin' = "on" => plugin = "on"
  BY InitMoves, CallShape, WriteShape
     DEF Own!Next, Own!Chain, Own!Create, Own!Restore, Own!Speak, Own!Dispose, Own!StartWrite,
         Own!Flush, Own!Call, Own!Release, Own!Unload,
         Own!Unloaded, Own!Load, Own!vars
<1>2. retire'[r] # "no" => retire[r] # "no" \/ plugin = "on"
  BY RetireMoves
<1> QED
  BY <1>1, <1>2 DEF WorkFrom

LEMMA WorkOf ==
  ASSUME NEW r \in Sessions
  PROVE  /\ WorkFrom(r, seeds[r])' <=>
              /\ WorkIs(writing'[r], queue'[r], Len(events'[r]), seeds'[r])
              /\ plugin' = "on" \/ retire'[r] # "no" =>
                   seeds'[r] + Len(writing'[r]) + Len(queue'[r]) = Len(events'[r])
         /\ WorkFrom(r, state.cursor)' <=>
              /\ WorkIs(writing'[r], queue'[r], Len(events'[r]), state'.cursor)
              /\ plugin' = "on" \/ retire'[r] # "no" =>
                   state'.cursor + Len(writing'[r]) + Len(queue'[r]) = Len(events'[r])
BY DEF WorkFrom

LEMMA NoWork == ASSUME NEW n \in Nat
  PROVE WorkIs(<<>>, <<>>, n, n) /\ n + Len(<<>>) + Len(<<>>) = n
BY DEF WorkIs

WorkOk(r) ==
  /\ inits[r] = "none" => ~Own!HasWork(r)
  /\ writing[r] # <<>> => inits[r] = "ok"
  /\ inits[r] \in {"pending", "append"} => WorkFrom(r, seeds[r])
  /\ inits[r] = "ok" /\ state.owner = r => WorkFrom(r, state.cursor)

(* Whoever is not concerned by a step keeps its work.                      *)
LEMMA OthersKeepWork ==
  ASSUME OwnersAreMeant, OwnershipInv, [Own!Next]_(Own!vars), ~Own!Load, NEW r \in Sessions,
         queue'[r] = queue[r], writing'[r] = writing[r], events'[r] = events[r],
         inits'[r] = inits[r], seeds'[r] = seeds[r],
         state'.owner = r => state.owner = r /\ state'.cursor = state.cursor
  PROVE  WorkOk(r)'
<1>1. WorkOk(r)
  BY DEF OwnershipInv, WorkIsKept, WorkOk
<1>2. /\ inits'[r] = "none" => ~Own!HasWork(r)'
      /\ writing'[r] # <<>> => inits'[r] = "ok"
  BY <1>1 DEF WorkOk, Own!HasWork
<1>3. ASSUME inits'[r] \in {"pending", "append"} PROVE WorkFrom(r, seeds[r])'
  <2>1. WorkFrom(r, seeds[r])
    BY <1>1, <1>3 DEF WorkOk
  <2> QED
    BY <2>1, WorkStays, WorkOf
<1>4. ASSUME inits'[r] = "ok", state'.owner = r PROVE WorkFrom(r, state.cursor)'
  <2>1. WorkFrom(r, state.cursor) /\ state'.cursor = state.cursor
    BY <1>1, <1>4 DEF WorkOk
  <2> QED
    BY <2>1, WorkStays, WorkOf
<1> QED
  BY <1>2, <1>3, <1>4 DEF WorkOk

(* A controller takes a batch, hears an event, is done, or puts it back.   *)
LEMMA WorkTaken ==
  ASSUME NEW S, NEW q \in Seq(S), NEW n \in Nat, NEW b \in Nat, WorkIs(<<>>, q, n, b)
  PROVE  WorkIs(q, <<>>, n, b)
<1>1. Len(q) \in Nat /\ \A i \in DOMAIN q : q[i] = b + i
  BY DEF WorkIs
<1> QED
  BY <1>1 DEF WorkIs

LEMMA WorkHeard ==
  ASSUME NEW w \in Seq(Own!Indices), NEW q \in Seq(Own!Indices), NEW n \in Nat, NEW b \in Nat,
         WorkIs(w, q, n, b), b + Len(w) + Len(q) = n, n + 1 \in Own!Indices
  PROVE  WorkIs(w, Append(q, n + 1), n + 1, b) /\ b + Len(w) + Len(Append(q, n + 1)) = n + 1
<1> DEFINE a == Append(q, n + 1)
<1>1. /\ a \in Seq(Own!Indices) /\ Len(a) = Len(q) + 1 /\ a[Len(q) + 1] = n + 1
      /\ \A i \in 1 .. Len(q) : a[i] = q[i]
  BY AppendFacts
<1> HIDE DEF a
<1>2. Len(w) \in Nat /\ Len(q) \in Nat
  OBVIOUS
<1>3. ASSUME NEW i \in DOMAIN a PROVE a[i] = b + Len(w) + i
  <2>1. i \in 1 .. Len(q) + 1
    BY <1>1
  <2>2. CASE i = Len(q) + 1
    BY <1>1, <1>2, <2>2
  <2>3. CASE i \in 1 .. Len(q)
    BY <1>1, <2>3 DEF WorkIs
  <2> QED
    BY <1>2, <2>1, <2>2, <2>3
<1>4. b + Len(w) + Len(a) = n + 1
  BY <1>1, <1>2
<1>5. WorkIs(w, a, n + 1, b)
  BY <1>3, <1>4 DEF WorkIs
<1> QED
  BY <1>4, <1>5 DEF a

LEMMA WorkDone ==
  ASSUME NEW w \in Seq(Own!Indices), NEW q \in Seq(Own!Indices), NEW n \in Nat, NEW b \in Nat,
         WorkIs(w, q, n, b)
  PROVE  WorkIs(<<>>, q, n, b + Len(w)) /\ b + Len(w) + Len(<<>>) + Len(q) = b + Len(w) + Len(q)
<1>1. Len(w) \in Nat /\ Len(q) \in Nat
  OBVIOUS
<1>2. \A i \in DOMAIN q : q[i] = b + Len(w) + Len(<<>>) + i
  BY <1>1 DEF WorkIs
<1> QED
  BY <1>1, <1>2 DEF WorkIs

LEMMA WorkPutBack ==
  ASSUME NEW w \in Seq(Own!Indices), NEW q \in Seq(Own!Indices), NEW n \in Nat, NEW b \in Nat,
         WorkIs(w, q, n, b)
  PROVE  WorkIs(<<>>, w \o q, n, b) /\ Len(w \o q) = Len(w) + Len(q)
<1> DEFINE c == w \o q
<1>1. /\ c \in Seq(Own!Indices) /\ Len(c) = Len(w) + Len(q)
      /\ \A i \in 1 .. Len(w) + Len(q) : c[i] = IF i <= Len(w) THEN w[i] ELSE q[i - Len(w)]
  BY ConcatProperties
<1> HIDE DEF c
<1>2. Len(w) \in Nat /\ Len(q) \in Nat
  OBVIOUS
<1>3. ASSUME NEW i \in DOMAIN c PROVE c[i] = b + i
  <2>1. i \in 1 .. Len(w) + Len(q)
    BY <1>1
  <2>2. CASE i <= Len(w)
    <3>1. i \in DOMAIN w /\ c[i] = w[i]
      BY <1>1, <1>2, <2>1, <2>2
    <3> QED
      BY <3>1 DEF WorkIs
  <2>3. CASE i > Len(w)
    <3>1. i - Len(w) \in DOMAIN q /\ c[i] = q[i - Len(w)]
      BY <1>1, <1>2, <2>1, <2>3
    <3>2. q[i - Len(w)] = b + Len(w) + (i - Len(w))
      BY <3>1 DEF WorkIs
    <3> QED
      BY <1>2, <2>1, <3>1, <3>2
  <2> QED
    BY <1>2, <2>1, <2>2, <2>3
<1>4. b + Len(c) <= n
  BY <1>1, <1>2 DEF WorkIs
<1>5. WorkIs(<<>>, c, n, b)
  BY <1>1, <1>3, <1>4 DEF WorkIs
<1> QED
  BY <1>1, <1>5 DEF c

LEMMA WorkTypes ==
  ASSUME OwnersAreMeant, OwnershipInv, NEW s \in Sessions
  PROVE  /\ queue[s] \in Seq(Own!Indices) /\ writing[s] \in Seq(Own!Indices)
         /\ Len(queue[s]) \in Nat /\ Len(writing[s]) \in Nat
         /\ Len(events[s]) \in Nat /\ Len(store) \in Nat /\ seeds[s] \in Nat
         /\ state.cursor \in Nat /\ WorkOk(s)
<1>1. queue[s] \in Seq(Own!Indices) /\ writing[s] \in Seq(Own!Indices) /\ seeds[s] \in Nat
  BY DEF OwnershipInv, Own!TypeOK, OwnersAreMeant
<1>2. Len(events[s]) \in Nat /\ Len(store) \in Nat /\ state.cursor \in Nat
  BY StateFacts, SMT
<1>3. WorkOk(s)
  BY DEF OwnershipInv, WorkIsKept, WorkOk
<1> QED
  BY <1>1, <1>2, <1>3

LEMMA CreateWork ==
  ASSUME OwnersAreMeant, OwnershipInv, [Own!Next]_(Own!vars), NEW s \in Sessions, Own!Create(s)
  PROVE  WorkOk(s)'
<1>1. inits[s] = "none" /\ queue[s] = <<>> /\ writing[s] = <<>>
  <2>1. inits[s] = "none"
    BY DEF Own!Create, OwnershipInv, OneAtATime
  <2> QED
    BY <2>1, WorkTypes DEF WorkOk, Own!HasWork
<1>2. PICK said \in {<<>>, <<s>>, store, Append(store, s)} :
        /\ events' = [events EXCEPT ![s] = said]
        /\ IF plugin = "on" THEN Own!InitFor(s, said) ELSE UNCHANGED <<inits, seeds, chain>>
  BY DEF Own!Create
<1>3. queue' = queue /\ writing' = writing
  BY DEF Own!Create
<1>4. /\ inits \in [Sessions -> {"none", "pending", "append", "ok", "failed"}]
      /\ seeds \in [Sessions -> 0 .. MaxOwned + 1] /\ events \in [Sessions -> Seq(Own!Writers)]
      /\ events' \in [Sessions -> Seq(Own!Writers)]
  BY OwnershipTypeStep DEF OwnershipInv, Own!TypeOK
<1>5. CASE plugin # "on"
  <2>1. inits'[s] = "none"
    BY <1>1, <1>2, <1>5
  <2> QED
    BY <1>1, <1>3, <2>1 DEF WorkOk, Own!HasWork
<1>6. CASE plugin = "on"
  <2>1. inits'[s] = "pending" /\ seeds'[s] = Len(said) /\ events'[s] = said
    BY <1>2, <1>4, <1>6 DEF Own!InitFor
  <2>2. Len(said) \in Nat
    BY <1>4, <2>1
  <2>3. WorkFrom(s, seeds[s])'
    <3>1. /\ WorkIs(writing'[s], queue'[s], Len(events'[s]), seeds'[s])
          /\ seeds'[s] + Len(writing'[s]) + Len(queue'[s]) = Len(events'[s])
      BY <1>1, <1>3, <2>1, <2>2, NoWork
    <3> QED
      BY <3>1, WorkOf
  <2> QED
    BY <1>1, <1>3, <2>1, <2>3 DEF WorkOk, Own!HasWork
<1> QED
  BY <1>5, <1>6

LEMMA RestoreWork ==
  ASSUME OwnersAreMeant, OwnershipInv, [Own!Next]_(Own!vars), NEW s \in Sessions, Own!Restore(s)
  PROVE  WorkOk(s)'
<1>1. /\ inits[s] = "none" /\ queue[s] = <<>> /\ writing[s] = <<>>
      /\ queue' = queue /\ writing' = writing
  BY RestoreShape, WorkTypes DEF WorkOk, Own!HasWork
<1>2. state'.cursor = Len(store) /\ Len(store) \in Nat
  BY RestoreShape
<1>3. /\ inits \in [Sessions -> {"none", "pending", "append", "ok", "failed"}]
      /\ seeds \in [Sessions -> 0 .. MaxOwned + 1]
  BY DEF OwnershipInv, Own!TypeOK
<1>4. CASE BoundAtOnce(s)
  <2>1. inits'[s] = "ok" /\ events'[s] = store
    BY <1>3, <1>4 DEF BoundAtOnce
  <2>2. /\ WorkIs(writing'[s], queue'[s], Len(events'[s]), state'.cursor)
        /\ state'.cursor + Len(writing'[s]) + Len(queue'[s]) = Len(events'[s])
    BY <1>1, <1>2, <2>1, NoWork
  <2>3. WorkFrom(s, state.cursor)'
    BY <2>2, WorkOf
  <2> QED
    BY <1>1, <2>1, <2>3 DEF WorkOk, Own!HasWork
<1>5. CASE BoundToAppend(s)
  <2>1. inits'[s] = "append" /\ seeds'[s] = Len(store) + 1 /\ Len(events'[s]) = Len(store) + 1
    BY <1>3, <1>5 DEF BoundToAppend
  <2>2. /\ WorkIs(writing'[s], queue'[s], Len(events'[s]), seeds'[s])
        /\ seeds'[s] + Len(writing'[s]) + Len(queue'[s]) = Len(events'[s])
    <3>1. Len(store) + 1 \in Nat
      BY <1>2
    <3> QED
      BY <1>1, <2>1, <3>1, NoWork
  <2>3. WorkFrom(s, seeds[s])'
    BY <2>2, WorkOf
  <2> QED
    BY <1>1, <2>1, <2>3 DEF WorkOk, Own!HasWork
<1> QED
  BY <1>4, <1>5, RestoreShape

LEMMA SpeakWork ==
  ASSUME OwnersAreMeant, OwnershipInv, [Own!Next]_(Own!vars), NEW s \in Sessions, Own!Speak(s)
  PROVE  WorkOk(s)'
<1>1. alive[s] = "live" /\ retire[s] = "no" /\ (plugin = "on" => inits[s] # "none")
  BY DEF Own!Speak, OwnershipInv, OneAtATime
<1>2. /\ events'[s] = Append(events[s], s) /\ Len(events'[s]) = Len(events[s]) + 1
      /\ Len(events[s]) < MaxOwned
      /\ queue'[s] = IF plugin = "on" THEN Append(queue[s], Len(events[s]) + 1) ELSE queue[s]
      /\ UNCHANGED <<state, inits, seeds, writing, retire, plugin>>
  <2>1. events[s] \in Seq(Own!Writers) /\ s \in Own!Writers
    BY DEF OwnershipInv, Own!TypeOK, Own!Writers
  <2>2. events'[s] = Append(events[s], s) /\ Len(Append(events[s], s)) = Len(events[s]) + 1
    BY <2>1, AppendFacts DEF Own!Speak, OwnershipInv, Own!TypeOK
  <2> QED
    BY <2>2 DEF Own!Speak, Own!NextSeq, OwnershipInv, Own!TypeOK
<1>3. WorkOk(s) /\ Len(queue[s]) \in Nat /\ Len(writing[s]) \in Nat /\ Len(events[s]) \in Nat
  BY WorkTypes
<1>4. ASSUME NEW b \in Nat, WorkFrom(s, b)
      PROVE  /\ WorkIs(writing'[s], queue'[s], Len(events'[s]), b)
             /\ plugin' = "on" \/ retire'[s] # "no" =>
                  b + Len(writing'[s]) + Len(queue'[s]) = Len(events'[s])
  <2>1. WorkIs(writing[s], queue[s], Len(events[s]), b)
    BY <1>4 DEF WorkFrom
  <2>2. CASE plugin = "on"
    <3>1. b + Len(writing[s]) + Len(queue[s]) = Len(events[s])
      BY <1>4, <2>2 DEF WorkFrom
    <3>2. Len(events[s]) + 1 \in Own!Indices
      BY <1>2, <1>3 DEF Own!Indices, OwnersAreMeant
    <3>3. queue[s] \in Seq(Own!Indices) /\ writing[s] \in Seq(Own!Indices)
      BY WorkTypes
    <3>4. /\ WorkIs(writing[s], Append(queue[s], Len(events[s]) + 1), Len(events[s]) + 1, b)
          /\ b + Len(writing[s]) + Len(Append(queue[s], Len(events[s]) + 1)) = Len(events[s]) + 1
      <4> PICK w \in Seq(Own!Indices), q \in Seq(Own!Indices), n \in Nat :
            w = writing[s] /\ q = queue[s] /\ n = Len(events[s])
        BY <1>3, <3>3
      <4>1. WorkIs(w, q, n, b) /\ b + Len(w) + Len(q) = n /\ n + 1 \in Own!Indices
        BY <2>1, <3>1, <3>2
      <4>2. WorkIs(w, Append(q, n + 1), n + 1, b) /\ b + Len(w) + Len(Append(q, n + 1)) = n + 1
        BY ONLY <4>1, WorkHeard, w \in Seq(Own!Indices), q \in Seq(Own!Indices), n \in Nat,
           b \in Nat
      <4> QED
        BY <4>2
    <3> QED
      BY <1>2, <2>2, <3>4
  <2>3. CASE plugin # "on"
    <3>1. WorkIs(writing[s], queue[s], Len(events[s]) + 1, b)
      <4>1. \A a, c, d, e \in Nat : a + c + d <= e => a + c + d <= e + 1
        OBVIOUS
      <4>2. b + Len(writing[s]) + Len(queue[s]) <= Len(events[s]) + 1
        BY <1>3, <2>1, <4>1 DEF WorkIs
      <4> QED
        BY <2>1, <4>2 DEF WorkIs
    <3> QED
      BY <1>1, <1>2, <2>3, <3>1
  <2> QED
    BY <2>2, <2>3
<1>5. inits'[s] \in {"pending", "append"} => WorkFrom(s, seeds[s])'
  BY <1>2, <1>3, <1>4, WorkOf, WorkTypes DEF WorkOk
<1>6. inits'[s] = "ok" /\ state'.owner = s => WorkFrom(s, state.cursor)'
  BY <1>2, <1>3, <1>4, WorkOf, WorkTypes DEF WorkOk
<1>7. /\ inits'[s] = "none" => ~Own!HasWork(s)'
      /\ writing'[s] # <<>> => inits'[s] = "ok"
  BY <1>1, <1>2, <1>3 DEF WorkOk, Own!HasWork
<1> QED
  BY <1>5, <1>6, <1>7 DEF WorkOk

LEMMA StartWork ==
  ASSUME OwnersAreMeant, OwnershipInv, [Own!Next]_(Own!vars), NEW s \in Sessions,
         Own!StartWrite(s)
  PROVE  WorkOk(s)'
<1>1. /\ inits[s] = "ok" /\ queue[s] # <<>> /\ writing[s] = <<>>
      /\ writing'[s] = queue[s] /\ queue'[s] = <<>>
      /\ UNCHANGED <<state, events, inits, seeds, retire, plugin>>
  BY DEF Own!StartWrite, Own!Ready, OwnershipInv, Own!TypeOK
<1>2. state.owner = s
  BY <1>1 DEF OwnershipInv, OwnerIsBound, Own!HasWork
<1>3. /\ WorkFrom(s, state.cursor) /\ queue[s] \in Seq(Own!Indices)
      /\ Len(queue[s]) \in Nat /\ Len(events[s]) \in Nat /\ state.cursor \in Nat
  BY <1>1, <1>2, WorkTypes DEF WorkOk
<1>4. WorkIs(queue[s], <<>>, Len(events[s]), state.cursor)
  BY <1>1, <1>3, WorkTaken DEF WorkFrom
<1>5. Len(queue[s]) + Len(<<>>) = Len(<<>>) + Len(queue[s])
  BY <1>3
<1>6. plugin = "on" \/ retire[s] # "no" =>
        state.cursor + Len(queue[s]) + Len(<<>>) = Len(events[s])
  BY <1>1, <1>3 DEF WorkFrom
<1>7. WorkFrom(s, state.cursor)'
  BY <1>1, <1>4, <1>6, WorkOf
<1> QED
  BY <1>1, <1>7 DEF WorkOk

LEMMA InitWork ==
  ASSUME OwnersAreMeant, OwnershipInv, [Own!Next]_(Own!vars), NEW s \in Sessions,
         Own!RunInit(s) \/ Own!InitAppends(s)
  PROVE  WorkOk(s)'
<1>1. /\ inits[s] \in {"pending", "append"} /\ inits'[s] \in Bound
      /\ UNCHANGED <<events, seeds, queue, writing, retire, plugin>>
      /\ inits[s] = "append" => inits'[s] # "append"
  BY InitMoves
<1>2. WorkFrom(s, seeds[s]) /\ writing[s] = <<>>
  BY <1>1, WorkTypes DEF WorkOk
<1>3. ~Own!Load
  BY <1>1, OneAtATime DEF Own!Load, OwnershipInv, OneAtATime
<1>4. WorkFrom(s, seeds[s])'
  BY <1>1, <1>2, <1>3, WorkStays, WorkOf
<1>5. inits'[s] = "ok" => state'.cursor = seeds[s]
  <2>1. inits \in [Sessions -> {"none", "pending", "append", "ok", "failed"}]
    BY DEF OwnershipInv, Own!TypeOK
  <2>2. CASE Own!RunInit(s)
    <3>1. Binds(s) \/ Refuses(s)
      BY <2>2, InitShape
    <3> QED
      BY <2>1, <3>1 DEF Binds, Refuses, Own!Track
  <2>3. CASE Own!InitAppends(s)
    <3>1. AppendsAll(s) \/ inits' = [inits EXCEPT ![s] = "failed"]
      BY <2>3, AppendShape
    <3> QED
      BY <2>1, <3>1 DEF AppendsAll, Own!Track
  <2> QED
    BY <2>2, <2>3
<1>6. inits'[s] = "ok" => WorkFrom(s, state.cursor)'
  BY <1>1, <1>4, <1>5, WorkOf
<1> QED
  BY <1>1, <1>2, <1>4, <1>6 DEF WorkOk, Bound

LEMMA WriteWork ==
  ASSUME OwnersAreMeant, OwnershipInv, [Own!Next]_(Own!vars), NEW s \in Sessions, Own!RunWrite(s)
  PROVE  WorkOk(s)'
<1>1. /\ writing[s] # <<>> /\ writing'[s] = <<>>
      /\ UNCHANGED <<events, inits, seeds, plugin>>
      /\ Written(s) \/ PutBack(s)
  BY WriteShape DEF OwnershipInv, Own!TypeOK
<1>2. inits[s] = "ok" /\ WorkFrom(s, state.cursor) /\ state.cursor = Len(store)
  BY <1>1, WriteFinds
<1>3. /\ queue[s] \in Seq(Own!Indices) /\ writing[s] \in Seq(Own!Indices)
      /\ Len(queue[s]) \in Nat /\ Len(writing[s]) \in Nat
      /\ Len(events[s]) \in Nat /\ Len(store) \in Nat
      /\ WorkIs(writing[s], queue[s], Len(events[s]), Len(store))
  BY <1>2, WorkTypes DEF WorkFrom
<1>4. CASE Written(s)
  <2>1. state'.cursor = Len(store) + Len(writing[s]) /\ queue'[s] = queue[s] /\ retire' = retire
    BY <1>4 DEF Written, Own!Track
  <2>2. /\ WorkIs(<<>>, queue[s], Len(events[s]), Len(store) + Len(writing[s]))
        /\ Len(store) + Len(writing[s]) + Len(<<>>) + Len(queue[s]) = Len(store) + Len(writing[s]) + Len(queue[s])
    <3> PICK w \in Seq(Own!Indices), q \in Seq(Own!Indices), n \in Nat, b \in Nat :
          w = writing[s] /\ q = queue[s] /\ n = Len(events[s]) /\ b = Len(store)
      BY <1>3
    <3>1. WorkIs(w, q, n, b)
      BY <1>3
    <3>2. WorkIs(<<>>, q, n, b + Len(w)) /\ b + Len(w) + Len(<<>>) + Len(q) = b + Len(w) + Len(q)
      BY ONLY <3>1, WorkDone, w \in Seq(Own!Indices), q \in Seq(Own!Indices), n \in Nat, b \in Nat
    <3> QED
      BY <3>2
  <2>3. WorkFrom(s, state.cursor)'
    BY <1>1, <1>2, <2>1, <2>2, WorkOf DEF WorkFrom
  <2> QED
    BY <1>1, <1>2, <2>3 DEF WorkOk
<1>5. CASE PutBack(s)
  <2>1. /\ state' = state /\ queue'[s] = writing[s] \o queue[s]
        /\ retire'[s] # "no" => retire[s] # "no"
    BY <1>5 DEF PutBack, OwnershipInv, Own!TypeOK
  <2>2. /\ WorkIs(<<>>, writing[s] \o queue[s], Len(events[s]), Len(store))
        /\ Len(writing[s] \o queue[s]) = Len(writing[s]) + Len(queue[s])
    BY <1>3, WorkPutBack
  <2>3. plugin = "on" \/ retire'[s] # "no" =>
          Len(store) + Len(<<>>) + Len(writing[s] \o queue[s]) = Len(events[s])
    <3>1. plugin = "on" \/ retire[s] # "no" => Len(store) + Len(writing[s]) + Len(queue[s]) = Len(events[s])
      BY <1>2 DEF WorkFrom
    <3>2. Len(store) + Len(<<>>) + (Len(writing[s]) + Len(queue[s])) = Len(store) + Len(writing[s]) + Len(queue[s])
      <4>1. \A a, b, c \in Nat : a + 0 + (b + c) = a + b + c
        OBVIOUS
      <4>2. Len(<<>>) = 0
        BY EmptySeq
      <4> QED
        BY <1>3, <4>1, <4>2
    <3> QED
      BY <2>1, <2>2, <3>1, <3>2
  <2>4. WorkFrom(s, state.cursor)'
    BY <1>1, <1>2, <2>1, <2>2, <2>3, WorkOf
  <2> QED
    BY <1>1, <1>2, <2>4 DEF WorkOk
<1> QED
  BY <1>1, <1>4, <1>5

LEMMA LoadWork ==
  ASSUME OwnersAreMeant, OwnershipInv, [Own!Next]_(Own!vars), Own!Load, NEW r \in Sessions
  PROVE  WorkOk(r)'
<1>1. inits[r] = "none" /\ queue[r] = <<>> /\ writing[r] = <<>>
  <2>1. inits[r] = "none"
    BY DEF Own!Load, OwnershipInv, OneAtATime
  <2> QED
    BY <2>1, WorkTypes DEF WorkOk, Own!HasWork
<1>2. queue' = queue /\ writing' = writing /\ events' = events /\ Len(events[r]) \in Nat
  BY WorkTypes DEF Own!Load
<1>3. \/ inits'[r] = "none"
      \/ inits'[r] = "pending" /\ seeds'[r] = Len(events[r])
  <2>1. CASE Own!NoneLive
    BY <1>1, <2>1 DEF Own!Load
  <2>2. CASE ~Own!NoneLive
    <3> DEFINE s == CHOOSE s \in Sessions : alive[s] = "live"
    <3>1. s \in Sessions /\ Own!InitFor(s, events[s])
      BY <2>2 DEF Own!Load, Own!NoneLive
    <3> HIDE DEF s
    <3> QED
      BY <1>1, <3>1 DEF Own!InitFor, OwnershipInv, Own!TypeOK
  <2> QED
    BY <2>1, <2>2
<1>4. ASSUME inits'[r] = "pending", seeds'[r] = Len(events[r]) PROVE WorkFrom(r, seeds[r])'
  <2>1. /\ WorkIs(writing'[r], queue'[r], Len(events'[r]), seeds'[r])
        /\ seeds'[r] + Len(writing'[r]) + Len(queue'[r]) = Len(events'[r])
    BY <1>1, <1>2, <1>4, NoWork
  <2> QED
    BY <2>1, WorkOf
<1> QED
  BY <1>1, <1>2, <1>3, <1>4 DEF WorkOk, Own!HasWork

LEMMA WorkStep == ASSUME OwnersAreMeant, OwnershipInv, [Own!Next]_(Own!vars) PROVE WorkIsKept'
<1> SUFFICES ASSUME NEW r \in Sessions PROVE WorkOk(r)'
  BY DEF WorkIsKept, WorkOk
<1>1. Own!TypeOK
  BY DEF OwnershipInv
<1>2. CASE Own!Load
  BY <1>2, LoadWork
<1>3. CASE Own!Unloaded
  BY <1>3 DEF Own!Unloaded, Own!Untracked, WorkOk, Own!HasWork, OwnersAreMeant
<1> DEFINE Same == /\ queue'[r] = queue[r] /\ writing'[r] = writing[r] /\ events'[r] = events[r]
                   /\ inits'[r] = inits[r] /\ seeds'[r] = seeds[r]
                   /\ state'.owner = r => state.owner = r /\ state'.cursor = state.cursor
<1>4. Same /\ ~Own!Load => WorkOk(r)'
  BY OthersKeepWork
<1>5. ASSUME NEW s \in Sessions,
             Own!Create(s) \/ Own!Restore(s) \/ Own!Speak(s) \/ Own!StartWrite(s), r # s
      PROVE  Same
  BY <1>1, <1>5 DEF Own!Create, Own!InitFor, Own!Restore, Own!Speak, Own!StartWrite, Own!TypeOK
<1>6. ASSUME NEW s \in Sessions, Own!RunInit(s), r # s PROVE Same
  <2>1. inits'[r] = inits[r] /\ UNCHANGED <<events, seeds, queue, writing>>
        /\ (Binds(s) \/ Refuses(s))
    BY <1>6, InitMoves, InitShape
  <2> QED
    BY <1>6, <2>1 DEF Binds, Refuses, Own!Track, Own!Untracked, OwnersAreMeant
<1>7. ASSUME NEW s \in Sessions, Own!InitAppends(s), r # s PROVE Same
  <2>1. /\ inits'[r] = inits[r] /\ UNCHANGED <<events, seeds, queue, writing>>
        /\ AppendsAll(s) \/ UNCHANGED state
    BY <1>7, InitMoves, AppendShape
  <2> QED
    BY <1>7, <2>1 DEF AppendsAll, Own!Track
<1>8. ASSUME NEW s \in Sessions, Own!RunWrite(s), r # s PROVE Same
  <2>1. /\ UNCHANGED <<events, inits, seeds>> /\ writing' = [writing EXCEPT ![s] = <<>>]
        /\ Written(s) \/ PutBack(s)
    BY <1>8, WriteShape
  <2> QED
    BY <1>1, <1>8, <2>1 DEF Written, PutBack, Own!Track, Own!TypeOK
<1>9. ASSUME NEW s \in Sessions, Own!Release(s) PROVE WorkOk(r)'
  <2>1. /\ UNCHANGED <<events, seeds, queue, writing>> /\ ~Own!HasWork(s)
        /\ inits' = [inits EXCEPT ![s] = "none"]
        /\ state' = IF state.owner = s THEN Own!Untracked ELSE state
    BY <1>9, ReleaseShape DEF Own!Release, Own!Settle, Own!LetGo
  <2>2. CASE r = s
    BY <1>1, <2>1, <2>2 DEF WorkOk, Own!HasWork, Own!TypeOK
  <2>3. CASE r # s
    <3>1. Same
      BY <1>1, <2>1, <2>3 DEF Own!Untracked, OwnersAreMeant, Own!TypeOK
    <3> QED
      BY <1>2, <1>4, <3>1
  <2> QED
    BY <2>2, <2>3
<1>10. CASE Own!RunCall
  <2>1. UNCHANGED <<events, Own!control>> /\ (CreatesNothing \/ Creates \/ Loads)
    BY <1>10, CallShape
  <2>2. Same
    BY <2>1 DEF Own!control, CreatesNothing, Creates, Loads, Own!Track, OwnersAreMeant
  <2> QED
    BY <1>2, <1>4, <2>2
<1>11. CASE UNCHANGED <<events, state, Own!control>>
  <2>1. Same
    BY <1>11 DEF Own!control
  <2> QED
    BY <1>2, <1>4, <2>1
<1> HIDE DEF Same
<1>12. ASSUME NEW s \in Sessions,
              Own!Create(s) \/ Own!Restore(s) \/ Own!Speak(s) \/ Own!StartWrite(s) PROVE WorkOk(r)'
  BY <1>2, <1>4, <1>5, <1>12, CreateWork, RestoreWork, SpeakWork, StartWork
<1>13. ASSUME NEW s \in Sessions, Own!RunInit(s) \/ Own!InitAppends(s) \/ Own!RunWrite(s)
       PROVE WorkOk(r)'
  BY <1>2, <1>4, <1>6, <1>7, <1>8, <1>13, InitWork, WriteWork
<1> QED
  BY <1>2, <1>3, <1>9, <1>10, <1>11, <1>12, <1>13
     DEF Own!Next, Own!Chain, Own!vars, Own!Dispose, Own!Flush, Own!Call, Own!Unload

---------------------------------------------------------------------------
(* The jobs of the chain.  A step runs the first one, adds one, or does    *)
(* neither; what the other jobs wait for is left alone.                    *)

Awaiting(s) == retire[s] = "release" /\ inits[s] = "ok" /\ ~Own!HasWork(s)
Unclaimed   == state.owner = NoOne /\ \A s \in Sessions : inits[s] \in {"none", "pending"}

JobIsMeant(i) ==
  /\ chain[i].kind \in {"create", "load"} <=> chain[i].of = NoOne
  /\ chain[i].kind = "init" => \/ inits[chain[i].of] = "pending"
                               \/ inits[chain[i].of] = "append" /\ i = 1
  /\ chain[i].kind = "write" => writing[chain[i].of] # <<>>
  /\ chain[i].kind = "release" => Awaiting(chain[i].of)
  /\ chain[i].kind = "load" => (\A j \in 1 .. i : chain[j].of = NoOne) /\ Unclaimed

LEMMA JobFacts ==
  ASSUME OwnersAreMeant, OwnershipInv
  PROVE  /\ chain \in Seq(JobSet) /\ Len(chain) \in Nat /\ DOMAIN chain = 1 .. Len(chain)
         /\ \A i, j \in 1 .. Len(chain) : chain[i] = chain[j] => i = j
         /\ \A i \in 1 .. Len(chain) :
              /\ JobIsMeant(i) /\ chain[i] = Own!Job(chain[i].kind, chain[i].of)
              /\ chain[i].kind \in {"init", "write", "release", "create", "load"}
              /\ chain[i].of \in Sessions \cup {NoOne}
         /\ \A i, j \in 1 .. Len(chain) :
              i < j /\ chain[i].kind = "init"
              /\ chain[j].kind = "init" => retire[chain[i].of] # "no"
         /\ \A s \in Sessions : inits[s] = "pending" => \E i \in 1 .. Len(chain) : chain[i] = Own!Job("init", s)
         /\ \A s \in Sessions : inits[s] = "append" => Len(chain) > 0 /\ chain[1] = Own!Job("init", s)
<1>1. chain \in Seq(JobSet) /\ Len(chain) \in Nat /\ DOMAIN chain = 1 .. Len(chain)
  BY DEF OwnershipInv, Own!TypeOK, JobSet
<1>2. \A i \in 1 .. Len(chain) :
        /\ chain[i] = Own!Job(chain[i].kind, chain[i].of)
        /\ chain[i].kind \in {"init", "write", "release", "create", "load"}
        /\ chain[i].of \in Sessions \cup {NoOne}
  <2>1. \A i \in 1 .. Len(chain) : chain[i] \in JobSet
    BY <1>1
  <2> QED
    BY <2>1 DEF JobSet, Own!Job
<1>3. \A i, j \in 1 .. Len(chain) : chain[i] = chain[j] => i = j
  BY <1>1 DEF OwnershipInv, JobsAreMeant
<1>4. \A i \in 1 .. Len(chain) : JobIsMeant(i)
  BY <1>1 DEF OwnershipInv, JobsAreMeant, JobIsMeant, Awaiting, Unclaimed
<1>5. \A i, j \in 1 .. Len(chain) :
        i < j /\ chain[i].kind = "init" /\ chain[j].kind = "init" => retire[chain[i].of] # "no"
  BY <1>1 DEF OwnershipInv, JobsAreMeant
<1>6. \A s \in Sessions : inits[s] = "pending" => \E i \in 1 .. Len(chain) : chain[i] = Own!Job("init", s)
  BY <1>1 DEF OwnershipInv, JobsAreMeant
<1>7. \A s \in Sessions : inits[s] = "append" => chain # <<>> /\ chain[1] = Own!Job("init", s)
  BY DEF OwnershipInv, JobsAreMeant
<1>8. chain # <<>> => Len(chain) > 0
  BY <1>1
<1> QED
  BY <1>1, <1>2, <1>3, <1>4, <1>5, <1>6, <1>7, <1>8

(* The same of the next state, as it is to be shown.                       *)
LEMMA JobsFollow ==
  ASSUME chain' \in Seq(JobSet),
         \A i, j \in 1 .. Len(chain') : chain'[i] = chain'[j] => i = j,
         \A i \in 1 .. Len(chain') : JobIsMeant(i)',
         \A i, j \in 1 .. Len(chain') :
           i < j /\ chain'[i].kind = "init"
           /\ chain'[j].kind = "init" => retire'[chain'[i].of] # "no",
         \A s \in Sessions : inits'[s] = "pending" => \E i \in 1 .. Len(chain') : chain'[i] = Own!Job("init", s),
         \A s \in Sessions : inits'[s] = "append" => Len(chain') > 0 /\ chain'[1] = Own!Job("init", s)
  PROVE  JobsAreMeant'
<1>1. DOMAIN chain' = 1 .. Len(chain') /\ (Len(chain') > 0 => chain' # <<>>)
  BY EmptySeq
<1>2. \A i \in DOMAIN chain' : JobIsMeant(i)'
  BY <1>1
<1> QED
  BY <1>1, <1>2 DEF JobsAreMeant, JobIsMeant, Awaiting, Unclaimed

(* The first job is done.                                                  *)
LEMMA JobDone ==
  ASSUME OwnersAreMeant, OwnershipInv, chain # <<>>, Own!Done,
         \A r \in Sessions : inits'[r] = "pending" <=> inits[r] = "pending" /\ chain[1] # Own!Job("init", r),
         \A r \in Sessions : inits'[r] # "append",
         \A r \in Sessions : writing[r] # <<>> /\ chain[1] # Own!Job("write", r) => writing'[r] # <<>>,
         \A r \in Sessions : Awaiting(r) /\ chain[1] # Own!Job("release", r) => Awaiting(r)',
         \A r \in Sessions : retire[r] # "no" => retire'[r] # "no",
         chain[1].of = NoOne /\ Unclaimed => Unclaimed'
  PROVE  JobsAreMeant'
<1>1. /\ chain' \in Seq(JobSet) /\ Len(chain') = Len(chain) - 1 /\ Len(chain) > 0
      /\ \A i \in 1 .. Len(chain) - 1 : chain'[i] = chain[i + 1]
  BY Popped DEF OwnershipInv
<1>2. Len(chain) \in Nat
  BY JobFacts
<1>3. \A i \in 1 .. Len(chain') : i + 1 \in 1 .. Len(chain) /\ chain'[i] = chain[i + 1] /\ i + 1 # 1
  BY <1>1, <1>2
<1>4. \A i, j \in 1 .. Len(chain') : chain'[i] = chain'[j] => i = j
  <2> SUFFICES ASSUME NEW i \in 1 .. Len(chain'), NEW j \in 1 .. Len(chain'),
                      chain'[i] = chain'[j] PROVE i = j
    OBVIOUS
  <2>1. i + 1 = j + 1
    BY <1>3, JobFacts
  <2> QED
    BY <2>1
<1>5. ASSUME NEW i \in 1 .. Len(chain') PROVE JobIsMeant(i)'
  <2> DEFINE j == i + 1
  <2> PICK r : r = chain[j].of
    OBVIOUS
  <2>1. j \in 1 .. Len(chain) /\ chain'[i] = chain[j] /\ j # 1 /\ 1 \in 1 .. Len(chain)
    BY <1>1, <1>2, <1>3
  <2>2. /\ JobIsMeant(j) /\ chain[j] = Own!Job(chain[j].kind, r) /\ r \in Sessions \cup {NoOne}
        /\ chain[j] # chain[1]
        /\ chain[j].kind \in {"init", "write", "release", "create", "load"}
    BY <2>1, JobFacts
  <2> HIDE DEF j
  <2>3. chain[j].kind \in {"init", "write", "release"} => r \in Sessions
    BY <2>2 DEF JobIsMeant
  <2>4. chain[j].kind = "init" => inits'[r] = "pending"
    BY <2>1, <2>2, <2>3 DEF JobIsMeant
  <2>5. chain[j].kind = "write" => writing'[r] # <<>>
    BY <2>2, <2>3 DEF JobIsMeant
  <2>6. chain[j].kind = "release" => Awaiting(r)'
    <3>1. chain[j].kind = "release" => r \in Sessions /\ Awaiting(r)
      BY <2>2, <2>3 DEF JobIsMeant
    <3>2. chain[j].kind = "release" => chain[1] # Own!Job("release", r)
      BY <2>2
    <3> QED
      BY <3>1, <3>2
  <2>7. chain[j].kind = "load" => Unclaimed' /\ \A k \in 1 .. i : chain'[k].of = NoOne
    <3>1. ASSUME chain[j].kind = "load" PROVE \A k \in 1 .. j : chain[k].of = NoOne
      BY <2>2, <3>1 DEF JobIsMeant
    <3>2. ASSUME NEW k \in 1 .. i PROVE k + 1 \in 1 .. j /\ chain'[k] = chain[k + 1]
      <4>1. k \in 1 .. Len(chain') /\ k + 1 \in 1 .. i + 1
        BY <1>1, <1>2, <3>2
      <4> QED
        BY <1>3, <4>1 DEF j
    <3>3. 1 \in 1 .. j
      BY DEF j
    <3>4. chain[j].kind = "load" => Unclaimed /\ chain[1].of = NoOne
      BY <2>2, <3>1, <3>3 DEF JobIsMeant
    <3> QED
      BY <3>1, <3>2, <3>4
  <2>8. chain'[i].of = r /\ chain'[i].kind = chain[j].kind
    BY <2>1
  <2>9. chain[j].kind \in {"create", "load"} <=> r = NoOne
    BY <2>2 DEF JobIsMeant
  <2>10. /\ chain'[i].kind \in {"create", "load"} <=> chain'[i].of = NoOne
         /\ chain'[i].kind = "init" => inits'[chain'[i].of] = "pending"
         /\ chain'[i].kind = "write" => writing'[chain'[i].of] # <<>>
         /\ chain'[i].kind = "release" => Awaiting(r)' /\ chain'[i].of = r
         /\ chain'[i].kind = "load" => (\A k \in 1 .. i : chain'[k].of = NoOne) /\ Unclaimed'
    BY <2>4, <2>5, <2>6, <2>7, <2>8, <2>9
  <2> QED
    BY <2>10 DEF JobIsMeant, Awaiting, Own!HasWork, Unclaimed
<1>6. ASSUME NEW i \in 1 .. Len(chain'), NEW j \in 1 .. Len(chain'), i < j,
             chain'[i].kind = "init", chain'[j].kind = "init"
      PROVE  retire'[chain'[i].of] # "no"
  <2>1. /\ i + 1 \in 1 .. Len(chain) /\ j + 1 \in 1 .. Len(chain) /\ i + 1 < j + 1
        /\ chain'[i] = chain[i + 1] /\ chain'[j] = chain[j + 1]
    BY <1>3, <1>6
  <2>2. retire[chain[i + 1].of] # "no" /\ chain[i + 1].of \in Sessions
    BY <1>6, <2>1, JobFacts DEF JobIsMeant
  <2> QED
    BY <2>1, <2>2
<1>7. ASSUME NEW s \in Sessions, inits'[s] = "pending"
      PROVE  \E i \in 1 .. Len(chain') : chain'[i] = Own!Job("init", s)
  <2>1. PICK j \in 1 .. Len(chain) : chain[j] = Own!Job("init", s)
    BY <1>7, JobFacts
  <2>2. j # 1
    BY <1>7, <2>1
  <2>3. j - 1 \in 1 .. Len(chain') /\ chain'[j - 1] = chain[j]
    BY <1>1, <1>2, <2>1, <2>2
  <2> QED
    BY <2>1, <2>3
<1> QED
  BY <1>1, <1>4, <1>5, <1>6, <1>7, JobsFollow

(* The chain is left alone; its first job may turn to appending.           *)
LEMMA JobsStay ==
  ASSUME OwnersAreMeant, OwnershipInv, chain' = chain,
         \A r \in Sessions : inits'[r] = "pending" => inits[r] = "pending",
         \A r \in Sessions : inits[r] = "pending" =>
           inits'[r] = "pending" \/ (inits'[r] = "append" /\ chain[1] = Own!Job("init", r)),
         \A r \in Sessions : inits[r] = "append" => inits'[r] = "append",
         \A r \in Sessions : inits'[r] = "append" =>
           inits[r] = "append" \/ (chain # <<>> /\ chain[1] = Own!Job("init", r)),
         \A r \in Sessions : writing[r] # <<>> => writing'[r] # <<>>,
         \A r \in Sessions : Awaiting(r) => Awaiting(r)',
         \A r \in Sessions : retire[r] # "no" => retire'[r] # "no",
         chain # <<>> /\ chain[1].of = NoOne /\ Unclaimed => Unclaimed'
  PROVE  JobsAreMeant'
<1>1. /\ chain \in Seq(JobSet) /\ Len(chain) \in Nat
      /\ \A i, j \in 1 .. Len(chain) : chain[i] = chain[j] => i = j
  BY JobFacts
<1>2. ASSUME NEW i \in 1 .. Len(chain') PROVE JobIsMeant(i)'
  <2> PICK r : r = chain[i].of
    OBVIOUS
  <2>1. /\ i \in 1 .. Len(chain) /\ chain # <<>> /\ 1 \in 1 .. i /\ 1 \in 1 .. Len(chain)
        /\ JobIsMeant(i) /\ chain[i] = Own!Job(chain[i].kind, r) /\ r \in Sessions \cup {NoOne}
    BY <1>1, JobFacts, EmptySeq
  <2>2. chain[i].kind \in {"init", "write", "release"} => r \in Sessions
    BY <2>1 DEF JobIsMeant
  <2>3. chain[i].kind = "init" => inits'[r] = "pending" \/ (inits'[r] = "append" /\ i = 1)
    <3>1. chain[i].kind = "init" /\ chain[1] = Own!Job("init", r) => i = 1
      BY <1>1, <2>1
    <3>2. chain[i].kind = "init" => inits[r] = "pending" \/ (inits[r] = "append" /\ i = 1)
      BY <2>1 DEF JobIsMeant
    <3> QED
      BY <2>2, <3>1, <3>2
  <2>4. chain[i].kind = "write" => writing'[r] # <<>>
    BY <2>1, <2>2 DEF JobIsMeant
  <2>5. chain[i].kind = "release" => Awaiting(r)'
    <3>1. chain[i].kind = "release" => r \in Sessions /\ Awaiting(r)
      BY <2>1, <2>2 DEF JobIsMeant
    <3> QED
      BY <3>1
  <2>6. chain[i].kind = "load" => Unclaimed' /\ \A k \in 1 .. i : chain[k].of = NoOne
    <3>1. chain[i].kind = "load" => Unclaimed /\ \A k \in 1 .. i : chain[k].of = NoOne
      BY <2>1 DEF JobIsMeant
    <3> QED
      BY <2>1, <3>1
  <2>7. chain[i].kind \in {"create", "load"} <=> r = NoOne
    BY <2>1 DEF JobIsMeant
  <2>8. /\ chain'[i].kind \in {"create", "load"} <=> chain'[i].of = NoOne
        /\ chain'[i].kind = "init" => \/ inits'[chain'[i].of] = "pending"
                                      \/ inits'[chain'[i].of] = "append" /\ i = 1
        /\ chain'[i].kind = "write" => writing'[chain'[i].of] # <<>>
        /\ chain'[i].kind = "release" => Awaiting(r)' /\ chain'[i].of = r
        /\ chain'[i].kind = "load" => (\A k \in 1 .. i : chain'[k].of = NoOne) /\ Unclaimed'
    BY <2>3, <2>4, <2>5, <2>6, <2>7
  <2> QED
    BY <2>8 DEF JobIsMeant, Awaiting, Own!HasWork, Unclaimed
<1>3. ASSUME NEW i \in 1 .. Len(chain'), NEW j \in 1 .. Len(chain'), i < j,
             chain'[i].kind = "init", chain'[j].kind = "init"
      PROVE  retire'[chain'[i].of] # "no"
  <2>1. retire[chain[i].of] # "no" /\ chain[i].of \in Sessions
    BY <1>3, JobFacts DEF JobIsMeant
  <2> QED
    BY <2>1
<1>4. \A s \in Sessions : inits'[s] = "pending" => \E i \in 1 .. Len(chain') : chain'[i] = Own!Job("init", s)
  BY JobFacts
<1>5. \A s \in Sessions : inits'[s] = "append" => Len(chain') > 0 /\ chain'[1] = Own!Job("init", s)
  BY <1>1, JobFacts, EmptySeq
<1> QED
  BY <1>1, <1>2, <1>3, <1>4, <1>5, JobsFollow

(* A job is added.                                                         *)
LEMMA JobAdded ==
  ASSUME OwnersAreMeant, OwnershipInv,
         NEW kind \in {"init", "write", "release", "create", "load"},
         NEW s \in Sessions \cup {NoOne},
         Own!Enqueue(kind, s),
         \A i \in 1 .. Len(chain) : chain[i] # Own!Job(kind, s),
         kind \in {"create", "load"} <=> s = NoOne,
         kind = "init" => inits'[s] = "pending" /\ \A r \in Sessions : inits[r] # "none" => retire'[r] # "no",
         kind = "write" => writing'[s] # <<>>,
         kind = "release" => Awaiting(s)',
         kind = "load" => chain = <<>> /\ Unclaimed',
         \A r \in Sessions : inits'[r] = IF kind = "init" /\ r = s THEN "pending" ELSE inits[r],
         \A r \in Sessions : writing[r] # <<>> => writing'[r] # <<>>,
         \A r \in Sessions : Awaiting(r) => Awaiting(r)',
         \A r \in Sessions : retire[r] # "no" => retire'[r] # "no",
         state'.owner = state.owner
  PROVE  JobsAreMeant'
<1> DEFINE n == Len(chain)
<1>1. /\ chain' \in Seq(JobSet) /\ Len(chain') = n + 1 /\ n \in Nat
      /\ chain'[n + 1] = Own!Job(kind, s) /\ chain'[n + 1].kind = kind /\ chain'[n + 1].of = s
      /\ \A i \in 1 .. n : chain'[i] = chain[i]
  BY Enqueued, JobFacts DEF OwnershipInv
<1> DEFINE m == n + 1
<1>2. \A i \in 1 .. Len(chain') : i \in 1 .. n \/ i = n + 1
  BY <1>1
<1>3. \A i, j \in 1 .. Len(chain') : chain'[i] = chain'[j] => i = j
  BY <1>1, <1>2, JobFacts
<1>4. ASSUME NEW i \in 1 .. n PROVE JobIsMeant(i)'
  <2> PICK r : r = chain[i].of
    OBVIOUS
  <2>1. /\ JobIsMeant(i) /\ chain[i] = Own!Job(chain[i].kind, r) /\ r \in Sessions \cup {NoOne}
        /\ chain'[i] = chain[i]
    BY <1>1, JobFacts
  <2>2. chain[i].kind \in {"init", "write", "release"} => r \in Sessions
    BY <2>1 DEF JobIsMeant
  <2>3. chain[i].kind = "init" => inits'[r] = "pending" \/ (inits'[r] = "append" /\ i = 1)
    BY <2>1, <2>2 DEF JobIsMeant
  <2>4. chain[i].kind = "write" => writing'[r] # <<>>
    BY <2>1, <2>2 DEF JobIsMeant
  <2>5. chain[i].kind = "release" => Awaiting(r)'
    <3>1. chain[i].kind = "release" => r \in Sessions /\ Awaiting(r)
      BY <2>1, <2>2 DEF JobIsMeant
    <3> QED
      BY <3>1
  <2>6. chain[i].kind = "load" => Unclaimed' /\ \A k \in 1 .. i : chain'[k].of = NoOne
    <3>1. chain[i].kind = "load" => Unclaimed /\ \A k \in 1 .. i : chain[k].of = NoOne
      BY <2>1 DEF JobIsMeant
    <3>2. \A k \in 1 .. i : chain'[k] = chain[k]
      BY <1>1
    <3>3. ASSUME Unclaimed PROVE Unclaimed'
      BY <3>3 DEF Unclaimed
    <3> QED
      BY <3>1, <3>2, <3>3
  <2>7. chain[i].kind \in {"create", "load"} <=> r = NoOne
    BY <2>1 DEF JobIsMeant
  <2>8. /\ chain'[i].kind \in {"create", "load"} <=> chain'[i].of = NoOne
        /\ chain'[i].kind = "init" => \/ inits'[chain'[i].of] = "pending"
                                      \/ inits'[chain'[i].of] = "append" /\ i = 1
        /\ chain'[i].kind = "write" => writing'[chain'[i].of] # <<>>
        /\ chain'[i].kind = "release" => Awaiting(r)' /\ chain'[i].of = r
        /\ chain'[i].kind = "load" => (\A k \in 1 .. i : chain'[k].of = NoOne) /\ Unclaimed'
    BY <2>1, <2>3, <2>4, <2>5, <2>6, <2>7
  <2> QED
    BY <2>8 DEF JobIsMeant, Awaiting, Own!HasWork, Unclaimed
<1>5. ASSUME NEW i \in 1 .. Len(chain'), i = n + 1 PROVE JobIsMeant(i)'
  <2>1. chain'[i].kind = kind /\ chain'[i].of = s
    BY <1>1, <1>5
  <2>2. kind = "load" => Unclaimed' /\ \A k \in 1 .. i : chain'[k].of = NoOne
    <3>1. ASSUME kind = "load" PROVE n = 0 /\ s = NoOne
      BY <3>1, EmptySeq
    <3>2. n = 0 => i = 1
      BY <1>5
    <3>3. kind = "load" => \A k \in 1 .. i : k = i
      BY <3>1, <3>2
    <3> QED
      BY <2>1, <3>1, <3>3
  <2> QED
    BY <2>1, <2>2 DEF JobIsMeant, Awaiting, Own!HasWork, Unclaimed
<1>6. \A i \in 1 .. Len(chain') : JobIsMeant(i)'
  <2> TAKE i \in 1 .. Len(chain')
  <2>1. i \in 1 .. n \/ i = n + 1
    BY <1>2
  <2> QED
    BY <1>4, <1>5, <2>1
<1>7. ASSUME NEW i \in 1 .. Len(chain'), NEW j \in 1 .. Len(chain'), i < j,
             chain'[i].kind = "init", chain'[j].kind = "init"
      PROVE  retire'[chain'[i].of] # "no"
  <2>1. i \in 1 .. n /\ chain'[i] = chain[i]
    BY <1>1, <1>7
  <2>2. JobIsMeant(i) /\ chain[i].kind = "init"
    BY <1>7, <2>1, JobFacts
  <2>3. chain[i].of \in Sessions /\ inits[chain[i].of] # "none"
    BY <2>1, <2>2, JobFacts DEF JobIsMeant
  <2>4. CASE j \in 1 .. n
    <3>1. chain[j].kind = "init" /\ chain[i].kind = "init"
      BY <1>1, <1>7, <2>2, <2>4
    <3>2. retire[chain[i].of] # "no"
      BY <1>7, <2>1, <2>4, <3>1, JobFacts
    <3> QED
      BY <2>1, <2>3, <3>2
  <2>5. CASE j = n + 1
    <3>1. kind = "init"
      BY <1>1, <1>7, <2>5
    <3> QED
      BY <2>1, <2>3, <3>1
  <2> QED
    BY <1>2, <2>4, <2>5
<1>8. ASSUME NEW r \in Sessions, inits'[r] = "pending"
      PROVE  \E i \in 1 .. Len(chain') : chain'[i] = Own!Job("init", r)
  <2>1. CASE kind = "init" /\ r = s
    <3>1. n + 1 \in 1 .. Len(chain')
      BY <1>1
    <3> QED
      BY <1>1, <2>1, <3>1
  <2>2. CASE inits[r] = "pending"
    <3>1. PICK i \in 1 .. n : chain[i] = Own!Job("init", r)
      BY <2>2, JobFacts
    <3>2. i \in 1 .. Len(chain') /\ chain'[i] = chain[i]
      BY <1>1
    <3> QED
      BY <3>1, <3>2
  <2> QED
    BY <1>8, <2>1, <2>2
<1>9. ASSUME NEW r \in Sessions, inits'[r] = "append"
      PROVE Len(chain') > 0 /\ chain'[1] = Own!Job("init", r)
  <2>1. n > 0 /\ chain[1] = Own!Job("init", r)
    BY <1>9, JobFacts
  <2> QED
    BY <1>1, <2>1
<1> QED
  BY <1>1, <1>3, <1>6, <1>7, <1>8, <1>9, JobsFollow

LEMMA InitJobs ==
  ASSUME OwnersAreMeant, OwnershipInv, NEW s \in Sessions, Own!RunInit(s) \/ Own!InitAppends(s)
  PROVE  JobsAreMeant'
<1>1. /\ inits[s] \in {"pending", "append"} /\ inits'[s] \in Bound
      /\ inits[s] = "append" => inits'[s] # "append"
      /\ \A r \in Sessions : r # s => inits'[r] = inits[r]
      /\ UNCHANGED <<events, alive, seeds, queue, writing, retire, plugin>>
      /\ chain # <<>> /\ chain[1] = Own!Job("init", s)
      /\ \/ inits[s] = "pending" /\ inits'[s] = "append" /\ UNCHANGED chain
         \/ inits'[s] \in {"ok", "failed"} /\ Own!Done
  BY InitMoves
<1>2. chain[1].of # NoOne /\ \A k : \A r \in Sessions : chain[1] = Own!Job(k, r) <=> k = "init" /\ r = s
  BY <1>1, JobsDiffer DEF OwnersAreMeant
<1>3. \A r \in Sessions : inits[r] = "append" => r = s
  BY <1>2, JobFacts
<1>4. \A r \in Sessions : Awaiting(r) => Awaiting(r)'
  BY <1>1 DEF Awaiting, Own!HasWork
<1>5. CASE inits[s] = "pending" /\ inits'[s] = "append" /\ UNCHANGED chain
  BY <1>1, <1>2, <1>4, <1>5, JobsStay
<1>6. CASE inits'[s] \in {"ok", "failed"} /\ Own!Done
  <2>1. \A r \in Sessions : inits'[r] = "pending" <=> inits[r] = "pending" /\ chain[1] # Own!Job("init", r)
    BY <1>1, <1>2, <1>6
  <2>2. \A r \in Sessions : inits'[r] # "append"
    BY <1>1, <1>3, <1>6
  <2> QED
    BY <1>1, <1>2, <1>4, <1>6, <2>1, <2>2, JobDone
<1> QED
  BY <1>1, <1>5, <1>6

LEMMA RunJobs ==
  ASSUME OwnersAreMeant, OwnershipInv, NEW s \in Sessions, Own!RunWrite(s) \/ Own!Release(s)
  PROVE  JobsAreMeant'
<1>1. Own!TypeOK
  BY DEF OwnershipInv
<1>2. ASSUME NEW k \in {"write", "release"}, chain[1] = Own!Job(k, s)
      PROVE  /\ chain[1].of # NoOne /\ \A l : \A r \in Sessions : chain[1] = Own!Job(l, r) <=> l = k /\ r = s
             /\ \A r \in Sessions : inits[r] # "append"
  BY <1>2, JobsDiffer, JobFacts DEF OwnersAreMeant
<1>3. CASE Own!RunWrite(s)
  <2>1. /\ chain # <<>> /\ chain[1] = Own!Job("write", s) /\ Own!Done
        /\ writing[s] # <<>> /\ writing' = [writing EXCEPT ![s] = <<>>]
        /\ UNCHANGED inits /\ (Written(s) \/ PutBack(s))
    BY <1>3, WriteShape
  <2>2. \A r \in Sessions : r # s => writing'[r] = writing[r] /\ queue'[r] = queue[r] /\ retire'[r] = retire[r]
    BY <1>1, <2>1 DEF Written, PutBack, Own!TypeOK
  <2>3. \A r \in Sessions : Awaiting(r) => Awaiting(r)'
    BY <2>1, <2>2 DEF Awaiting, Own!HasWork
  <2>4. \A r \in Sessions : retire[r] # "no" => retire'[r] # "no"
    BY <1>1, <2>1 DEF Written, PutBack, Own!TypeOK
  <2> QED
    BY <1>2, <2>1, <2>2, <2>3, <2>4, JobDone
<1>4. CASE Own!Release(s)
  <2>1. /\ chain # <<>> /\ chain[1] = Own!Job("release", s) /\ Own!Done
        /\ retire[s] = "release" /\ inits[s] = "ok"
        /\ inits' = [inits EXCEPT ![s] = "none"] /\ retire' = [retire EXCEPT ![s] = "done"]
        /\ UNCHANGED <<queue, writing>>
    BY <1>4, ReleaseShape DEF Own!Release, Own!Settle
  <2>2. \A r \in Sessions : r # s => inits'[r] = inits[r] /\ retire'[r] = retire[r]
    BY <1>1, <2>1 DEF Own!TypeOK
  <2>3. inits'[s] = "none" /\ retire'[s] = "done"
    BY <1>1, <2>1 DEF Own!TypeOK
  <2>4. \A r \in Sessions : Awaiting(r) /\ r # s => Awaiting(r)'
    BY <2>1, <2>2 DEF Awaiting, Own!HasWork
  <2> QED
    BY <1>2, <2>1, <2>2, <2>3, <2>4, JobDone
<1> QED
  BY <1>3, <1>4

LEMMA SessionJobs ==
  ASSUME OwnersAreMeant, OwnershipInv, NEW s \in Sessions,
         Own!Create(s) \/ Own!StartWrite(s) \/ Own!Flush(s)
  PROVE  JobsAreMeant'
<1>1. Own!TypeOK /\ OneAtATime
  BY DEF OwnershipInv
<1>2. CASE Own!Create(s)
  <2>1. /\ alive[s] = "unborn" /\ Own!NoneLive /\ inits[s] = "none"
        /\ UNCHANGED <<store, torn, state, queue, writing, retire, plugin, spent>>
    BY <1>1, <1>2 DEF Own!Create, OneAtATime
  <2>2. CASE plugin # "on"
    <3>1. UNCHANGED <<inits, chain>>
      BY <1>2, <2>2 DEF Own!Create
    <3> QED
      BY <2>1, <3>1, JobsStay DEF Awaiting, Own!HasWork, Unclaimed
  <2>3. CASE plugin = "on"
    <3>1. Own!Enqueue("init", s) /\ inits' = [inits EXCEPT ![s] = "pending"]
      BY <1>2, <2>3 DEF Own!Create, Own!InitFor
    <3>2. \A r \in Sessions : inits'[r] = IF r = s THEN "pending" ELSE inits[r]
      BY <1>1, <3>1 DEF Own!TypeOK
    <3>3. \A i \in 1 .. Len(chain) : chain[i] # Own!Job("init", s)
      BY <2>1, JobFacts, JobsDiffer DEF JobIsMeant
    <3>4. \A r \in Sessions : inits[r] # "none" => retire'[r] # "no"
      BY <1>1, <2>1, <2>3 DEF Own!NoneLive, OneAtATime, Own!TypeOK
    <3>5. \A r \in Sessions : Awaiting(r) => Awaiting(r)'
      BY <2>1, <3>2 DEF Awaiting, Own!HasWork
    <3> QED
      BY <2>1, <3>1, <3>2, <3>3, <3>4, <3>5, JobAdded DEF OwnersAreMeant
  <2> QED
    BY <2>2, <2>3
<1>3. CASE Own!StartWrite(s)
  <2>1. /\ inits[s] = "ok" /\ queue[s] # <<>> /\ writing[s] = <<>> /\ Own!Enqueue("write", s)
        /\ writing' = [writing EXCEPT ![s] = queue[s]] /\ queue' = [queue EXCEPT ![s] = <<>>]
        /\ UNCHANGED <<store, torn, state, events, alive, inits, seeds, retire, plugin, spent>>
    BY <1>3 DEF Own!StartWrite, Own!Ready
  <2>2. /\ writing'[s] # <<>>
        /\ \A r \in Sessions : r # s => writing'[r] = writing[r] /\ queue'[r] = queue[r]
    BY <1>1, <2>1 DEF Own!TypeOK
  <2>3. \A r \in Sessions : Awaiting(r) => Awaiting(r)'
    BY <2>1, <2>2 DEF Awaiting, Own!HasWork
  <2>4. \A i \in 1 .. Len(chain) : chain[i] # Own!Job("write", s)
    BY <2>1, JobFacts, JobsDiffer DEF JobIsMeant
  <2> QED
    BY <2>1, <2>2, <2>3, <2>4, JobAdded DEF OwnersAreMeant
<1>4. CASE Own!Flush(s)
  <2>1. retire[s] = "flush"
        /\ UNCHANGED <<store, torn, state, events, alive, Own!control, plugin, spent>>
    BY <1>4 DEF Own!Flush
  <2>2. CASE /\ inits[s] = "ok" /\ Own!Flushed(s) /\ retire' = [retire EXCEPT ![s] = "release"]
             /\ Own!Enqueue("release", s)
    <3>1. /\ retire'[s] = "release" /\ inits'[s] = "ok" /\ ~Own!HasWork(s)'
          /\ \A r \in Sessions : r # s => retire'[r] = retire[r]
      BY <1>1, <2>1, <2>2 DEF Own!Flushed, Own!HasWork, Own!control, Own!TypeOK
    <3>2. \A r \in Sessions : Awaiting(r) => Awaiting(r)'
      BY <2>1, <3>1 DEF Awaiting, Own!HasWork, Own!control
    <3>3. \A i \in 1 .. Len(chain) : chain[i] # Own!Job("release", s)
      BY <2>1, JobFacts, JobsDiffer DEF JobIsMeant, Awaiting
    <3>4. Awaiting(s)' /\ UNCHANGED <<inits, writing>> /\ state' = state
      BY <2>1, <3>1 DEF Awaiting, Own!control
    <3>5. \A r \in Sessions : retire[r] # "no" => retire'[r] # "no"
      BY <3>1
    <3> QED
      BY <2>2, <3>2, <3>3, <3>4, <3>5, JobAdded DEF OwnersAreMeant
  <2>3. CASE retire' = [retire EXCEPT ![s] = "failed"] /\ UNCHANGED chain
    <3>1. retire'[s] = "failed" /\ \A r \in Sessions : r # s => retire'[r] = retire[r]
      BY <1>1, <2>3 DEF Own!TypeOK
    <3>2. \A r \in Sessions : Awaiting(r) => Awaiting(r)'
      BY <2>1, <3>1 DEF Awaiting, Own!HasWork, Own!control
    <3> QED
      BY <2>1, <2>3, <3>1, <3>2, JobsStay DEF Own!control, Unclaimed
  <2> QED
    BY <1>4, <2>2, <2>3 DEF Own!Flush
<1> QED
  BY <1>2, <1>3, <1>4

LEMMA QuietJobs ==
  ASSUME OwnersAreMeant, OwnershipInv, NEW s \in Sessions,
         Own!Restore(s) \/ Own!Speak(s) \/ Own!Dispose(s)
  PROVE  JobsAreMeant'
<1>1. Own!TypeOK /\ OneAtATime
  BY DEF OwnershipInv
<1>2. CASE Own!Restore(s)
  <2>1. /\ inits[s] = "none" /\ UNCHANGED <<queue, writing, retire>> /\ Len(chain) = 0
        /\ \A r \in Sessions : inits[r] # "pending" /\ inits[r] # "append"
    BY <1>2, RestoreShape
  <2>2. CASE BoundAtOnce(s)
    <3>1. inits'[s] = "ok" /\ (\A r \in Sessions : r # s => inits'[r] = inits[r]) /\ chain' = chain
      BY <1>1, <2>2 DEF BoundAtOnce, Own!TypeOK
    <3>2. \A r \in Sessions : Awaiting(r) => Awaiting(r)'
      BY <2>1, <3>1 DEF Awaiting, Own!HasWork
    <3>3. chain = <<>>
      BY <1>2, RestoreShape
    <3> QED
      BY <2>1, <3>1, <3>2, <3>3, JobsStay
  <2>3. CASE BoundToAppend(s)
    <3>1. inits'[s] = "append" /\ \A r \in Sessions : r # s => inits'[r] = inits[r]
      BY <1>1, <2>3 DEF BoundToAppend, Own!TypeOK
    <3>2. /\ chain' \in Seq(JobSet) /\ Len(chain') = 1 /\ chain'[1] = Own!Job("init", s)
          /\ \A i \in 1 .. Len(chain') : i = 1
      BY <2>3 DEF BoundToAppend
    <3>3. chain'[1].kind = "init" /\ chain'[1].of = s /\ s # NoOne
      BY <3>2 DEF Own!Job, OwnersAreMeant
    <3>5. \A i \in 1 .. Len(chain') : JobIsMeant(i)'
      <4> SUFFICES ASSUME NEW i \in 1 .. Len(chain') PROVE JobIsMeant(i)'
        OBVIOUS
      <4>1. i = 1
        BY <3>2
      <4> QED
        BY <3>1, <3>3, <4>1 DEF JobIsMeant
    <3>6. \A i, j \in 1 .. Len(chain') : i = j /\ ~(i < j)
      BY <3>2
    <3>7. \A r \in Sessions : inits'[r] # "pending" /\ (inits'[r] = "append" => r = s)
      BY <2>1, <3>1
    <3> QED
      BY <3>2, <3>5, <3>6, <3>7, JobsFollow
  <2> QED
    BY <1>2, <2>2, <2>3, RestoreShape
<1>3. CASE Own!Speak(s)
  <2>1. /\ alive[s] = "live" /\ retire[s] = "no"
        /\ UNCHANGED <<state, inits, writing, retire, chain>>
        /\ \A r \in Sessions : r # s => queue'[r] = queue[r]
    BY <1>1, <1>3 DEF Own!Speak, OneAtATime, Own!TypeOK
  <2>2. \A r \in Sessions : Awaiting(r) => Awaiting(r)'
    BY <2>1 DEF Awaiting, Own!HasWork
  <2> QED
    BY <2>1, <2>2, JobsStay DEF Unclaimed
<1>4. CASE Own!Dispose(s)
  <2>1. /\ retire[s] = "no" /\ UNCHANGED <<state, Own!control, chain>>
        /\ \A r \in Sessions : r # s => retire'[r] = retire[r]
    BY <1>1, <1>4 DEF Own!Dispose, OneAtATime, Own!TypeOK
  <2>2. \A r \in Sessions : Awaiting(r) => Awaiting(r)'
    BY <2>1 DEF Awaiting, Own!HasWork, Own!control
  <2> QED
    BY <2>1, <2>2, JobsStay DEF Unclaimed, Own!control
<1> QED
  BY <1>2, <1>3, <1>4

LEMMA JobsStep == ASSUME OwnersAreMeant, OwnershipInv, [Own!Next]_(Own!vars) PROVE JobsAreMeant'
<1>1. Own!TypeOK /\ OneAtATime
  BY DEF OwnershipInv
<1>2. ASSUME NEW k \in {"create", "load"}, Own!Call(k) PROVE JobsAreMeant'
  <2>1. /\ ~state.tracked /\ Own!Enqueue(k, NoOne)
        /\ UNCHANGED <<store, torn, state, events, alive, Own!control, retire, plugin, spent>>
    BY <1>2 DEF Own!Call
  <2>2. \A i \in 1 .. Len(chain) : chain[i].of # NoOne /\ chain[i] # Own!Job(k, NoOne)
    BY <1>2, JobFacts, JobsDiffer DEF Own!Call
  <2>3. ASSUME k = "load" PROVE chain = <<>> /\ Unclaimed'
    <3>1. \A s \in Sessions : inits[s] = "none"
      BY <1>2, <2>3 DEF Own!Call
    <3>2. ASSUME NEW i \in 1 .. Len(chain) PROVE FALSE
      <4>1. JobIsMeant(i) /\ chain[i].of \in Sessions
            /\ chain[i].kind \in {"init", "write", "release", "create", "load"}
        BY <2>2, JobFacts
      <4>2. writing[chain[i].of] = <<>>
        BY <3>1, <4>1 DEF OwnershipInv, WorkIsKept
      <4> QED
        BY <3>1, <4>1, <4>2 DEF JobIsMeant, Awaiting, OwnersAreMeant
    <3>3. Len(chain) \in Nat /\ chain \in Seq(JobSet)
      BY JobFacts
    <3>4. Len(chain) = 0
      BY <3>2, <3>3
    <3>5. state.owner = NoOne
      BY <2>1, StateFacts
    <3> QED
      BY <2>1, <3>1, <3>3, <3>4, <3>5, EmptySeq DEF Unclaimed, Own!control
  <2>4. \A r \in Sessions : Awaiting(r) => Awaiting(r)'
    BY <2>1 DEF Awaiting, Own!HasWork, Own!control
  <2> QED
    BY <2>1, <2>2, <2>3, <2>4, JobAdded DEF Own!control
<1>3. CASE Own!RunCall
  <2>1. /\ chain # <<>> /\ chain[1].of = NoOne /\ Own!Done
        /\ UNCHANGED <<events, alive, Own!control, retire, plugin, spent>>
        /\ CreatesNothing \/ Creates \/ (Loads /\ state.owner = NoOne)
    BY <1>3, CallShape
  <2>2. \A k : \A r \in Sessions : chain[1] # Own!Job(k, r)
    BY <2>1, JobsDiffer DEF OwnersAreMeant
  <2>3. \A r \in Sessions : inits[r] # "append"
    BY <2>2, JobFacts
  <2>4. \A r \in Sessions : Awaiting(r) => Awaiting(r)'
    BY <2>1 DEF Awaiting, Own!HasWork, Own!control
  <2>5. Unclaimed => Unclaimed'
    BY <2>1 DEF CreatesNothing, Creates, Loads, Own!Track, Unclaimed, Own!control
  <2> QED
    BY <2>1, <2>2, <2>3, <2>4, <2>5, JobDone DEF Own!control
<1>4. CASE Own!Unloaded
  <2>1. chain' = <<>> /\ \A s \in Sessions : inits'[s] = "none"
    BY <1>4 DEF Own!Unloaded
  <2> QED
    BY <2>1 DEF JobsAreMeant
<1>5. CASE Own!Load
  <2>1. plugin = "off"
        /\ UNCHANGED <<store, torn, state, events, alive, queue, writing, retire, spent>>
        /\ \A s \in Sessions : inits[s] = "none"
    BY <1>1, <1>5 DEF Own!Load, OneAtATime
  <2>2. CASE Own!NoneLive
    BY <1>5, <2>1, <2>2, JobsStay DEF Own!Load, Awaiting, Own!HasWork, Unclaimed
  <2>3. CASE ~Own!NoneLive
    <3> DEFINE s == CHOOSE s \in Sessions : alive[s] = "live"
    <3>1. s \in Sessions /\ Own!InitFor(s, events[s])
      BY <1>5, <2>3 DEF Own!Load, Own!NoneLive
    <3> HIDE DEF s
    <3> PICK t : t = s
      OBVIOUS
    <3>2. t \in Sessions /\ Own!Enqueue("init", t) /\ inits' = [inits EXCEPT ![t] = "pending"]
      BY <3>1 DEF Own!InitFor
    <3>3. \A r \in Sessions : inits'[r] = IF r = t THEN "pending" ELSE inits[r]
      BY <1>1, <3>2 DEF Own!TypeOK
    <3>4. \A i \in 1 .. Len(chain) : chain[i] # Own!Job("init", t)
      BY <2>1, <3>2, JobFacts, JobsDiffer DEF JobIsMeant
    <3>5. \A r \in Sessions : ~Awaiting(r)
      BY <2>1 DEF Awaiting
    <3> QED
      BY <2>1, <3>2, <3>3, <3>4, <3>5, JobAdded DEF OwnersAreMeant
  <2> QED
    BY <2>2, <2>3
<1>6. CASE UNCHANGED <<state, Own!control, retire, chain>>
  BY <1>6, JobsStay DEF Own!control, Awaiting, Own!HasWork, Unclaimed
<1> QED
  BY <1>2, <1>3, <1>4, <1>5, <1>6, InitJobs, RunJobs, SessionJobs, QuietJobs
     DEF Own!Next, Own!Chain, Own!Unload, Own!vars

---------------------------------------------------------------------------
(* What is let go is stored, and stays.                                    *)

LEMMA StoreGrows ==
  ASSUME OwnersAreMeant, OwnershipInv, [Own!Next]_(Own!vars)
  PROVE  store' \in Seq(Own!Writers) /\ Own!Prefix(store, store')
<1>1. store \in Seq(Own!Writers) /\ store' \in Seq(Own!Writers)
  BY OwnershipTypeStep, StateFacts DEF Own!TypeOK
<1>2. store' = store => Own!Prefix(store, store')
  <2>1. Own!Prefix(store, store)
    BY <1>1, PrefixItself
  <2> QED
    BY <2>1, Zenon
<1>3. CASE Own!RunCall
  <2> DEFINE a == Append(store, Repair)
  <2>1. Own!Prefix(store, a) /\ a \in Seq(Own!Writers)
    BY <1>1, PrefixItself, PrefixAppend, AppendFacts DEF Own!Writers
  <2>2. store' = store \/ store' = a
    BY <1>3, CallShape DEF CreatesNothing, Creates, Loads
  <2> HIDE DEF a
  <2>3. CASE store' = store
    BY <1>1, <1>2, <2>3
  <2>4. CASE store' = a
    <3>1. Len(store) <= Len(a) /\ \A i \in 1 .. Len(store) : store[i] = a[i]
      BY <1>1, <2>1, PrefixMeans
    <3> QED
      BY <1>1, <2>4, <3>1, PrefixMeans
  <2> QED
    BY <2>2, <2>3, <2>4
<1>4. ASSUME NEW s \in Sessions, Own!RunInit(s) PROVE Own!Prefix(store, store')
  BY <1>2, <1>4, InitShape
<1>5. ASSUME NEW s \in Sessions, Own!InitAppends(s) PROVE Own!Prefix(store, store')
  BY <1>2, <1>5, AppendShape DEF AppendsAll
<1>6. ASSUME NEW s \in Sessions, Own!RunWrite(s) PROVE Own!Prefix(store, store')
  BY <1>2, <1>6, WriteShape DEF Written, PutBack
<1>7. CASE store' = store
  BY <1>1, <1>2, <1>7
<1> QED
  BY <1>1, <1>3, <1>4, <1>5, <1>6, <1>7
     DEF Own!Next, Own!Chain, Own!vars, Own!Create, Own!Restore, Own!Speak, Own!Dispose,
         Own!StartWrite, Own!Flush, Own!Call, Own!Release,
         Own!Unload, Own!Unloaded, Own!Load

LEMMA ReleaseStores ==
  ASSUME OwnersAreMeant, OwnershipInv, NEW s \in Sessions, Own!Release(s)
  PROVE  Own!Prefix(events[s], store)
<1>1. retire[s] = "release" /\ inits[s] = "ok" /\ ~Own!HasWork(s)
  BY ReleaseShape
<1>2. events[s] \in Seq(Own!Writers) /\ store \in Seq(Own!Writers)
  BY StateFacts
<1>3. CASE state.owner = s
  <2>1. state.cursor = Len(store) /\ Own!Prefix(store, events[s]) /\ WorkFrom(s, state.cursor)
    BY <1>1, <1>3 DEF OwnershipInv, Own!OwnerContinuesLog, WorkIsKept, OwnersAreMeant
  <2>2. Len(store) + Len(writing[s]) + Len(queue[s]) = Len(events[s])
    BY <1>1, <2>1 DEF WorkFrom
  <2>3. Len(writing[s]) = 0 /\ Len(queue[s]) = 0
    BY <1>1, EmptySeq DEF Own!HasWork
  <2>4. Len(store) = Len(events[s])
    BY <1>2, <2>2, <2>3
  <2> QED
    BY <1>2, <2>1, <2>4, PrefixMeans
<1>4. CASE state.owner # s
  <2>1. events[s] = <<>>
    BY <1>1, <1>4 DEF OwnershipInv, OwnerIsBound
  <2> QED
    BY <1>2, <2>1, PrefixEmpty
<1> QED
  BY <1>3, <1>4

LEMMA ReleasedStep == ASSUME OwnersAreMeant, OwnershipInv, [Own!Next]_(Own!vars)
  PROVE Own!ReleasedIsStored'
<1> SUFFICES ASSUME NEW r \in Sessions, retire'[r] = "done" PROVE Own!Prefix(events'[r], store')
  BY DEF Own!ReleasedIsStored
<1>1. Own!TypeOK /\ OneAtATime
  BY DEF OwnershipInv
<1>2. /\ store \in Seq(Own!Writers) /\ store' \in Seq(Own!Writers) /\ Own!Prefix(store, store')
      /\ events[r] \in Seq(Own!Writers)
  BY StoreGrows, StateFacts
<1>3. CASE retire[r] = "done"
  <2>1. alive[r] = "gone"
    BY <1>1, <1>3 DEF OneAtATime
  <2>2. events'[r] = events[r]
    <3>1. events \in [Sessions -> Seq(Own!Writers)]
      BY <1>1 DEF Own!TypeOK
    <3>2. ASSUME NEW s \in Sessions, Own!Create(s) \/ Own!Restore(s) \/ Own!Speak(s)
          PROVE events'[r] = events[r]
      BY <2>1, <3>1, <3>2 DEF Own!Create, Own!Restore, Own!Speak
    <3>3. CASE UNCHANGED events
      BY <3>3
    <3>4. ASSUME NEW s \in Sessions,
                 Own!Dispose(s) \/ Own!StartWrite(s) \/ Own!Flush(s) \/ Own!RunInit(s)
                 \/ Own!InitAppends(s) \/ Own!RunWrite(s) \/ Own!Release(s)
          PROVE  events'[r] = events[r]
      BY <3>4, InitMoves, WriteShape DEF Own!Dispose, Own!StartWrite, Own!Flush, Own!Release
    <3> QED
      BY <3>2, <3>3, <3>4, CallShape DEF Own!Next, Own!Chain, Own!vars, Own!Call, Own!Unload,
         Own!Unloaded, Own!Load
  <2>3. Own!Prefix(events[r], store)
    BY <1>3 DEF OwnershipInv, Own!ReleasedIsStored
  <2> QED
    BY <1>2, <2>2, <2>3, PrefixTransitive
<1>4. CASE retire[r] # "done"
  <2>1. retire \in [Sessions -> {"no", "flush", "release", "done", "failed"}]
    BY <1>1 DEF Own!TypeOK
  <2>2. ASSUME NEW s \in Sessions,
               Own!Create(s) \/ Own!Restore(s) \/ Own!Speak(s) \/ Own!Dispose(s) \/ Own!StartWrite(s) \/ Own!Flush(s)
        PROVE  FALSE
    BY <1>4, <2>1, <2>2 DEF Own!Create, Own!Restore, Own!Speak, Own!Dispose, Own!StartWrite,
       Own!Flush
  <2>3. ASSUME NEW s \in Sessions, Own!RunInit(s) \/ Own!InitAppends(s) PROVE FALSE
    BY <1>4, <2>3, InitMoves
  <2>4. ASSUME NEW s \in Sessions, Own!RunWrite(s) PROVE FALSE
    BY <1>4, <2>1, <2>4, WriteShape DEF Written, PutBack
  <2>5. ASSUME NEW s \in Sessions, Own!Release(s) PROVE s = r
    BY <1>4, <2>1, <2>5 DEF Own!Release
  <2>6. ASSUME Own!RunCall PROVE FALSE
    BY <1>4, <2>6, CallShape
  <2>7. ASSUME Own!Unloaded PROVE FALSE
    BY <1>4, <2>7 DEF Own!Unloaded
  <2>8. ASSUME retire' = retire PROVE FALSE
    BY <1>4, <2>8
  <2>9. \E s \in Sessions : Own!Release(s)
    <3>1. ASSUME NEW k \in {"create", "load"}, Own!Call(k) PROVE FALSE
      BY <2>8, <3>1 DEF Own!Call
    <3>2. Own!Unload \/ Own!Load \/ UNCHANGED Own!vars => FALSE
      BY <2>8 DEF Own!Unload, Own!Load, Own!vars
    <3> QED
      BY <2>2, <2>3, <2>4, <2>6, <2>7, <3>1, <3>2 DEF Own!Next, Own!Chain
  <2>10. Own!Release(r)
    BY <2>5, <2>9
  <2>11. UNCHANGED <<events, store>>
    BY <2>10 DEF Own!Release
  <2> QED
    BY <2>10, <2>11, ReleaseStores
<1> QED
  BY <1>3, <1>4
---------------------------------------------------------------------------
(* The theorems.                                                           *)

LEMMA OwnershipInit == ASSUME OwnersAreMeant, Own!Init PROVE OwnershipInv
<1>1. /\ store \in Seq(Own!Writers) /\ Len(store) \in {0, 1} /\ torn \in BOOLEAN /\ state = Own!Untracked
      /\ MaxOwned + 1 \in Nat /\ 1 <= MaxOwned + 1
  <2>1. Repair \in Own!Writers /\ <<>> \in Seq(Own!Writers)
    BY EmptySeq DEF Own!Writers
  <2>2. <<Repair>> \in Seq(Own!Writers) /\ Len(<<Repair>>) = 1 /\ Len(<<>>) = 0
    BY <2>1
  <2>3. (store = <<>> \/ store = <<Repair>>) /\ torn \in BOOLEAN /\ state = Own!Untracked
    BY DEF Own!Init
  <2>4. MaxOwned + 1 \in Nat /\ 1 <= MaxOwned + 1
    BY DEF OwnersAreMeant
  <2>5. store \in Seq(Own!Writers) /\ Len(store) \in {0, 1}
    <3>1. CASE store = <<>>
      BY <2>1, <3>1
    <3>2. CASE store = <<Repair>>
      BY <2>2, <3>2
    <3> QED
      BY <2>3, <3>1, <3>2
  <2> QED
    BY <2>3, <2>4, <2>5
<1>2. /\ events \in [Sessions -> Seq(Own!Writers)] /\ \A s \in Sessions : Len(events[s]) = 0
      /\ queue \in [Sessions -> Seq(Own!Indices)] /\ writing \in [Sessions -> Seq(Own!Indices)]
      /\ chain \in Seq([kind : {"init", "write", "release", "create", "load"}, of : Sessions \cup {NoOne}])
      /\ chain = <<>>
  BY EmptySeq DEF Own!Init
<1>3. Own!Untracked \in [tracked : BOOLEAN, owner : Sessions \cup {NoOne}, cursor : 0 .. MaxOwned + 1,
                     materialized : BOOLEAN]
  BY <1>1 DEF Own!Untracked
<1>4. /\ seeds \in [Sessions -> 0 .. MaxOwned + 1]
      /\ spent \in [reloads : 0 .. MaxReloads, fails : 0 .. MaxFails]
  BY <1>1 DEF Own!Init, OwnersAreMeant
<1>5. Own!TypeOK
  BY <1>1, <1>2, <1>3, <1>4 DEF Own!Init, Own!TypeOK
<1>6. StateIsStored
  <2>1. ~state.tracked
    BY <1>1 DEF Own!Untracked
  <2>2. Len(store) <= MaxOwned + 1
    <3>1. \A n \in {0, 1}, m \in Nat : 1 <= m => n <= m
      OBVIOUS
    <3> QED
      BY <1>1, <3>1
  <2> QED
    BY <1>1, <2>1, <2>2 DEF StateIsStored
<1>7. OneAtATime /\ Succession /\ OwnerIsBound
  BY <1>1, <1>2 DEF Own!Init, OneAtATime, Succession, OwnerIsBound, Bound, Own!Untracked,
     OwnersAreMeant
<1>8. JobsAreMeant
  <2>1. DOMAIN chain = {}
    BY <1>2
  <2> QED
    BY <2>1 DEF Own!Init, JobsAreMeant
<1>9. WorkIsKept
  BY <1>1 DEF Own!Init, WorkIsKept, Own!HasWork
<1>10. Own!OwnerContinuesLog /\ Own!ReleasedIsStored
  BY <1>1 DEF Own!Init, Own!OwnerContinuesLog, Own!ReleasedIsStored, Own!Untracked
<1> QED
  BY <1>5, <1>6, <1>7, <1>8, <1>9, <1>10 DEF OwnershipInv

LEMMA OwnershipStep == ASSUME OwnersAreMeant, OwnershipInv, [Own!Next]_(Own!vars)
  PROVE OwnershipInv'
BY OwnershipTypeStep, StoredStep, OneStep, SuccessionStep, JobsStep, WorkStep, OwnerStep, LogStep,
   ReleasedStep DEF OwnershipInv

LEMMA OwnershipInductive == ASSUME OwnersAreMeant PROVE Own!Spec => []OwnershipInv
<1>1. Own!Init => OwnershipInv
  BY OwnershipInit
<1>2. OwnershipInv /\ [Own!Next]_(Own!vars) => OwnershipInv'
  BY OwnershipStep
<1> QED
  BY <1>1, <1>2, PTL DEF Own!Spec

LEMMA WritersFind == ASSUME OwnersAreMeant, OwnershipInv PROVE Own!WriterOwns
<1> SUFFICES ASSUME Own!Runs("write") PROVE state.owner = Head(chain).of
  BY DEF Own!WriterOwns
<1>1. chain # <<>> /\ Len(chain) > 0 /\ Head(chain) = chain[1] /\ chain[1].kind = "write"
  BY HeadRuns DEF OwnershipInv
<1>2. JobIsMeant(1) /\ chain[1].of \in Sessions \cup {NoOne}
  BY <1>1, JobFacts
<1>3. chain[1].of \in Sessions /\ writing[chain[1].of] # <<>>
  BY <1>1, <1>2 DEF JobIsMeant
<1> QED
  BY <1>1, <1>3, WriteFinds

(* Every variable keeps its type, and the cursor, the seeds and the        *)
(* batches stay within the log.                                            *)
THEOREM OwnershipIsTyped == ASSUME OwnersAreMeant PROVE Own!Spec => []Own!TypeOK
<1>1. OwnershipInv => Own!TypeOK
  BY DEF OwnershipInv
<1> QED
  BY <1>1, OwnershipInductive, PTL

(* What is stored under an id that a session owns is the beginning of that *)
(* session's log: whichever way the session came to own it, no session     *)
(* continues another's log.                                                *)
THEOREM OwnersKeepTheirLog == ASSUME OwnersAreMeant PROVE Own!Spec => []Own!OwnerContinuesLog
<1>1. OwnershipInv => Own!OwnerContinuesLog
  BY DEF OwnershipInv
<1> QED
  BY <1>1, OwnershipInductive, PTL

(* A write that runs finds the id owned by the session it writes for: no   *)
(* later session, reload or call came between its start and its job.       *)
THEOREM WritersOwn == ASSUME OwnersAreMeant PROVE Own!Spec => []Own!WriterOwns
<1>1. OwnershipInv => Own!WriterOwns
  BY WritersFind
<1> QED
  BY <1>1, OwnershipInductive, PTL

(* Of a session that was let go in order everything it said is stored, and *)
(* stays stored whatever happens to the id after.                          *)
THEOREM ReleasedAreStored == ASSUME OwnersAreMeant PROVE Own!Spec => []Own!ReleasedIsStored
<1>1. OwnershipInv => Own!ReleasedIsStored
  BY DEF OwnershipInv
<1> QED
  BY <1>1, OwnershipInductive, PTL

LEMMA FailedStaysSilent ==
  ASSUME OwnersAreMeant, OwnershipInv, [Own!Next]_(Own!vars), state.owner # NoOne,
         inits[state.owner] = "failed"
  PROVE  store' = store
<1>1. ASSUME NEW s \in Sessions, Own!InitAppends(s) PROVE FALSE
  BY <1>1, AppendShape
<1>2. ASSUME NEW s \in Sessions, Own!RunWrite(s) PROVE FALSE
  BY <1>2, WriteShape, WriteFinds
<1>3. ASSUME NEW s \in Sessions, Own!RunInit(s) PROVE store' = store
  BY <1>3, InitShape
<1>4. CASE Own!RunCall
  BY <1>4, CallShape DEF CreatesNothing, Creates
<1>5. CASE store' = store
  BY <1>5
<1> QED
  BY <1>1, <1>2, <1>3, <1>4, <1>5
     DEF Own!Next, Own!Chain, Own!vars, Own!Create, Own!Restore, Own!Speak, Own!Dispose,
         Own!StartWrite, Own!Flush, Own!Call, Own!Release,
         Own!Unload, Own!Unloaded, Own!Load

(* Under an owner whose initialisation failed nothing is stored.           *)
THEOREM FailedStoresNothing == ASSUME OwnersAreMeant PROVE Own!Spec => Own!FailedIsSilent
<1>1. OwnershipInv /\ [Own!Next]_(Own!vars) =>
        [state.owner # NoOne /\ inits[state.owner] = "failed" => store' = store]_(Own!vars)
  BY FailedStaysSilent
<1> QED
  BY <1>1, OwnershipInductive, PTL DEF Own!Spec, Own!FailedIsSilent

-------------------------------------------------------------------------

---------------------------------------------------------------------------
(* What the run of the coordinator checks about who owns an id.            *)

(* A behaviour of MCPersistence is one of SessionOwnership.                *)
LEMMA OwnershipBehaves == MCSpec => Own!Spec
<1>1. MCInit => Own!Init
  BY DEF MCInit
<1>2. [MCNext]_<<protocol, vars, ownership>> => [Own!Next]_(Own!vars)
  BY DEF MCNext, ownership, Own!vars, Own!control
<1> QED
  BY <1>1, <1>2, PTL DEF MCSpec, Own!Spec

(* No session continues another's log, in every behaviour the run of the   *)
(* coordinator looks at.                                                   *)
THEOREM OwnerKeepsItsLog == ASSUME OwnersAreMeant PROVE MCSpec => []OwnerContinuesLog
<1>1. Own!Spec => []Own!OwnerContinuesLog
  BY OwnersKeepTheirLog
<1>2. Own!OwnerContinuesLog => OwnerContinuesLog
  BY DEF OwnerContinuesLog
<1> QED
  BY <1>1, <1>2, OwnershipBehaves, PTL

(* A write finds its own session's state, and what was let go in order is  *)
(* stored.                                                                 *)
THEOREM OwnershipStaysSound == ASSUME OwnersAreMeant PROVE MCSpec => []OwnershipIsSound
<1>1. Own!Spec => []Own!TypeOK
  BY OwnershipIsTyped
<1>2. Own!Spec => []Own!WriterOwns
  BY WritersOwn
<1>3. Own!Spec => []Own!ReleasedIsStored
  BY ReleasedAreStored
<1>4. Own!TypeOK /\ Own!WriterOwns /\ Own!ReleasedIsStored => OwnershipIsSound
  BY DEF OwnershipIsSound
<1> QED
  BY <1>1, <1>2, <1>3, <1>4, OwnershipBehaves, PTL
=============================================================================
