------------------------- MODULE AgentDriverProofs -------------------------
(***************************************************************************)
(* AgentDriver, for every set of messages and of causes and every bound:   *)
(* types, the places of its messages, and the invariant of its wakes, by   *)
(* which no wake is stranded, drivers exclude one another and the log of   *)
(* an idle agent is balanced.  Then GoalRounds, for any number of calls,   *)
(* prompts, rounds and loops, and Schedule, for any rules, calls, turns,   *)
(* failures, lives and any clock, as MCAgent instantiates them; at the     *)
(* end, what its run checks of them.                                       *)
(***************************************************************************)
EXTENDS MCAgent, Integers, SequenceTheorems, FiniteSetTheorems, WellFoundedInduction,
        NaturalsInduction, TLAPS

(* The driver stops at agent/turn-stopping only with an ending to log.     *)
StoppingHasEnd == pc = "stopping" => turnEnds # "null"

---------------------------------------------------------------------------
(* Pushing a frame keeps the frames below it and puts the new one on top.  *)
LEMMA PushFrame ==
  ASSUME NEW S, NEW s \in Seq(S), NEW f \in S
  PROVE  /\ Append(s, f) \in Seq(S)
         /\ DOMAIN Append(s, f) = DOMAIN s \cup {Len(s) + 1}
         /\ DOMAIN s = 1..Len(s)
         /\ \A i \in DOMAIN s : Append(s, f)[i] = s[i]
         /\ Append(s, f)[Len(s) + 1] = f
  OBVIOUS

(* Popping the top frame keeps the others.                                 *)
LEMMA PopFrame ==
  ASSUME NEW S, NEW s \in Seq(S), s # <<>>
  PROVE  /\ SubSeq(s, 1, Len(s) - 1) \in Seq(S)
         /\ s[Len(s)] \in S
         /\ Len(s) \in DOMAIN s
         /\ DOMAIN SubSeq(s, 1, Len(s) - 1) = DOMAIN s \ {Len(s)}
         /\ \A i \in DOMAIN SubSeq(s, 1, Len(s) - 1) : SubSeq(s, 1, Len(s) - 1)[i] = s[i]
  OBVIOUS

(* Removing one element of a sequence leaves a sequence of the others.     *)
LEMMA RemoveAtSeq ==
  ASSUME NEW S, NEW s \in Seq(S), NEW i \in DOMAIN s
  PROVE  /\ RemoveAt(s, i) \in Seq(S)
         /\ ToSet(RemoveAt(s, i)) \subseteq ToSet(s)
         /\ ToSet(s) \subseteq ToSet(RemoveAt(s, i)) \cup {s[i]}
         /\ DOMAIN RemoveAt(s, i) = 1..(Len(s) - 1) /\ i \in 1..Len(s) /\ Len(s) \in Nat
         /\ \A j \in 1..(i - 1) : RemoveAt(s, i)[j] = s[j]
         /\ \A j \in i..(Len(s) - 1) : RemoveAt(s, i)[j] = s[j + 1]
  <1> DEFINE n == Len(s)
             a == SubSeq(s, 1, i - 1)
             b == SubSeq(s, i + 1, n)
             r == RemoveAt(s, i)
  <1>1. /\ n \in Nat /\ i \in Nat /\ 1 <= i /\ i <= n
        /\ DOMAIN s = 1..n
    OBVIOUS
  <1>2. /\ a \in Seq(S) /\ Len(a) = i - 1
        /\ \A j \in 1..(i - 1) : a[j] = s[j]
    BY <1>1
  <1>3. /\ b \in Seq(S) /\ Len(b) = n - i
        /\ \A j \in 1..(n - i) : b[j] = s[i + j]
    BY <1>1
  <1>4. r = a \o b
    BY DEF RemoveAt
  <1> HIDE DEF n, a, b, r
  <1>5. /\ r \in Seq(S) /\ Len(r) = (i - 1) + (n - i)
        /\ \A j \in 1..((i - 1) + (n - i)) : r[j] = IF j <= i - 1 THEN a[j] ELSE b[j - (i - 1)]
    BY <1>2, <1>3, <1>4, ConcatProperties
  <1>6. DOMAIN r = 1..(n - 1)
    BY <1>1, <1>5
  <1>7. /\ \A j \in 1..(i - 1) : r[j] = s[j]
        /\ \A j \in i..(n - 1) : r[j] = s[j + 1]
    <2>1. ASSUME NEW j \in 1..(i - 1) PROVE r[j] = s[j]
      BY <1>1, <1>2, <1>5
    <2>2. ASSUME NEW j \in i..(n - 1) PROVE r[j] = s[j + 1]
      <3>1. j \in Int /\ i <= j /\ j <= n - 1
        BY <1>1
      <3>2. j \in 1..((i - 1) + (n - i)) /\ ~(j <= i - 1) /\ j - (i - 1) \in 1..(n - i)
        BY <1>1, <3>1
      <3>3. r[j] = b[j - (i - 1)]
        BY <1>5, <3>2
      <3>4. i + (j - (i - 1)) = j + 1
        BY <1>1, <3>1
      <3>5. QED
        BY <1>3, <3>2, <3>3, <3>4
    <2>3. QED
      BY <2>1, <2>2
  <1>8. ASSUME NEW j \in DOMAIN r
        PROVE  r[j] \in ToSet(s)
    <2>1. CASE j < i
      <3>1. j \in 1..(i - 1) /\ j \in DOMAIN s
        BY <1>1, <1>6, <2>1
      <3>2. QED
        BY <1>7, <3>1 DEF ToSet
    <2>2. CASE ~(j < i)
      <3>1. j \in i..(n - 1) /\ j + 1 \in DOMAIN s
        BY <1>1, <1>6, <2>2
      <3>2. QED
        BY <1>7, <3>1 DEF ToSet
    <2>3. QED
      BY <2>1, <2>2
  <1>9. ASSUME NEW j \in DOMAIN s
        PROVE  s[j] \in ToSet(r) \cup {s[i]}
    <2>1. CASE j < i
      <3>1. j \in 1..(i - 1) /\ j \in DOMAIN r
        BY <1>1, <1>6, <2>1
      <3>2. QED
        BY <1>7, <3>1 DEF ToSet
    <2>2. CASE j = i
      BY <2>2
    <2>3. CASE j > i
      <3>1. j - 1 \in i..(n - 1) /\ j - 1 \in DOMAIN r /\ (j - 1) + 1 = j
        BY <1>1, <1>6, <2>3
      <3>2. r[j - 1] = s[j]
        BY <1>7, <3>1
      <3>3. QED
        BY <3>1, <3>2 DEF ToSet
    <2>4. QED
      BY <1>1, <1>6, <2>1, <2>2, <2>3
  <1>10. ToSet(r) \subseteq ToSet(s) /\ ToSet(s) \subseteq ToSet(r) \cup {s[i]}
    <2>1. ToSet(r) \subseteq ToSet(s)
      BY <1>8 DEF ToSet
    <2>2. ToSet(s) \subseteq ToSet(r) \cup {s[i]}
      BY <1>9 DEF ToSet
    <2>3. QED
      BY <2>1, <2>2
  <1>11. QED
    BY <1>1, <1>5, <1>6, <1>7, <1>10 DEF r, n

(* The frames the operations push are frames.                              *)
LEMMA FrameTypes ==
  /\ \A b \in BOOLEAN : WakeFrame(b) \in Frame /\ ReplayFrame(b) \in Frame
  /\ \A c \in Causes : ClearFrame(c) \in Frame /\ AbortFrame(c) \in Frame
  /\ \A c \in Causes \cup {"none"} : ClearFrame(c) \in Frame /\ AbortFrame(c) \in Frame
  /\ KickFrame \in Frame
  BY DEF Frame, WakeFrame, ReplayFrame, ClearFrame, AbortFrame, KickFrame

(* A group of variables left alone keeps its types.                        *)
LEMMA SameTypes ==
  /\ PhaseTypes /\ UNCHANGED phaseVars => PhaseTypes'
  /\ InboxTypes /\ UNCHANGED inboxVars => InboxTypes'
  /\ TurnTypes /\ UNCHANGED turnVars => TurnTypes'
  /\ LogTypes /\ UNCHANGED logVars => LogTypes'
  /\ WaitTypes /\ UNCHANGED <<idleVars, stack, owed, disposing>> => WaitTypes'
  <1>1. PhaseTypes /\ UNCHANGED phaseVars => PhaseTypes'
    BY DEF PhaseTypes, phaseVars
  <1>2. InboxTypes /\ UNCHANGED inboxVars => InboxTypes'
    BY DEF InboxTypes, inboxVars
  <1>3. TurnTypes /\ UNCHANGED turnVars => TurnTypes'
    BY DEF TurnTypes, turnVars
  <1>4. LogTypes /\ UNCHANGED logVars => LogTypes'
    BY DEF LogTypes, logVars
  <1>5. WaitTypes /\ UNCHANGED <<idleVars, stack, owed, disposing>> => WaitTypes'
    BY DEF WaitTypes, idleVars
  <1>6. QED
    BY <1>1, <1>2, <1>3, <1>4, <1>5

(* What a frame on top of the stack carries.                               *)
LEMMA TopTypes ==
  ASSUME WaitTypes, stack # <<>>
  PROVE  Top.flag \in BOOLEAN /\ Top.cause \in Causes \cup {"none"} /\ Below \in Seq(Frame)
  <1>1. Top \in Frame /\ Below \in Seq(Frame)
    BY PopFrame DEF WaitTypes, Top, Below
  <1>2. QED
    BY <1>1 DEF Frame

(* What the inbox holds is messages.                                       *)
LEMMA PendingTypes ==
  ASSUME InboxTypes
  PROVE  /\ ToSet(nextTurn) \in SUBSET Messages /\ ToSet(nextStep) \in SUBSET Messages
         /\ Pending \in SUBSET Messages
  BY DEF InboxTypes, Pending, ToSet

LEMMA ReserveTypes ==
  ASSUME TypeOK, NEW rest \in Seq(Frame), ReserveDriver(rest), disposing' \in BOOLEAN
  PROVE  PhaseTypes' /\ WaitTypes'
  <1> USE DEF TypeOK, ReserveDriver
  <1>1. PhaseTypes'
    BY CausesAssumption DEF PhaseTypes
  <1>2. Append(rest, KickFrame) \in Seq(Frame)
    BY PushFrame, FrameTypes
  <1>3. WaitTypes'
    BY <1>2, PendingTypes DEF WaitTypes, StartActivity
  <1>4. QED
    BY <1>1, <1>3

LEMMA WakeDriverTypes ==
  ASSUME TypeOK, NEW after \in BOOLEAN, NEW rest \in Seq(Frame), WakeDriver(after, rest),
         UNCHANGED <<inboxVars, turnVars, logVars>>, disposing' \in BOOLEAN
  PROVE  TypeOK'
  <1> USE DEF TypeOK
  <1>1. CASE ReserveDriver(rest)
    BY <1>1, ReserveTypes, SameTypes
  <1>2. CASE LatchWake(after, rest)
    <2>1. PhaseTypes'
      BY <1>2 DEF PhaseTypes, LatchWake, MustLatch
    <2>2. WaitTypes'
      BY <1>2, PendingTypes DEF WaitTypes, LatchWake, idleVars
    <2>3. QED
      BY <2>1, <2>2, SameTypes
  <1>3. QED
    BY <1>1, <1>2 DEF WakeDriver

LEMMA ClaimTypes ==
  ASSUME InboxTypes, WaitTypes, NEW t, Claim(t)
  PROVE  /\ batch' \in SUBSET Messages
         /\ nextStep' \in Seq(Messages) /\ nextTurn' \in Seq(Messages)
         /\ owed' \in SUBSET Messages
  <1>1. nextTurn # <<>> => Head(nextTurn) \in Messages /\ Tail(nextTurn) \in Seq(Messages)
    BY DEF InboxTypes
  <1>2. Claimed(t) \in SUBSET Messages
    BY <1>1, PendingTypes DEF Claimed
  <1>3. QED
    BY <1>1, <1>2 DEF Claim, InboxTypes, WaitTypes

LEMMA ClearTypes ==
  ASSUME TypeOK, NEW c \in Causes \cup {"none"}, NEW rest \in Seq(Frame), ClearTurnList(c, rest),
         UNCHANGED <<phase, phaseTurn, stepNo, nextStep, unsent, turnVars, logVars, idleVars>>
  PROVE  TypeOK'
  <1> USE DEF TypeOK
  <1>1. Append(rest, AbortFrame(c)) \in Seq(Frame)
    BY PushFrame, FrameTypes
  <1>2. PhaseTypes'
    <2>1. CASE nextTurn # <<>>
      BY <2>1, SameTypes DEF ClearTurnList, phaseVars
    <2>2. CASE nextTurn = <<>>
      <3>1. latch' = FALSE /\ abort' \in {abort, c}
        BY <2>2 DEF ClearTurnList, FinishCancel, AbortPhase
      <3>2. QED
        BY <3>1 DEF PhaseTypes
    <2>3. QED
      BY <2>1, <2>2
  <1>3. InboxTypes'
    <2>1. nextTurn' \in {nextTurn, <<>>} /\ UNCHANGED <<nextStep, unsent>>
      BY DEF ClearTurnList
    <2>2. QED
      BY <2>1, EmptySeq DEF InboxTypes
  <1>4. TurnTypes'
    BY SameTypes
  <1>5. LogTypes'
    BY SameTypes
  <1>6. WaitTypes'
    BY <1>1 DEF ClearTurnList, FinishCancel, WaitTypes, idleVars
  <1>7. QED
    BY <1>2, <1>3, <1>4, <1>5, <1>6

LEMMA ClientTypes ==
  ASSUME TypeOK, Client
  PROVE  TypeOK'
  <1> USE DEF TypeOK
  <1>1. ASSUME NEW m \in Messages, NEW t \in {"next-turn", "next-step"}, SendWaking(m, t)
        PROVE  TypeOK'
    <2>0. Append(nextTurn, m) \in Seq(Messages) /\ Append(nextStep, m) \in Seq(Messages)
      BY PushFrame DEF InboxTypes
    <2>1. PhaseTypes'
      BY <1>1, SameTypes DEF SendWaking
    <2>2. InboxTypes'
      BY <1>1, <2>0 DEF SendWaking, InsertLast, InboxTypes
    <2>3. TurnTypes'
      BY <1>1, SameTypes DEF SendWaking
    <2>4. LogTypes'
      BY <1>1, SameTypes DEF SendWaking
    <2>5. WaitTypes'
      BY <1>1, PushFrame, FrameTypes DEF SendWaking, wakingAfterAbort, WaitTypes, idleVars
    <2>6. QED
      BY <2>1, <2>2, <2>3, <2>4, <2>5
  <1>2. ASSUME NEW m \in Messages, NEW t \in {"next-turn", "next-step"}, SendQuiet(m, t)
        PROVE  TypeOK'
    <2>0. Append(nextTurn, m) \in Seq(Messages) /\ Append(nextStep, m) \in Seq(Messages)
      BY PushFrame DEF InboxTypes
    <2>1. PhaseTypes'
      BY <1>2, SameTypes DEF SendQuiet
    <2>2. InboxTypes'
      BY <1>2, <2>0 DEF SendQuiet, InsertLast, InboxTypes
    <2>3. TurnTypes'
      BY <1>2, SameTypes DEF SendQuiet
    <2>4. LogTypes'
      BY <1>2, SameTypes DEF SendQuiet
    <2>5. WaitTypes'
      BY <1>2, SameTypes DEF SendQuiet
    <2>6. QED
      BY <2>1, <2>2, <2>3, <2>4, <2>5
  <1>3. ASSUME NEW m \in Messages, PrependStep(m)
        PROVE  TypeOK'
    <2>0. <<m>> \o nextStep \in Seq(Messages)
      BY ConcatProperties DEF InboxTypes
    <2>1. PhaseTypes'
      BY <1>3, SameTypes DEF PrependStep
    <2>2. InboxTypes'
      BY <1>3, <2>0 DEF PrependStep, InboxTypes
    <2>3. TurnTypes'
      BY <1>3, SameTypes DEF PrependStep
    <2>4. LogTypes'
      BY <1>3, SameTypes DEF PrependStep
    <2>5. WaitTypes'
      BY <1>3, SameTypes DEF PrependStep
    <2>6. QED
      BY <2>1, <2>2, <2>3, <2>4, <2>5
  <1>4. ASSUME NEW m \in Messages, RemoveMessage(m)
        PROVE  TypeOK'
    <2>0. nextTurn' \in Seq(Messages) /\ nextStep' \in Seq(Messages)
      BY <1>4, RemoveAtSeq DEF InboxTypes, RemoveMessage
    <2>1. PhaseTypes'
      BY <1>4, SameTypes DEF RemoveMessage
    <2>2. InboxTypes'
      BY <1>4, <2>0 DEF RemoveMessage, InboxTypes
    <2>3. TurnTypes'
      BY <1>4, SameTypes DEF RemoveMessage
    <2>4. LogTypes'
      BY <1>4, SameTypes DEF RemoveMessage
    <2>5. WaitTypes'
      BY <1>4 DEF RemoveMessage, WaitTypes, idleVars
    <2>6. QED
      BY <2>1, <2>2, <2>3, <2>4, <2>5
  <1>5. ASSUME NEW m \in Messages, NEW n \in Messages, ReplaceMessage(m, n)
        PROVE  TypeOK'
    <2>0. nextTurn' \in Seq(Messages) /\ nextStep' \in Seq(Messages)
      BY <1>5, ExceptSeq DEF InboxTypes, ReplaceMessage
    <2>1. PhaseTypes'
      BY <1>5, SameTypes DEF ReplaceMessage
    <2>2. InboxTypes'
      BY <1>5, <2>0 DEF ReplaceMessage, InboxTypes
    <2>3. TurnTypes'
      BY <1>5, SameTypes DEF ReplaceMessage
    <2>4. LogTypes'
      BY <1>5, SameTypes DEF ReplaceMessage
    <2>5. WaitTypes'
      BY <1>5 DEF ReplaceMessage, WaitTypes, idleVars
    <2>6. QED
      BY <2>1, <2>2, <2>3, <2>4, <2>5
  <1>6. ASSUME NEW c \in Causes, CancelKeep(c)
        PROVE  TypeOK'
    <2>1. PhaseTypes'
      BY <1>6 DEF CancelKeep, AbortPhase, PhaseTypes
    <2>2. InboxTypes'
      BY <1>6, SameTypes DEF CancelKeep
    <2>3. TurnTypes'
      BY <1>6, SameTypes DEF CancelKeep
    <2>4. LogTypes'
      BY <1>6, SameTypes DEF CancelKeep
    <2>5. WaitTypes'
      BY <1>6 DEF CancelKeep, WaitTypes, idleVars
    <2>6. QED
      BY <2>1, <2>2, <2>3, <2>4, <2>5
  <1>7. ASSUME NEW c \in Causes, CancelAll(c)
        PROVE  TypeOK'
    <2>1. CASE nextStep # <<>>
      <3>0. Append(stack, ClearFrame(c)) \in Seq(Frame)
        BY PushFrame, FrameTypes DEF WaitTypes
      <3>1. PhaseTypes'
        <4>1. UNCHANGED <<abort, latch, phase, phaseTurn, stepNo>>
          BY <1>7, <2>1 DEF CancelAll
        <4>2. QED
          BY <4>1, SameTypes DEF phaseVars
      <3>2. InboxTypes'
        <4>1. nextStep' = <<>> /\ UNCHANGED <<nextTurn, unsent>>
          BY <1>7, <2>1 DEF CancelAll
        <4>2. QED
          BY <4>1, EmptySeq DEF InboxTypes
      <3>3. TurnTypes'
        BY <1>7, <2>1, SameTypes DEF CancelAll
      <3>4. LogTypes'
        BY <1>7, <2>1, SameTypes DEF CancelAll
      <3>5. WaitTypes'
        BY <1>7, <2>1, <3>0 DEF CancelAll, WaitTypes, idleVars
      <3>6. QED
        BY <3>1, <3>2, <3>3, <3>4, <3>5
    <2>2. CASE nextStep = <<>>
      BY <1>7, <2>2, ClearTypes DEF CancelAll, WaitTypes
    <2>3. QED
      BY <2>1, <2>2
  <1>8. CASE BeginMaintenance
    <2>1. PhaseTypes'
      BY <1>8 DEF BeginMaintenance, PhaseTypes
    <2>2. InboxTypes'
      BY <1>8, SameTypes DEF BeginMaintenance
    <2>3. TurnTypes'
      BY <1>8, SameTypes DEF BeginMaintenance
    <2>4. LogTypes'
      BY <1>8, SameTypes DEF BeginMaintenance
    <2>5. WaitTypes'
      BY <1>8 DEF BeginMaintenance, StartActivity, WaitTypes
    <2>6. QED
      BY <2>1, <2>2, <2>3, <2>4, <2>5
  <1>9. CASE AwaitIdle
    <2>1. PhaseTypes'
      BY <1>9, SameTypes DEF AwaitIdle
    <2>2. InboxTypes'
      BY <1>9, SameTypes DEF AwaitIdle
    <2>3. TurnTypes'
      BY <1>9, SameTypes DEF AwaitIdle
    <2>4. LogTypes'
      BY <1>9, SameTypes DEF AwaitIdle
    <2>5. WaitTypes'
      BY <1>9 DEF AwaitIdle, WaitTypes
    <2>6. QED
      BY <2>1, <2>2, <2>3, <2>4, <2>5
  <1>10. QED
    BY <1>1, <1>2, <1>3, <1>4, <1>5, <1>6, <1>7, <1>8, <1>9 DEF Client

(* What the closing events leave of the log's types.                       *)
LEMMA LossesAreClosings == Losses \subseteq SUBSET Closings /\ {} \in Losses
  BY DEF Losses, Closings

LEMMA StepEndTypes ==
  ASSUME LogTypes, NEW lost \in SUBSET Closings, LogStepEnd(lost)
  PROVE  refused' \in SUBSET Closings /\ openStep' \in BOOLEAN
  BY DEF LogTypes, LogStepEnd

LEMMA TurnEndTypes ==
  ASSUME LogTypes, NEW lost \in Losses, NEW reason \in EndReasons, LogTurnEnd(reason, lost)
  PROVE  LogTypes'
  <1>1. refused' \in SUBSET Closings /\ openStep' \in BOOLEAN
    BY LossesAreClosings, StepEndTypes DEF LogTurnEnd
  <1>2. QED
    BY <1>1 DEF LogTurnEnd, LogTypes

LEMMA OpenTurnTypes ==
  ASSUME TypeOK, NEW c \in Causes \cup {"none"}, NEW lost \in Losses, OpenTurn(c, lost),
         UNCHANGED <<phase, latch, stepNo, unsent, idleVars, disposing>>, stack' \in Seq(Frame)
  PROVE  TypeOK'
  <1> USE DEF TypeOK
  <1>0. /\ owed' \in SUBSET Messages /\ batch' \in SUBSET Messages
        /\ nextStep' \in Seq(Messages) /\ nextTurn' \in Seq(Messages)
    BY ClaimTypes DEF OpenTurn, WaitTypes, InboxTypes, TurnTypes
  <1>1. PhaseTypes'
    BY DEF OpenTurn, PhaseTypes
  <1>2. InboxTypes'
    BY <1>0 DEF InboxTypes
  <1>3. TurnTypes'
    BY <1>0 DEF OpenTurn, TurnTypes, PCs, InTurn
  <1>4. LogTypes'
    <2>0. logTurn' \in Nat /\ openStep' \in BOOLEAN
      <3>1. logTurn' = phaseTurn + 1 /\ openStep' = FALSE
        BY Zenon DEF OpenTurn
      <3>2. logTurn' \in Nat
        BY <3>1 DEF PhaseTypes
      <3>3. openStep' \in BOOLEAN
        BY <3>1
      <3>4. QED
        BY <3>2, <3>3
    <2>1. openTurn' \in BOOLEAN
      <3>1. openTurn' = TRUE \/ openTurn' = ("turn/end" \in lost)
        BY DEF OpenTurn
      <3>2. ("turn/end" \in lost) \in BOOLEAN
        OBVIOUS
      <3>3. QED
        BY <3>1, <3>2, Zenon
    <2>2. lastEnd' \in EndReasons \cup {"none"}
      BY DEF OpenTurn, LogTypes, EndReasons
    <2>3. refused' \in SUBSET Closings
      BY LossesAreClosings DEF OpenTurn
    <2>4. QED
      BY <2>0, <2>1, <2>2, <2>3 DEF LogTypes
  <1>5. WaitTypes'
    BY <1>0 DEF WaitTypes, idleVars
  <1>6. QED
    BY <1>1, <1>2, <1>3, <1>4, <1>5

LEMMA BeginTurnTypes ==
  ASSUME TypeOK, NEW c \in Causes \cup {"none"}, NEW lost \in Losses, NEW rest \in Seq(Frame),
         BeginTurn(c, lost, rest)
  PROVE  TypeOK'
  <1> USE DEF TypeOK
  <1>1. CASE /\ pc' = "gapExit" /\ owed' \in {{}, owed}
             /\ UNCHANGED <<abort, phaseTurn, batch, turnEnds, nextStep, nextTurn, logVars>>
    <2>1. PhaseTypes'
      BY <1>1 DEF BeginTurn, PhaseTypes
    <2>2. InboxTypes'
      BY <1>1 DEF BeginTurn, InboxTypes
    <2>3. TurnTypes'
      BY <1>1 DEF BeginTurn, TurnTypes, PCs, InTurn
    <2>4. LogTypes'
      BY <1>1, SameTypes
    <2>5. WaitTypes'
      BY <1>1 DEF BeginTurn, WaitTypes, idleVars
    <2>6. QED
      BY <2>1, <2>2, <2>3, <2>4, <2>5
  <1>2. CASE OpenTurn(c, lost)
    BY <1>2, OpenTurnTypes DEF BeginTurn
  <1>3. QED
    BY <1>1, <1>2 DEF BeginTurn

LEMMA FramesTypes ==
  ASSUME TypeOK, Frames
  PROVE  TypeOK'
  <1> USE DEF TypeOK
  <1>1. CASE RunWake
    <2>1. disposing' \in BOOLEAN /\ stack # <<>>
      BY <1>1 DEF RunWake, TopIs, WaitTypes
    <2>2. QED
      BY <1>1, <2>1, TopTypes, WakeDriverTypes DEF RunWake
  <1>2. CASE RunClearTurn
    <2>1. stack # <<>>
      BY <1>2 DEF RunClearTurn, TopIs
    <2>2. QED
      BY <1>2, <2>1, TopTypes, ClearTypes DEF RunClearTurn
  <1>3. CASE RunAbort
    <2>0. Top.cause \in Causes \cup {"none"} /\ Below \in Seq(Frame)
      BY <1>3, TopTypes DEF RunAbort, TopIs
    <2>1. PhaseTypes'
      BY <1>3, <2>0 DEF RunAbort, FinishCancel, AbortPhase, PhaseTypes
    <2>2. InboxTypes'
      BY <1>3, SameTypes DEF RunAbort
    <2>3. TurnTypes'
      BY <1>3, SameTypes DEF RunAbort
    <2>4. LogTypes'
      BY <1>3, SameTypes DEF RunAbort
    <2>5. WaitTypes'
      BY <1>3, <2>0 DEF RunAbort, FinishCancel, WaitTypes, idleVars
    <2>6. QED
      BY <2>1, <2>2, <2>3, <2>4, <2>5
  <1>4. CASE RunReplay
    <2>1. disposing' \in BOOLEAN /\ Below \in Seq(Frame)
      BY <1>4, TopTypes DEF RunReplay, TopIs, WaitTypes
    <2>2. CASE WakeDriver(FALSE, Below)
      BY <1>4, <2>1, <2>2, WakeDriverTypes DEF RunReplay
    <2>3. CASE ~(Top.flag /\ hasPending)
      <3>1. PhaseTypes'
        BY <1>4, <2>3, SameTypes DEF RunReplay
      <3>2. InboxTypes'
        BY <1>4, <2>3, SameTypes DEF RunReplay
      <3>3. TurnTypes'
        BY <1>4, <2>3, SameTypes DEF RunReplay
      <3>4. LogTypes'
        BY <1>4, <2>3, SameTypes DEF RunReplay
      <3>5. WaitTypes'
        BY <1>4, <2>1, <2>3 DEF RunReplay, ActivityAfterReplay, WaitTypes
      <3>6. QED
        BY <3>1, <3>2, <3>3, <3>4, <3>5
    <2>4. QED
      BY <1>4, <2>2, <2>3 DEF RunReplay
  <1>5. ASSUME NEW c \in Causes \cup {"none"}, NEW lost \in Losses, RunKick(c, lost)
        PROVE  TypeOK'
    BY <1>5, TopTypes, BeginTurnTypes DEF RunKick, TopIs
  <1>6. QED
    BY <1>1, <1>2, <1>3, <1>4, <1>5 DEF Frames

(* The ends of a turn.                                                     *)
LEMMA EndTurnTypes ==
  ASSUME TypeOK, turnEnds # "null", NEW c \in Causes \cup {"none"}, NEW lost \in Losses, EndTurn(c, lost),
         UNCHANGED <<idleVars, disposing>>
  PROVE  TypeOK'
  <1> USE DEF TypeOK
  <1>1. PhaseTypes'
    <2>1. /\ UNCHANGED <<phase, phaseTurn>> /\ abort' \in {abort, c, "none"}
          /\ latch' \in {latch, FALSE} /\ stepNo' \in {stepNo, 0}
      BY DEF EndTurn
    <2>2. latch' \in BOOLEAN /\ abort' \in Causes \cup {"none"}
      BY <2>1 DEF PhaseTypes
    <2>3. QED
      BY <2>1, <2>2 DEF PhaseTypes
  <1>2. InboxTypes'
    BY SameTypes DEF EndTurn
  <1>3. TurnTypes'
    BY DEF EndTurn, TurnTypes, PCs
  <1>4. LogTypes'
    BY TurnEndTypes DEF EndTurn, TurnTypes, EndReasons
  <1>5. WaitTypes'
    BY DEF EndTurn, Released, WaitTypes, idleVars
  <1>6. QED
    BY <1>1, <1>2, <1>3, <1>4, <1>5

LEMMA BoundaryTypes ==
  ASSUME TypeOK, NextStepBoundary, UNCHANGED <<idleVars, disposing>>,
         turnEnds' \in {"null", "completed", "max-tokens"}
  PROVE  PhaseTypes' /\ InboxTypes' /\ TurnTypes' /\ WaitTypes'
  <1> USE DEF TypeOK, NextStepBoundary
  <1>1. PhaseTypes'
    BY SameTypes
  <1>2. InboxTypes'
    BY ClaimTypes DEF InboxTypes
  <1>3. TurnTypes'
    BY ClaimTypes DEF TurnTypes, PCs, InTurn
  <1>4. WaitTypes'
    BY ClaimTypes DEF WaitTypes, idleVars
  <1>5. QED
    BY <1>1, <1>2, <1>3, <1>4

LEMMA DriverTypes ==
  ASSUME TypeOK, StoppingHasEnd, Driver
  PROVE  TypeOK'
  <1> USE DEF TypeOK
  <1>1. ASSUME NEW lost \in Losses, AbortTurn(lost)
        PROVE  TypeOK'
    <2>1. PhaseTypes'
      BY <1>1, SameTypes DEF AbortTurn
    <2>2. InboxTypes'
      BY <1>1, SameTypes DEF AbortTurn
    <2>3. TurnTypes'
      BY <1>1 DEF AbortTurn, TurnTypes, PCs, InTurn
    <2>4. LogTypes'
      BY <1>1, TurnEndTypes DEF AbortTurn, EndReasons
    <2>5. WaitTypes'
      BY <1>1 DEF AbortTurn, WaitTypes, idleVars
    <2>6. QED
      BY <2>1, <2>2, <2>3, <2>4, <2>5
  <1>2. ASSUME NEW lost \in Losses, FailTurn(lost)
        PROVE  TypeOK'
    <2>1. PhaseTypes'
      BY <1>2, SameTypes DEF FailTurn
    <2>2. InboxTypes'
      BY <1>2, SameTypes DEF FailTurn
    <2>3. TurnTypes'
      BY <1>2 DEF FailTurn, TurnTypes, PCs, InTurn
    <2>4. LogTypes'
      BY <1>2, LossesAreClosings, StepEndTypes DEF FailTurn, LogTypes
    <2>5. WaitTypes'
      BY <1>2 DEF FailTurn, WaitTypes, idleVars
    <2>6. QED
      BY <2>1, <2>2, <2>3, <2>4, <2>5
  <1>3. ASSUME NEW lost \in Losses, CloseFailedTurn(lost)
        PROVE  TypeOK'
    <2>1. PhaseTypes'
      BY <1>3, SameTypes DEF CloseFailedTurn
    <2>2. InboxTypes'
      BY <1>3, SameTypes DEF CloseFailedTurn
    <2>3. TurnTypes'
      BY <1>3 DEF CloseFailedTurn, TurnTypes, PCs, InTurn
    <2>4. LogTypes'
      BY <1>3, TurnEndTypes DEF CloseFailedTurn, EndReasons
    <2>5. WaitTypes'
      BY <1>3 DEF CloseFailedTurn, Released, WaitTypes, idleVars
    <2>6. QED
      BY <2>1, <2>2, <2>3, <2>4, <2>5
  <1>4. CASE Assembled
    <2>1. PhaseTypes'
      BY <1>4, SameTypes DEF Assembled
    <2>2. InboxTypes'
      BY <1>4, SameTypes DEF Assembled
    <2>3. TurnTypes'
      BY <1>4 DEF Assembled, TurnTypes, PCs, InTurn
    <2>4. LogTypes'
      BY <1>4, SameTypes DEF Assembled
    <2>5. WaitTypes'
      BY <1>4 DEF Assembled, WaitTypes, idleVars
    <2>6. QED
      BY <2>1, <2>2, <2>3, <2>4, <2>5
  <1>5. ASSUME NEW lost \in Losses, PreStepRejects(lost)
        PROVE  TypeOK'
    <2>1. PhaseTypes'
      BY <1>5, SameTypes DEF PreStepRejects, LeaveEarly
    <2>2. InboxTypes'
      BY <1>5, SameTypes DEF PreStepRejects, LeaveEarly
    <2>3. TurnTypes'
      BY <1>5 DEF PreStepRejects, LeaveEarly, TurnTypes, PCs, InTurn
    <2>4. LogTypes'
      BY <1>5, TurnEndTypes DEF PreStepRejects, LeaveEarly, EndReasons
    <2>5. WaitTypes'
      BY <1>5 DEF PreStepRejects, LeaveEarly, WaitTypes, idleVars
    <2>6. QED
      BY <2>1, <2>2, <2>3, <2>4, <2>5
  <1>6. ASSUME NEW kept, NEW extra, NEW c \in Causes \cup {"none"}, NEW lost \in Losses, PreStepEnters(kept, extra, c, lost)
        PROVE  TypeOK'
    <2>0. UNCHANGED <<idleVars, disposing>>
      BY <1>6 DEF PreStepEnters
    <2>1. CASE EmptyEndsTurn(kept = {} /\ ~extra) /\ EndTurn(c, lost)
      BY <2>0, <2>1, EndTurnTypes DEF EmptyEndsTurn
    <2>2. CASE LeaveEarly("completed", lost)
      <3>1. PhaseTypes'
        BY <2>0, <2>2, SameTypes DEF LeaveEarly
      <3>2. InboxTypes'
        BY <2>0, <2>2, SameTypes DEF LeaveEarly
      <3>3. TurnTypes'
        BY <2>0, <2>2 DEF LeaveEarly, TurnTypes, PCs, InTurn
      <3>4. LogTypes'
        BY <2>0, <2>2, TurnEndTypes DEF LeaveEarly, EndReasons
      <3>5. WaitTypes'
        BY <2>0, <2>2 DEF LeaveEarly, WaitTypes, idleVars
      <3>6. QED
        BY <3>1, <3>2, <3>3, <3>4, <3>5
    <2>3. CASE EnterStep
      <3>0. PhaseTypes'
        BY <2>3 DEF EnterStep, PhaseTypes
      <3>1. InboxTypes'
        BY <2>3, SameTypes DEF EnterStep
      <3>2. TurnTypes'
        BY <2>3 DEF EnterStep, TurnTypes, PCs, InTurn
      <3>3. LogTypes'
        BY <2>3 DEF EnterStep, LogTypes
      <3>4. WaitTypes'
        BY <2>0, <2>3 DEF EnterStep, WaitTypes, idleVars
      <3>5. QED
        BY <3>0, <3>1, <3>2, <3>3, <3>4
    <2>4. QED
      BY <1>6, <2>1, <2>2, <2>3 DEF PreStepEnters
  <1>7. ASSUME NEW end \in {"null", "completed", "max-tokens"}, StepSettles(end)
        PROVE  TypeOK'
    <2>0. refused' \in SUBSET Closings /\ openStep' \in BOOLEAN
      BY <1>7, StepEndTypes DEF StepSettles
    <2>1. LogTypes' /\ turnEnds' \in {"null", "completed", "max-tokens"} /\ UNCHANGED <<idleVars, disposing>>
      BY <1>7, <2>0 DEF StepSettles, LogTypes, TurnTypes
    <2>2. CASE turnEnds' # "null" /\ nextStep = <<>>
      <3>1. PhaseTypes'
        BY <1>7, <2>2, SameTypes DEF StepSettles, NextStepBoundary
      <3>2. InboxTypes'
        BY <1>7, <2>2, SameTypes DEF StepSettles
      <3>3. TurnTypes'
        BY <1>7, <2>1, <2>2 DEF StepSettles, TurnTypes, PCs, InTurn
      <3>4. WaitTypes'
        BY <1>7, <2>1, <2>2 DEF StepSettles, WaitTypes, idleVars
      <3>5. QED
        BY <2>1, <3>1, <3>2, <3>3, <3>4
    <2>3. CASE ~(turnEnds' # "null" /\ nextStep = <<>>)
      BY <1>7, <2>1, <2>3, BoundaryTypes DEF StepSettles
    <2>4. QED
      BY <2>2, <2>3
  <1>8. ASSUME NEW c \in Causes \cup {"none"}, NEW lost \in Losses, Stopped(c, lost)
        PROVE  TypeOK'
    <2>1. turnEnds # "null" /\ UNCHANGED <<idleVars, disposing>>
      BY <1>8 DEF StoppingHasEnd, Resumable, Stopped
    <2>2. CASE EndTurn(c, lost)
      BY <2>1, <2>2, EndTurnTypes
    <2>3. CASE NextStepBoundary /\ UNCHANGED <<turnEnds, logVars>>
      BY <2>1, <2>3, BoundaryTypes, SameTypes DEF TurnTypes
    <2>4. QED
      BY <1>8, <2>2, <2>3 DEF Stopped
  <1>9. ASSUME NEW c \in Causes \cup {"none"}, NEW lost \in Losses, ContinueLoop(c, lost)
        PROVE  TypeOK'
    BY <1>9, BeginTurnTypes DEF WaitTypes, ContinueLoop
  <1>10. CASE ExitDriver
    <2>0. stack' \in Seq(Frame)
      BY <1>10, FrameTypes DEF PhaseTypes, ExitDriver
    <2>1. PhaseTypes'
      BY <1>10, CausesAssumption DEF ExitDriver, PhaseTypes
    <2>2. InboxTypes'
      BY <1>10, SameTypes DEF ExitDriver
    <2>3. TurnTypes'
      BY <1>10 DEF ExitDriver, TurnTypes, PCs
    <2>4. LogTypes'
      BY <1>10, SameTypes DEF ExitDriver
    <2>5. WaitTypes'
      BY <1>10, <2>0 DEF ExitDriver, PhaseTypes, WaitTypes, idleVars
    <2>6. QED
      BY <2>1, <2>2, <2>3, <2>4, <2>5
  <1>11. QED
    BY <1>1, <1>2, <1>3, <1>4, <1>5, <1>6, <1>7, <1>8, <1>9, <1>10 DEF Driver

LEMMA StoppingStep ==
  ASSUME StoppingHasEnd, [Next]_vars
  PROVE  StoppingHasEnd'
  <1> USE DEF StoppingHasEnd
  <1>1. CASE UNCHANGED turnVars
    BY <1>1 DEF turnVars
  <1>2. CASE Client
    <2>1. UNCHANGED turnVars
      BY <1>2 DEF Client, SendWaking, SendQuiet, PrependStep, RemoveMessage, ReplaceMessage,
                  CancelKeep, CancelAll, BeginMaintenance, AwaitIdle
    <2>2. QED
      BY <1>1, <2>1
  <1>3. CASE RunWake \/ RunClearTurn \/ RunAbort \/ RunReplay
    BY <1>1, <1>3 DEF RunWake, RunClearTurn, RunAbort, RunReplay
  <1>4. ASSUME NEW c, NEW lost \in Losses, NEW rest, BeginTurn(c, lost, rest)
        PROVE  StoppingHasEnd'
    BY <1>4 DEF BeginTurn, OpenTurn
  <1>5. ASSUME NEW lost \in Losses,
          \/ AbortTurn(lost)
          \/ FailTurn(lost)
          \/ CloseFailedTurn(lost)
          \/ Assembled
          \/ PreStepRejects(lost)
          \/ ExitDriver
        PROVE  StoppingHasEnd'
    BY <1>5 DEF AbortTurn, FailTurn, CloseFailedTurn, Assembled, PreStepRejects, LeaveEarly,
       ExitDriver
  <1>6. ASSUME NEW kept, NEW extra, NEW c, NEW lost \in Losses, PreStepEnters(kept, extra, c, lost)
        PROVE  StoppingHasEnd'
    BY <1>6 DEF PreStepEnters, LeaveEarly, EndTurn, EnterStep
  <1>7. ASSUME NEW end, StepSettles(end)
        PROVE  StoppingHasEnd'
    BY <1>7 DEF StepSettles, NextStepBoundary
  <1>8. ASSUME NEW c, NEW lost \in Losses, Stopped(c, lost)
        PROVE  StoppingHasEnd'
    BY <1>8 DEF Stopped, NextStepBoundary, EndTurn
  <1>9. CASE SettleMaintenance \/ WaiterLoops \/ WaiterReturns \/ UNCHANGED vars
    <2>1. UNCHANGED turnVars
      BY <1>9 DEF SettleMaintenance, WaiterLoops, WaiterReturns, vars, turnVars
    <2>2. QED
      BY <1>1, <2>1
  <1>10. CASE Frames
    BY <1>3, <1>4, <1>10 DEF Frames, RunKick
  <1>11. CASE Driver
    BY <1>4, <1>5, <1>6, <1>7, <1>8, <1>11, LossesAreClosings DEF Driver, ContinueLoop
  <1>12. QED
    BY <1>2, <1>9, <1>10, <1>11 DEF Next

LEMMA TypeStep ==
  ASSUME TypeOK, StoppingHasEnd, [Next]_vars
  PROVE  TypeOK'
  <1> USE DEF TypeOK
  <1>1. CASE SettleMaintenance
    <2>1. disposing' \in BOOLEAN /\ stack \in Seq(Frame)
      BY <1>1 DEF SettleMaintenance, WaitTypes
    <2>2. CASE ReserveDriver(stack)
      BY <1>1, <2>1, <2>2, ReserveTypes, SameTypes DEF SettleMaintenance
    <2>3. CASE ~(latch /\ hasPending)
      <3>1. PhaseTypes'
        BY <1>1, <2>3, CausesAssumption DEF SettleMaintenance, PhaseTypes
      <3>2. InboxTypes'
        BY <1>1, SameTypes DEF SettleMaintenance
      <3>3. TurnTypes'
        BY <1>1, SameTypes DEF SettleMaintenance
      <3>4. LogTypes'
        BY <1>1, SameTypes DEF SettleMaintenance
      <3>5. WaitTypes'
        BY <1>1, <2>1, <2>3 DEF SettleMaintenance, WaitTypes
      <3>6. QED
        BY <3>1, <3>2, <3>3, <3>4, <3>5
    <2>4. QED
      BY <1>1, <2>2, <2>3 DEF SettleMaintenance
  <1>2. CASE WaiterLoops \/ WaiterReturns
    <2>1. WaitTypes'
      BY <1>2 DEF WaiterLoops, WaiterReturns, WaitTypes
    <2>2. QED
      BY <1>2, <2>1, SameTypes DEF WaiterLoops, WaiterReturns
  <1>3. CASE UNCHANGED vars
    BY <1>3, SameTypes DEF vars, phaseVars, inboxVars, turnVars, logVars, idleVars
  <1>4. QED
    BY <1>1, <1>2, <1>3, ClientTypes, FramesTypes, DriverTypes DEF Next

LEMMA InitTypes ==
  ASSUME Init
  PROVE  TypeOK /\ StoppingHasEnd
  <1> USE DEF Init
  <1>1. PhaseTypes
    BY DEF PhaseTypes
  <1>2. InboxTypes
    BY DEF InboxTypes
  <1>3. TurnTypes /\ StoppingHasEnd
    BY DEF TurnTypes, PCs, StoppingHasEnd
  <1>4. LogTypes
    BY DEF LogTypes
  <1>5. WaitTypes
    <2>1. stack \in Seq(Frame)
      OBVIOUS
    <2>2. activity \in {"settled", "open"} /\ waiter \in {"none", "current", "stale", "returned"}
      OBVIOUS
    <2>3. owed \in SUBSET Messages /\ disposing \in BOOLEAN
      OBVIOUS
    <2>4. QED
      BY <2>1, <2>2, <2>3 DEF WaitTypes
  <1>6. QED
    BY <1>1, <1>2, <1>3, <1>4, <1>5 DEF TypeOK

(* TypeOK is invariant, and turn() always has an ending to log             *)
(* when it writes turn/end ("every exit assigns a turn ending", agent.ts). *)
THEOREM TypeCorrect == Spec => [](TypeOK /\ StoppingHasEnd)
  <1>1. TypeOK /\ StoppingHasEnd /\ [Next]_vars => (TypeOK /\ StoppingHasEnd)'
    BY TypeStep, StoppingStep
  <1>2. QED
    BY <1>1, InitTypes, PTL DEF Spec

---------------------------------------------------------------------------
(* OnePlace: lists without repetitions.                                    *)

Distinct(s) == \A i, j \in DOMAIN s : s[i] = s[j] => i = j

LEMMA AppendDistinct ==
  ASSUME NEW S, NEW s \in Seq(S), NEW m \in S, Distinct(s), m \notin ToSet(s)
  PROVE  Distinct(Append(s, m)) /\ ToSet(Append(s, m)) = ToSet(s) \cup {m}
  <1>1. /\ DOMAIN Append(s, m) = DOMAIN s \cup {Len(s) + 1}
        /\ \A i \in DOMAIN s : Append(s, m)[i] = s[i]
        /\ Append(s, m)[Len(s) + 1] = m
    BY PushFrame
  <1> QED
    BY <1>1 DEF Distinct, ToSet

LEMMA PrependDistinct ==
  ASSUME NEW S, NEW s \in Seq(S), NEW m \in S, Distinct(s), m \notin ToSet(s)
  PROVE  Distinct(<<m>> \o s) /\ ToSet(<<m>> \o s) = ToSet(s) \cup {m}
  <1> DEFINE r == <<m>> \o s
  <1>1. <<m>> \in Seq(S) /\ Len(<<m>>) = 1 /\ Len(s) \in Nat /\ DOMAIN s = 1..Len(s) /\ <<m>>[1] = m
    OBVIOUS
  <1>2. r \in Seq(S) /\ Len(r) = 1 + Len(s)
        /\ \A i \in 1..(1 + Len(s)) : r[i] = IF i <= 1 THEN <<m>>[i] ELSE s[i - 1]
    BY <1>1, ConcatProperties
  <1> HIDE DEF r
  <1>3. DOMAIN r = 1..(1 + Len(s))
    BY <1>2
  <1>4. r[1] = m /\ \A i \in DOMAIN s : i + 1 \in DOMAIN r /\ r[i + 1] = s[i]
    BY <1>1, <1>2, <1>3
  <1>5. \A i \in DOMAIN r : i # 1 => i - 1 \in DOMAIN s /\ r[i] = s[i - 1]
    BY <1>1, <1>2, <1>3
  <1>6. ToSet(r) = ToSet(s) \cup {m}
    <2>1. 1 \in DOMAIN r
      BY <1>1, <1>3
    <2> QED
      BY <1>4, <1>5, <2>1 DEF ToSet
  <1>7. ASSUME NEW i \in DOMAIN r, NEW j \in DOMAIN r, r[i] = r[j] PROVE i = j
    <2>1. CASE i = 1 \/ j = 1
      BY <1>4, <1>5, <1>7, <2>1 DEF ToSet
    <2>2. CASE i # 1 /\ j # 1
      <3>1. i - 1 = j - 1
        BY <1>5, <1>7, <2>2 DEF Distinct
      <3> QED
        BY <1>1, <1>3, <3>1
    <2> QED
      BY <2>1, <2>2
  <1> QED
    BY <1>6, <1>7 DEF Distinct, r

LEMMA ReplaceDistinct ==
  ASSUME NEW S, NEW s \in Seq(S), NEW i \in DOMAIN s, NEW n \in S, Distinct(s), n \notin ToSet(s)
  PROVE  /\ Distinct([s EXCEPT ![i] = n])
         /\ ToSet([s EXCEPT ![i] = n]) \subseteq ToSet(s) \cup {n}
  BY DEF Distinct, ToSet

LEMMA RemoveDistinct ==
  ASSUME NEW S, NEW s \in Seq(S), NEW i \in DOMAIN s, Distinct(s)
  PROVE  Distinct(RemoveAt(s, i)) /\ ToSet(RemoveAt(s, i)) \subseteq ToSet(s)
  <1> DEFINE r == RemoveAt(s, i)
             at(j) == IF j < i THEN j ELSE j + 1
  <1>1. /\ DOMAIN r = 1..(Len(s) - 1) /\ i \in 1..Len(s) /\ Len(s) \in Nat
        /\ \A j \in 1..(i - 1) : r[j] = s[j]
        /\ \A j \in i..(Len(s) - 1) : r[j] = s[j + 1]
        /\ ToSet(r) \subseteq ToSet(s) /\ DOMAIN s = 1..Len(s)
    BY RemoveAtSeq
  <1> HIDE DEF r
  <1>2. \A j \in DOMAIN r : at(j) \in DOMAIN s /\ r[j] = s[at(j)]
    BY <1>1
  <1>3. ASSUME NEW j \in DOMAIN r, NEW k \in DOMAIN r, r[j] = r[k] PROVE j = k
    <2>1. at(j) = at(k)
      BY <1>2, <1>3 DEF Distinct
    <2> QED
      BY <1>1, <2>1
  <1> QED
    BY <1>1, <1>3 DEF Distinct, r

LEMMA TailDistinct ==
  ASSUME NEW S, NEW s \in Seq(S), s # <<>>, Distinct(s)
  PROVE  /\ Distinct(Tail(s)) /\ Head(s) \in ToSet(s)
         /\ ToSet(Tail(s)) \subseteq ToSet(s) \ {Head(s)}
  <1>1. /\ Len(s) \in Nat \ {0} /\ DOMAIN s = 1..Len(s) /\ DOMAIN Tail(s) = 1..(Len(s) - 1)
        /\ Head(s) = s[1] /\ \A i \in 1..(Len(s) - 1) : Tail(s)[i] = s[i + 1]
    OBVIOUS
  <1>2. \A i \in DOMAIN Tail(s) : i + 1 \in DOMAIN s /\ Tail(s)[i] = s[i + 1] /\ i \in Nat /\ i + 1 # 1
    BY <1>1
  <1>3. 1 \in DOMAIN s
    BY <1>1
  <1>4. Distinct(Tail(s))
    BY <1>2 DEF Distinct
  <1> QED
    BY <1>1, <1>2, <1>3, <1>4 DEF Distinct, ToSet

---------------------------------------------------------------------------
(* OnePlace: the steps.                                                    *)

LEMMA NothingRepeats ==
  OnePlace <=> /\ Distinct(nextTurn) /\ Distinct(nextStep)
               /\ ToSet(nextTurn) \cap ToSet(nextStep) = {}
               /\ (ToSet(nextTurn) \cup ToSet(nextStep)) \cap batch = {}
               /\ (ToSet(nextTurn) \cup ToSet(nextStep) \cup batch) \cap unsent = {}
  BY DEF OnePlace, Distinct, Pending

LEMMA EmptyDistinct == Distinct(<<>>) /\ ToSet(<<>>) = {}
  BY DEF Distinct, ToSet

(* Messages that stay where they are or vanish stay in one place.          *)
LEMMA PlacesShrink ==
  ASSUME OnePlace, Distinct(nextTurn'), Distinct(nextStep'),
         ToSet(nextTurn') \subseteq ToSet(nextTurn), ToSet(nextStep') \subseteq ToSet(nextStep),
         batch' \subseteq batch, unsent' \subseteq unsent
  PROVE  OnePlace'
  <1>1. /\ ToSet(nextTurn') \cap ToSet(nextStep') = {}
        /\ (ToSet(nextTurn') \cup ToSet(nextStep')) \cap batch' = {}
        /\ (ToSet(nextTurn') \cup ToSet(nextStep') \cup batch') \cap unsent' = {}
    BY NothingRepeats
  <1> QED
    BY <1>1 DEF OnePlace, Distinct, Pending, ToSet

LEMMA PlacesStay ==
  ASSUME OnePlace, UNCHANGED inboxVars, batch' \subseteq batch
  PROVE  OnePlace'
  BY PlacesShrink, NothingRepeats DEF inboxVars

(* A message that enters a list had not been submitted.                    *)
LEMMA PlacesGrow ==
  ASSUME OnePlace, UNCHANGED batch, NEW m \in unsent, unsent' = unsent \ {m},
         Distinct(nextTurn'), Distinct(nextStep'),
         \/ ToSet(nextTurn') \subseteq ToSet(nextTurn) \cup {m} /\ UNCHANGED nextStep
         \/ ToSet(nextStep') \subseteq ToSet(nextStep) \cup {m} /\ UNCHANGED nextTurn
  PROVE  OnePlace'
  <1>1. /\ ToSet(nextTurn') \cap ToSet(nextStep') = {}
        /\ (ToSet(nextTurn') \cup ToSet(nextStep')) \cap batch' = {}
        /\ (ToSet(nextTurn') \cup ToSet(nextStep') \cup batch') \cap unsent' = {}
    BY NothingRepeats
  <1> QED
    BY <1>1 DEF OnePlace, Distinct, Pending, ToSet

LEMMA InsertPlaces ==
  ASSUME TypeOK, OnePlace, NEW m \in unsent, NEW t \in {"next-turn", "next-step"},
         InsertLast(m, t), UNCHANGED batch
  PROVE  OnePlace'
  <1>1. m \in Messages /\ nextTurn \in Seq(Messages) /\ nextStep \in Seq(Messages)
    BY DEF TypeOK, InboxTypes
  <1>2. Distinct(nextTurn) /\ Distinct(nextStep) /\ m \notin ToSet(nextTurn) /\ m \notin ToSet(nextStep)
    BY NothingRepeats
  <1>3. /\ Distinct(Append(nextTurn, m)) /\ ToSet(Append(nextTurn, m)) = ToSet(nextTurn) \cup {m}
        /\ Distinct(Append(nextStep, m)) /\ ToSet(Append(nextStep, m)) = ToSet(nextStep) \cup {m}
    BY <1>1, <1>2, AppendDistinct
  <1>4. CASE t = "next-turn"
    <2>1. nextTurn' = Append(nextTurn, m) /\ UNCHANGED nextStep /\ unsent' = unsent \ {m}
      BY <1>4 DEF InsertLast
    <2> QED
      BY <1>2, <1>3, <2>1, PlacesGrow
  <1>5. CASE t = "next-step"
    <2>1. nextStep' = Append(nextStep, m) /\ UNCHANGED nextTurn /\ unsent' = unsent \ {m}
      BY <1>5 DEF InsertLast
    <2> QED
      BY <1>2, <1>3, <2>1, PlacesGrow
  <1> QED
    BY <1>4, <1>5

LEMMA ClearPlaces ==
  ASSUME OnePlace, nextTurn' \in {nextTurn, <<>>}, nextStep' \in {nextStep, <<>>},
         UNCHANGED <<batch, unsent>>
  PROVE  OnePlace'
  BY PlacesShrink, NothingRepeats, EmptyDistinct

(* What is claimed leaves the lists as it enters the batch.                *)
LEMMA ClaimPlaces ==
  ASSUME TypeOK, OnePlace, NEW t, Claim(t), UNCHANGED unsent
  PROVE  OnePlace'
  <1>1. nextTurn \in Seq(Messages) /\ Distinct(nextTurn) /\ Distinct(nextStep)
    BY NothingRepeats DEF TypeOK, InboxTypes
  <1>2. nextStep' = <<>> /\ Distinct(nextStep') /\ ToSet(nextStep') = {}
    BY EmptyDistinct DEF Claim
  <1>3. CASE t = "next-turn" /\ nextTurn # <<>>
    <2>1. nextTurn' = Tail(nextTurn) /\ batch' = ToSet(nextStep) \cup {Head(nextTurn)}
      BY <1>3 DEF Claim, Claimed
    <2>2. /\ Distinct(Tail(nextTurn)) /\ Head(nextTurn) \in ToSet(nextTurn)
          /\ ToSet(Tail(nextTurn)) \subseteq ToSet(nextTurn) \ {Head(nextTurn)}
      BY <1>1, <1>3, TailDistinct
    <2>3. /\ ToSet(nextTurn') \cap ToSet(nextStep') = {}
          /\ (ToSet(nextTurn') \cup ToSet(nextStep')) \cap batch' = {}
          /\ (ToSet(nextTurn') \cup ToSet(nextStep') \cup batch') \cap unsent' = {}
      BY <1>2, <2>1, <2>2, NothingRepeats
    <2> QED
      BY <1>2, <2>1, <2>2, <2>3 DEF OnePlace, Distinct, Pending, ToSet
  <1>4. CASE ~(t = "next-turn" /\ nextTurn # <<>>)
    <2>1. nextTurn' = nextTurn /\ batch' = ToSet(nextStep)
      BY <1>4 DEF Claim, Claimed
    <2>2. /\ ToSet(nextTurn') \cap ToSet(nextStep') = {}
          /\ (ToSet(nextTurn') \cup ToSet(nextStep')) \cap batch' = {}
          /\ (ToSet(nextTurn') \cup ToSet(nextStep') \cup batch') \cap unsent' = {}
      BY <1>2, <2>1, NothingRepeats
    <2> QED
      BY <1>1, <1>2, <2>1, <2>2 DEF OnePlace, Distinct, Pending, ToSet
  <1> QED
    BY <1>3, <1>4

LEMMA ClientPlaces ==
  ASSUME TypeOK, OnePlace, Client
  PROVE  OnePlace'
  <1>0. /\ nextTurn \in Seq(Messages) /\ nextStep \in Seq(Messages) /\ unsent \subseteq Messages
        /\ Distinct(nextTurn) /\ Distinct(nextStep)
    BY NothingRepeats DEF TypeOK, InboxTypes
  <1>1. ASSUME NEW m \in Messages, NEW t \in {"next-turn", "next-step"},
               SendWaking(m, t) \/ SendQuiet(m, t)
        PROVE  OnePlace'
    <2>1. m \in unsent /\ UNCHANGED batch /\ \E u \in {"next-turn", "next-step"} : InsertLast(m, u)
      BY <1>1 DEF SendWaking, SendQuiet, turnVars
    <2> QED
      BY <2>1, InsertPlaces
  <1>2. ASSUME NEW m \in Messages, PrependStep(m) PROVE OnePlace'
    <2>1. /\ m \in unsent /\ nextStep' = <<m>> \o nextStep /\ unsent' = unsent \ {m}
          /\ UNCHANGED nextTurn /\ UNCHANGED batch
      BY <1>2 DEF PrependStep, turnVars
    <2>2. m \notin ToSet(nextStep)
      BY <2>1, NothingRepeats
    <2>3. Distinct(nextStep') /\ ToSet(nextStep') = ToSet(nextStep) \cup {m}
      BY <1>0, <2>1, <2>2, PrependDistinct
    <2> QED
      BY <1>0, <2>1, <2>3, PlacesGrow
  <1>3. ASSUME NEW m \in Messages, RemoveMessage(m) PROVE OnePlace'
    <2>1. UNCHANGED unsent /\ UNCHANGED batch
      BY <1>3 DEF RemoveMessage, turnVars
    <2>2. ASSUME NEW i \in DOMAIN nextTurn, nextTurn' = RemoveAt(nextTurn, i), UNCHANGED nextStep
          PROVE  OnePlace'
      BY <1>0, <2>1, <2>2, RemoveDistinct, PlacesShrink
    <2>3. ASSUME NEW i \in DOMAIN nextStep, nextStep' = RemoveAt(nextStep, i), UNCHANGED nextTurn
          PROVE  OnePlace'
      BY <1>0, <2>1, <2>3, RemoveDistinct, PlacesShrink
    <2> QED
      BY <1>3, <2>2, <2>3 DEF RemoveMessage
  <1>4. ASSUME NEW m \in Messages, NEW n \in Messages, ReplaceMessage(m, n) PROVE OnePlace'
    <2>1. n \in unsent /\ unsent' = unsent \ {n} /\ UNCHANGED batch
      BY <1>4 DEF ReplaceMessage, turnVars
    <2>2. n \notin ToSet(nextTurn) /\ n \notin ToSet(nextStep)
      BY <2>1, NothingRepeats
    <2>3. ASSUME NEW i \in DOMAIN nextTurn, nextTurn' = [nextTurn EXCEPT ![i] = n],
                 UNCHANGED nextStep
          PROVE  OnePlace'
      <3>1. Distinct(nextTurn') /\ ToSet(nextTurn') \subseteq ToSet(nextTurn) \cup {n}
        BY <1>0, <2>2, <2>3, ReplaceDistinct
      <3> QED
        BY <1>0, <2>1, <2>3, <3>1, PlacesGrow
    <2>4. ASSUME NEW i \in DOMAIN nextStep, nextStep' = [nextStep EXCEPT ![i] = n],
                 UNCHANGED nextTurn
          PROVE  OnePlace'
      <3>1. Distinct(nextStep') /\ ToSet(nextStep') \subseteq ToSet(nextStep) \cup {n}
        BY <1>0, <2>2, <2>4, ReplaceDistinct
      <3> QED
        BY <1>0, <2>1, <2>4, <3>1, PlacesGrow
    <2> QED
      BY <1>4, <2>3, <2>4 DEF ReplaceMessage
  <1>5. ASSUME NEW c, CancelAll(c) PROVE OnePlace'
    <2>1. nextTurn' \in {nextTurn, <<>>} /\ nextStep' \in {nextStep, <<>>} /\ UNCHANGED <<batch, unsent>>
      BY <1>5 DEF CancelAll, ClearTurnList, turnVars
    <2> QED
      BY <2>1, ClearPlaces
  <1>6. ASSUME NEW c, CancelKeep(c) \/ BeginMaintenance \/ AwaitIdle PROVE OnePlace'
    <2>1. UNCHANGED inboxVars /\ UNCHANGED batch
      BY <1>6 DEF CancelKeep, BeginMaintenance, AwaitIdle, turnVars
    <2> QED
      BY <2>1, PlacesStay
  <1> QED
    BY <1>1, <1>2, <1>3, <1>4, <1>5, <1>6 DEF Client

LEMMA BeginPlaces ==
  ASSUME TypeOK, OnePlace, NEW c, NEW lost \in Losses, NEW rest, BeginTurn(c, lost, rest)
  PROVE  OnePlace'
  <1>1. CASE Claim("next-turn")
    BY <1>1, ClaimPlaces DEF BeginTurn
  <1>2. CASE UNCHANGED <<batch, nextStep, nextTurn>>
    <2>1. UNCHANGED inboxVars /\ batch' \subseteq batch
      BY <1>2 DEF BeginTurn, inboxVars
    <2> QED
      BY <2>1, PlacesStay
  <1> QED
    BY <1>1, <1>2 DEF BeginTurn, OpenTurn

LEMMA DriverPlaces ==
  ASSUME TypeOK, OnePlace, Driver
  PROVE  OnePlace'
  <1>1. ASSUME NEW lost \in Losses,
          \/ AbortTurn(lost)
          \/ FailTurn(lost)
          \/ CloseFailedTurn(lost)
          \/ Assembled
          \/ PreStepRejects(lost)
          \/ ExitDriver
        PROVE  OnePlace'
    <2>1. UNCHANGED inboxVars /\ batch' \in {batch, {}}
      BY <1>1 DEF AbortTurn, FailTurn, CloseFailedTurn, Assembled, PreStepRejects, LeaveEarly,
         ExitDriver
    <2> QED
      BY <2>1, PlacesStay
  <1>2. ASSUME NEW kept, NEW extra, NEW c, NEW lost \in Losses, PreStepEnters(kept, extra, c, lost) PROVE OnePlace'
    <2>1. UNCHANGED inboxVars /\ batch' \in {batch, {}}
      BY <1>2 DEF PreStepEnters, EndTurn, LeaveEarly, EnterStep
    <2> QED
      BY <2>1, PlacesStay
  <1>3. ASSUME NextStepBoundary PROVE OnePlace'
    BY <1>3, ClaimPlaces DEF NextStepBoundary
  <1>4. ASSUME NEW end, StepSettles(end) PROVE OnePlace'
    <2>1. NextStepBoundary \/ (UNCHANGED inboxVars /\ batch' = batch)
      BY <1>4 DEF StepSettles
    <2> QED
      BY <1>3, <2>1, PlacesStay
  <1>5. ASSUME NEW c, NEW lost \in Losses, Stopped(c, lost) PROVE OnePlace'
    <2>1. NextStepBoundary \/ (UNCHANGED inboxVars /\ batch' = {})
      BY <1>5 DEF Stopped, EndTurn
    <2> QED
      BY <1>3, <2>1, PlacesStay
  <1>6. ASSUME NEW c, NEW lost \in Losses, ContinueLoop(c, lost) PROVE OnePlace'
    BY <1>6, BeginPlaces DEF ContinueLoop
  <1> QED
    BY <1>1, <1>2, <1>4, <1>5, <1>6, LossesAreClosings DEF Driver

LEMMA PlacesStep ==
  ASSUME TypeOK, OnePlace, [Next]_vars
  PROVE  OnePlace'
  <1>1. CASE RunWake \/ RunAbort \/ RunReplay \/ SettleMaintenance \/ WaiterLoops \/ WaiterReturns \/ UNCHANGED vars
    <2>1. UNCHANGED inboxVars /\ UNCHANGED batch
      BY <1>1 DEF RunWake, RunAbort, RunReplay, SettleMaintenance, WaiterLoops, WaiterReturns,
         vars, inboxVars, turnVars
    <2> QED
      BY <2>1, PlacesStay
  <1>2. CASE RunClearTurn
    <2>1. nextTurn' \in {nextTurn, <<>>} /\ nextStep' \in {nextStep, <<>>} /\ UNCHANGED <<batch, unsent>>
      BY <1>2 DEF RunClearTurn, ClearTurnList, turnVars
    <2> QED
      BY <2>1, ClearPlaces
  <1>3. ASSUME NEW c, NEW lost \in Losses, RunKick(c, lost) PROVE OnePlace'
    BY <1>3, BeginPlaces DEF RunKick
  <1> QED
    BY <1>1, <1>2, <1>3, ClientPlaces, DriverPlaces DEF Next, Frames

(* No message is in two places, or in one place twice, and none that was   *)
(* not submitted is pending or claimed (inbox.ts insert, claim, replace).  *)
THEOREM MessagesKeepOnePlace == Spec => []OnePlace
  <1>1. Init => OnePlace
    BY EmptyDistinct DEF Init, OnePlace, Pending, Distinct
  <1>2. TypeOK /\ StoppingHasEnd /\ OnePlace /\ [Next]_vars => OnePlace'
    BY PlacesStep
  <1> QED
    BY <1>1, <1>2, TypeCorrect, PTL DEF Spec

---------------------------------------------------------------------------
(* Does a frame of kick(), a replay of a latched wake, or a wake sent to   *)
(* an aborted activity wait in s?                                          *)
KickIn(s) == \E i \in DOMAIN s : s[i].op = "kick"
ReplayIn(s) == \E i \in DOMAIN s : s[i].op = "replay" /\ s[i].flag
LateWakeIn(s) == \E i \in DOMAIN s : s[i].op = "wake" /\ s[i].flag
OneKick(s) == \A i, j \in DOMAIN s : s[i].op = "kick" /\ s[j].op = "kick" => i = j

(* A driver exists only while the phase is reserved for it, either in a    *)
(* turn or as the one kick() still to run.                                 *)
DriverOwnsPhase ==
  /\ pc # "off" => phase = "running"
  /\ KickIn(stack) => phase = "running" /\ pc = "off"
  /\ OneKick(stack)

(* A wake sent to an aborted activity still finds it aborted.              *)
LateWakesFindAbort == LateWakeIn(stack) => phase # "idle" /\ abort # "none"

(* The log is open exactly where the driver stands, unless the session     *)
(* refused the event that closes it.                                       *)
TurnIsLogged ==
  /\ pc \in InTurn => openTurn /\ "turn/end" \notin refused
  /\ pc \in InTurn \ {"errored"} => "step/end" \notin refused
  /\ pc \notin InTurn /\ openTurn => "turn/end" \in refused

StepIsLogged ==
  openStep => \/ pc = "stepping"
              \/ /\ "step/end" \in refused
                 /\ pc = "errored" \/ openTurn \/ lastEnd \in {"error", "aborted"}

LogFollowsDriver ==
  /\ TurnIsLogged /\ StepIsLogged
  /\ batch # {} => pc \in {"assembling", "preStep"}
  /\ phaseTurn = logTurn

(* Somebody is left to run what the wakes promised: a replay about to      *)
(* happen, a latch, or a live driver.                                      *)
Served ==
  \/ phase = "idle" /\ ReplayIn(stack)
  \/ phase = "maintenance" /\ (latch \/ (ReplayIn(stack) /\ abort # "disposed"))
  \/ phase = "running" /\ (latch \/ LiveDriver)

SomebodyServes == owed \subseteq Pending /\ (owed # {} => Served)

IInv ==
  /\ TypeOK /\ StoppingHasEnd
  /\ DriverOwnsPhase
  /\ LogFollowsDriver
  /\ LateWakesFindAbort /\ LatchNeedsCancel
  /\ SomebodyServes

---------------------------------------------------------------------------
(* What pushing and popping frames does to the kick and replay frames.     *)
LEMMA PushKick ==
  ASSUME NEW s \in Seq(Frame), NEW f \in Frame
  PROVE  /\ KickIn(Append(s, f)) <=> KickIn(s) \/ f.op = "kick"
         /\ ReplayIn(s) => ReplayIn(Append(s, f))
         /\ LateWakeIn(Append(s, f)) => LateWakeIn(s) \/ (f.op = "wake" /\ f.flag)
         /\ OneKick(s) /\ ~(KickIn(s) /\ f.op = "kick") => OneKick(Append(s, f))
  <1> DEFINE t == Append(s, f)
             n == Len(s) + 1
  <1>1. /\ DOMAIN t = DOMAIN s \cup {n} /\ n \notin DOMAIN s
        /\ \A i \in DOMAIN s : t[i] = s[i]
        /\ t[n] = f
    BY PushFrame
  <1> HIDE DEF t, n
  <1>2. KickIn(t) <=> KickIn(s) \/ f.op = "kick"
    BY <1>1 DEF KickIn
  <1>3. ReplayIn(s) => ReplayIn(t)
    BY <1>1 DEF ReplayIn
  <1>4. OneKick(s) /\ ~(KickIn(s) /\ f.op = "kick") => OneKick(t)
    BY <1>1 DEF OneKick, KickIn
  <1>5. LateWakeIn(t) => LateWakeIn(s) \/ (f.op = "wake" /\ f.flag)
    BY <1>1 DEF LateWakeIn
  <1>6. QED
    BY <1>2, <1>3, <1>4, <1>5 DEF t

LEMMA PopKick ==
  ASSUME NEW s \in Seq(Frame), s # <<>>
  PROVE  LET r == SubSeq(s, 1, Len(s) - 1)
             top == s[Len(s)]
         IN /\ KickIn(r) => KickIn(s)
            /\ top.op = "kick" => KickIn(s)
            /\ OneKick(s) => OneKick(r)
            /\ OneKick(s) /\ top.op = "kick" => ~KickIn(r)
            /\ ReplayIn(s) /\ ~(top.op = "replay" /\ top.flag) => ReplayIn(r)
            /\ LateWakeIn(r) => LateWakeIn(s)
            /\ top.op = "wake" /\ top.flag => LateWakeIn(s)
  <1> DEFINE r == SubSeq(s, 1, Len(s) - 1)
             n == Len(s)
  <1>1. /\ DOMAIN r = DOMAIN s \ {n} /\ n \in DOMAIN s
        /\ \A i \in DOMAIN r : r[i] = s[i]
    BY PopFrame
  <1> HIDE DEF r, n
  <1>2. KickIn(r) => KickIn(s)
    BY <1>1 DEF KickIn
  <1>3. s[n].op = "kick" => KickIn(s)
    BY <1>1 DEF KickIn
  <1>4. OneKick(s) => OneKick(r)
    BY <1>1 DEF OneKick
  <1>5. OneKick(s) /\ s[n].op = "kick" => ~KickIn(r)
    BY <1>1 DEF OneKick, KickIn
  <1>6. ReplayIn(s) /\ ~(s[n].op = "replay" /\ s[n].flag) => ReplayIn(r)
    BY <1>1 DEF ReplayIn
  <1>7. /\ LateWakeIn(r) => LateWakeIn(s)
        /\ s[n].op = "wake" /\ s[n].flag => LateWakeIn(s)
    BY <1>1 DEF LateWakeIn
  <1>8. QED
    BY <1>2, <1>3, <1>4, <1>5, <1>6, <1>7 DEF r, n

(* The same for the stack of a state.                                      *)
LEMMA PopTop ==
  ASSUME TypeOK, stack # <<>>
  PROVE  /\ Below \in Seq(Frame)
         /\ KickIn(Below) => KickIn(stack)
         /\ Top.op = "kick" => KickIn(stack)
         /\ OneKick(stack) => OneKick(Below)
         /\ OneKick(stack) /\ Top.op = "kick" => ~KickIn(Below)
         /\ ReplayIn(stack) /\ ~(Top.op = "replay" /\ Top.flag) => ReplayIn(Below)
         /\ LateWakeIn(Below) => LateWakeIn(stack)
         /\ Top.op = "wake" /\ Top.flag => LateWakeIn(stack)
  BY PopKick, TopTypes DEF TypeOK, WaitTypes, Below, Top

LEMMA EmptyStack ==
  ASSUME stack = <<>>
  PROVE  ~KickIn(stack) /\ ~ReplayIn(stack) /\ ~LateWakeIn(stack) /\ OneKick(stack)
  BY DEF KickIn, ReplayIn, LateWakeIn, OneKick

LEMMA SameKick ==
  ASSUME UNCHANGED stack
  PROVE  /\ KickIn(stack)' <=> KickIn(stack)
         /\ ReplayIn(stack)' <=> ReplayIn(stack)
         /\ LateWakeIn(stack)' <=> LateWakeIn(stack)
         /\ OneKick(stack)' <=> OneKick(stack)
  BY DEF KickIn, ReplayIn, LateWakeIn, OneKick

(* What is left of the stack when an operation goes on: all of it, or what *)
(* was below the frame that runs.                                          *)
Rest(s) == s = stack \/ (stack # <<>> /\ s = Below)

LEMMA RestKick ==
  ASSUME TypeOK, NEW s, Rest(s)
  PROVE  /\ s \in Seq(Frame)
         /\ KickIn(s) => KickIn(stack)
         /\ LateWakeIn(s) => LateWakeIn(stack)
         /\ OneKick(stack) => OneKick(s)
  BY PopTop DEF Rest, TypeOK, WaitTypes

---------------------------------------------------------------------------
(* DriverOwnsPhase.                                                        *)
LEMMA OwnsSame ==
  ASSUME TypeOK, DriverOwnsPhase, UNCHANGED <<phase, pc>>,
         NEW s, Rest(s), stack' = s
  PROVE  DriverOwnsPhase'
  BY RestKick DEF DriverOwnsPhase, KickIn, OneKick

LEMMA OwnsPush ==
  ASSUME TypeOK, DriverOwnsPhase, UNCHANGED <<phase, pc>>,
         NEW s, Rest(s), NEW f \in Frame, f.op # "kick", stack' = Append(s, f)
  PROVE  DriverOwnsPhase'
  <1>1. /\ KickIn(Append(s, f)) => KickIn(stack)
        /\ OneKick(Append(s, f))
    BY RestKick, PushKick DEF DriverOwnsPhase
  <1>2. (KickIn(stack)' => KickIn(stack)) /\ OneKick(stack)'
    BY <1>1 DEF KickIn, OneKick
  <1>3. QED
    BY <1>2 DEF DriverOwnsPhase

LEMMA OwnsTurn ==
  ASSUME DriverOwnsPhase, stack = <<>>, pc # "off", UNCHANGED <<phase, stack>>
  PROVE  DriverOwnsPhase'
  BY EmptyStack, SameKick DEF DriverOwnsPhase

LEMMA OwnsReserve ==
  ASSUME TypeOK, DriverOwnsPhase, phase # "running", NEW s, Rest(s),
         ReserveDriver(s), UNCHANGED pc
  PROVE  DriverOwnsPhase'
  <1>1. ~KickIn(s) /\ OneKick(s) /\ pc = "off"
    BY RestKick DEF DriverOwnsPhase
  <1>2. OneKick(Append(s, KickFrame))
    BY <1>1, RestKick, PushKick, FrameTypes
  <1>3. OneKick(stack)' /\ phase' = "running" /\ pc' = "off"
    BY <1>1, <1>2 DEF OneKick, ReserveDriver
  <1>4. QED
    BY <1>3 DEF DriverOwnsPhase

LEMMA OwnsWake ==
  ASSUME TypeOK, DriverOwnsPhase, NEW after, NEW s, Rest(s), WakeDriver(after, s), UNCHANGED pc
  PROVE  DriverOwnsPhase'
  <1>1. CASE phase = "idle" /\ ReserveDriver(s)
    BY <1>1, OwnsReserve
  <1>2. CASE LatchWake(after, s)
    BY <1>2, OwnsSame DEF LatchWake
  <1>3. QED
    BY <1>1, <1>2 DEF WakeDriver

LEMMA OwnsClear ==
  ASSUME TypeOK, DriverOwnsPhase, NEW c \in Causes \cup {"none"}, NEW s, Rest(s),
         ClearTurnList(c, s), UNCHANGED <<phase, pc>>
  PROVE  DriverOwnsPhase'
  <1>1. CASE stack' = Append(s, AbortFrame(c))
    BY <1>1, OwnsPush, FrameTypes DEF AbortFrame
  <1>2. CASE stack' = s
    BY <1>2, OwnsSame
  <1>3. QED
    BY <1>1, <1>2 DEF ClearTurnList, FinishCancel

LEMMA OwnsBegin ==
  ASSUME TypeOK, DriverOwnsPhase, NEW c, NEW lost, NEW s, Rest(s), ~KickIn(s), phase = "running",
         BeginTurn(c, lost, s)
  PROVE  DriverOwnsPhase'
  <1>1. OneKick(s) /\ stack' = s /\ phase' = "running"
    BY RestKick DEF DriverOwnsPhase, BeginTurn
  <1>2. ~KickIn(stack)' /\ OneKick(stack)'
    BY <1>1 DEF KickIn, OneKick
  <1>3. QED
    BY <1>1, <1>2 DEF DriverOwnsPhase

LEMMA OwnsClient ==
  ASSUME TypeOK, DriverOwnsPhase, Client
  PROVE  DriverOwnsPhase'
  <1>0. Rest(stack)
    BY DEF Rest
  <1>1. ASSUME NEW m \in Messages, NEW t \in {"next-turn", "next-step"}, SendWaking(m, t)
        PROVE  DriverOwnsPhase'
    <2>1. /\ stack' = Append(stack, WakeFrame(wakingAfterAbort(TRUE)))
          /\ UNCHANGED <<phase, pc>>
      BY <1>1 DEF SendWaking, phaseVars, turnVars
    <2>2. /\ WakeFrame(wakingAfterAbort(TRUE)) \in Frame
          /\ WakeFrame(wakingAfterAbort(TRUE)).op # "kick"
      BY FrameTypes DEF WakeFrame, wakingAfterAbort
    <2>3. QED
      BY <1>0, <2>1, <2>2, OwnsPush
  <1>2. ASSUME NEW c \in Causes, CancelAll(c)
        PROVE  DriverOwnsPhase'
    <2>1. UNCHANGED <<phase, pc>>
      BY <1>2 DEF CancelAll, turnVars
    <2>2. CASE stack' = Append(stack, ClearFrame(c))
      BY <1>0, <2>1, <2>2, OwnsPush, FrameTypes DEF ClearFrame
    <2>3. CASE ClearTurnList(c, stack)
      BY <1>0, <2>1, <2>3, OwnsClear
    <2>4. QED
      BY <1>2, <2>2, <2>3 DEF CancelAll
  <1>3. CASE BeginMaintenance
    <2>1. ~KickIn(stack) /\ pc = "off" /\ phase = "idle"
      BY <1>3 DEF DriverOwnsPhase, BeginMaintenance
    <2>2. UNCHANGED <<stack, pc>>
      BY <1>3 DEF BeginMaintenance, turnVars
    <2>3. QED
      BY <2>1, <2>2, SameKick DEF DriverOwnsPhase
  <1>4. CASE UNCHANGED <<phase, pc, stack>>
    BY <1>0, <1>4, OwnsSame
  <1>5. ASSUME NEW m, NEW t, SendQuiet(m, t)
        PROVE  DriverOwnsPhase'
    BY <1>4, <1>5 DEF SendQuiet, phaseVars, turnVars
  <1>6. ASSUME NEW m, PrependStep(m) \/ RemoveMessage(m)
        PROVE  DriverOwnsPhase'
    BY <1>4, <1>6 DEF PrependStep, RemoveMessage, phaseVars, turnVars
  <1>7. ASSUME NEW m, NEW n, ReplaceMessage(m, n)
        PROVE  DriverOwnsPhase'
    BY <1>4, <1>7 DEF ReplaceMessage, phaseVars, turnVars
  <1>8. ASSUME NEW c, CancelKeep(c)
        PROVE  DriverOwnsPhase'
    BY <1>4, <1>8 DEF CancelKeep, phaseVars, turnVars
  <1>9. CASE AwaitIdle
    BY <1>4, <1>9 DEF AwaitIdle, phaseVars, turnVars
  <1>10. QED
    BY <1>1, <1>2, <1>3, <1>5, <1>6, <1>7, <1>8, <1>9 DEF Client

LEMMA OwnsFrames ==
  ASSUME TypeOK, DriverOwnsPhase, Frames
  PROVE  DriverOwnsPhase'
  <1>0. stack # <<>> /\ Rest(Below)
    BY DEF Frames, RunWake, RunClearTurn, RunAbort, RunReplay, RunKick, TopIs, Rest
  <1>1. CASE RunWake
    BY <1>0, <1>1, OwnsWake DEF RunWake, turnVars
  <1>2. CASE RunClearTurn
    BY <1>0, <1>2, OwnsClear, TopTypes DEF RunClearTurn, turnVars, TypeOK
  <1>3. CASE RunAbort
    BY <1>0, <1>3, OwnsSame DEF RunAbort, FinishCancel, turnVars
  <1>4. CASE RunReplay
    <2>1. UNCHANGED pc
      BY <1>4 DEF RunReplay, turnVars
    <2>2. CASE WakeDriver(FALSE, Below)
      BY <1>0, <2>1, <2>2, OwnsWake
    <2>3. CASE stack' = Below /\ UNCHANGED phaseVars
      BY <1>0, <2>1, <2>3, OwnsSame DEF phaseVars
    <2>4. QED
      BY <1>4, <2>2, <2>3 DEF RunReplay
  <1>5. ASSUME NEW c, NEW lost \in Losses, RunKick(c, lost)
        PROVE  DriverOwnsPhase'
    <2>1. ~KickIn(Below) /\ phase = "running"
      BY <1>5, <1>0, PopTop DEF RunKick, TopIs, DriverOwnsPhase
    <2>2. QED
      BY <1>0, <1>5, <2>1, OwnsBegin DEF RunKick
  <1>6. QED
    BY <1>1, <1>2, <1>3, <1>4, <1>5 DEF Frames

(* The driver's own steps run on an empty stack, and all but the last keep *)
(* the phase.                                                              *)
LEMMA DriverSteps ==
  ASSUME Driver
  PROVE  /\ stack = <<>> /\ pc # "off"
         /\ ExitDriver \/ UNCHANGED <<phase, stack>>
  <1>1. ASSUME NEW lost \in Losses,
          \/ AbortTurn(lost)
          \/ FailTurn(lost)
          \/ CloseFailedTurn(lost)
          \/ Assembled
          \/ PreStepRejects(lost)
        PROVE  stack = <<>> /\ pc # "off" /\ UNCHANGED <<phase, stack>>
    BY <1>1 DEF AbortTurn, FailTurn, CloseFailedTurn, Assembled, PreStepRejects, LeaveEarly,
                Resumable, InTurn, phaseVars
  <1>2. ASSUME NEW kept, NEW extra, NEW c, NEW lost \in Losses, PreStepEnters(kept, extra, c, lost)
        PROVE  stack = <<>> /\ pc # "off" /\ UNCHANGED <<phase, stack>>
    BY <1>2 DEF PreStepEnters, Resumable, EndTurn, LeaveEarly, EnterStep, phaseVars
  <1>3. ASSUME NEW end, StepSettles(end)
        PROVE  stack = <<>> /\ pc # "off" /\ UNCHANGED <<phase, stack>>
    BY <1>3 DEF StepSettles, Resumable, NextStepBoundary, phaseVars
  <1>4. ASSUME NEW c, NEW lost \in Losses, Stopped(c, lost) \/ ContinueLoop(c, lost)
        PROVE  stack = <<>> /\ pc # "off" /\ UNCHANGED <<phase, stack>>
    BY <1>4 DEF Stopped, ContinueLoop, BeginTurn, Resumable, EndTurn, NextStepBoundary, phaseVars
  <1>5. CASE ExitDriver
    BY <1>5 DEF ExitDriver, Resumable
  <1>6. QED
    BY <1>1, <1>2, <1>3, <1>4, <1>5, LossesAreClosings DEF Driver

LEMMA OwnsStep ==
  ASSUME TypeOK, DriverOwnsPhase, [Next]_vars
  PROVE  DriverOwnsPhase'
  <1>1. CASE Driver
    <2>1. CASE ExitDriver
      <3>1. stack' = <<ReplayFrame(latch)>> /\ pc' = "off"
        BY <2>1 DEF ExitDriver
      <3>2. ~KickIn(stack)' /\ OneKick(stack)'
        BY <3>1 DEF KickIn, OneKick, ReplayFrame
      <3>3. QED
        BY <3>1, <3>2 DEF DriverOwnsPhase
    <2>2. QED
      BY <1>1, <2>1, DriverSteps, OwnsTurn
  <1>2. CASE SettleMaintenance
    <2>1. stack = <<>> /\ Rest(stack) /\ phase = "maintenance" /\ UNCHANGED pc
      BY <1>2 DEF SettleMaintenance, MaintenanceDone, Rest, turnVars
    <2>2. CASE ReserveDriver(stack)
      BY <2>1, <2>2, OwnsReserve
    <2>3. CASE UNCHANGED stack
      BY <2>1, <2>3, EmptyStack, SameKick DEF DriverOwnsPhase
    <2>4. QED
      BY <1>2, <2>2, <2>3 DEF SettleMaintenance
  <1>3. CASE WaiterLoops \/ WaiterReturns \/ UNCHANGED vars
    <2>1. UNCHANGED <<phase, pc, stack>>
      BY <1>3 DEF WaiterLoops, WaiterReturns, vars, phaseVars, turnVars
    <2>2. QED
      BY <2>1, OwnsSame DEF Rest
  <1>4. QED
    BY <1>1, <1>2, <1>3, OwnsClient, OwnsFrames DEF Next

---------------------------------------------------------------------------
(* LogFollowsDriver and LatchNeedsCancel.                                  *)
LEMMA LogClient ==
  ASSUME LogFollowsDriver, phaseTurn' = phaseTurn, UNCHANGED <<turnVars, logVars>>
  PROVE  LogFollowsDriver'
  BY DEF LogFollowsDriver, TurnIsLogged, StepIsLogged, turnVars, logVars

LEMMA LogBegin ==
  ASSUME LogFollowsDriver, pc \in {"off", "gapLoop"}, NEW c, NEW lost \in Losses, NEW s,
         BeginTurn(c, lost, s)
  PROVE  LogFollowsDriver'
  <1>1. pc \notin InTurn /\ batch = {} /\ "step/end" \notin lost
    BY DEF LogFollowsDriver, InTurn, Losses
  <1>2. CASE pc' = "gapExit" /\ UNCHANGED <<phaseTurn, batch, logVars>>
    BY <1>1, <1>2 DEF LogFollowsDriver, TurnIsLogged, StepIsLogged, InTurn, logVars
  <1>3. CASE OpenTurn(c, lost)
    <2>1. /\ phaseTurn' = logTurn' /\ openStep' = FALSE
          /\ \/ pc' = "assembling" /\ openTurn' = TRUE /\ refused' = {}
             \/ /\ pc' = "gapExit" /\ batch' = batch
                /\ openTurn' = ("turn/end" \in lost) /\ refused' = lost
      BY <1>3 DEF OpenTurn
    <2>2. QED
      BY <1>1, <2>1 DEF LogFollowsDriver, TurnIsLogged, StepIsLogged, InTurn
  <1>4. QED
    BY <1>2, <1>3 DEF BeginTurn

(* A turn that is left: its step and itself are closed or refused.         *)
LEMMA LogLeaves ==
  ASSUME LogFollowsDriver, pc \in InTurn, NEW lost \in Losses,
         NEW reason, LogTurnEnd(reason, lost),
         openStep \/ pc = "errored" => reason \in {"error", "aborted"},
         pc' \in {"gapExit", "gapLoop"}, batch' = {}, phaseTurn' = phaseTurn
  PROVE  LogFollowsDriver'
  <1>1. /\ refused' = refused \cup lost /\ openStep' = (openStep /\ "step/end" \in refused')
        /\ openTurn' = ("turn/end" \in lost) /\ logTurn' = logTurn
        /\ lastEnd' = IF "turn/end" \in lost THEN lastEnd ELSE reason
    BY DEF LogTurnEnd, LogStepEnd
  <1>2. pc' \notin InTurn
    BY DEF InTurn
  <1>3. TurnIsLogged'
    BY <1>1, <1>2 DEF TurnIsLogged
  <1>4. StepIsLogged'
    <2>1. openStep => pc \in {"stepping", "errored"}
      BY DEF LogFollowsDriver, TurnIsLogged, StepIsLogged
    <2>2. QED
      BY <1>1, <2>1 DEF StepIsLogged
  <1>5. QED
    BY <1>1, <1>3, <1>4 DEF LogFollowsDriver

LEMMA LogDriver ==
  ASSUME TypeOK, LogFollowsDriver, Driver
  PROVE  LogFollowsDriver'
  <1> USE DEF LogFollowsDriver, InTurn
  <1>1. ASSUME NEW lost \in Losses, AbortTurn(lost)
        PROVE  LogFollowsDriver'
    BY <1>1, LogLeaves DEF AbortTurn, phaseVars
  <1>2. ASSUME NEW lost \in Losses, FailTurn(lost)
        PROVE  LogFollowsDriver'
    <2>1. /\ refused' = refused \cup (lost \ {"turn/end"})
          /\ openStep' = (openStep /\ "step/end" \in refused')
          /\ pc' = "errored" /\ batch' = {} /\ UNCHANGED <<phaseTurn, logTurn, openTurn>>
      BY <1>2 DEF FailTurn, LogStepEnd, phaseVars
    <2>2. pc \in InTurn \ {"errored"} /\ (pc # "stepping" => "step/end" \notin lost)
      BY <1>2 DEF FailTurn, Losses
    <2>3. openTurn' /\ "turn/end" \notin refused'
      BY <2>1, <2>2 DEF TurnIsLogged
    <2>4. TurnIsLogged'
      BY <2>1, <2>3 DEF TurnIsLogged
    <2>5. StepIsLogged'
      BY <2>1 DEF StepIsLogged
    <2>6. QED
      BY <2>1, <2>4, <2>5
  <1>3. ASSUME NEW lost \in Losses, CloseFailedTurn(lost)
        PROVE  LogFollowsDriver'
    BY <1>3, LogLeaves DEF CloseFailedTurn, Resumable, phaseVars
  <1>4. CASE Assembled
    BY <1>4 DEF Assembled, Resumable, phaseVars, logVars, TurnIsLogged, StepIsLogged
  <1>5. ASSUME NEW lost \in Losses, PreStepRejects(lost)
        PROVE  LogFollowsDriver'
    BY <1>5, LogLeaves
       DEF PreStepRejects, LeaveEarly, Resumable, phaseVars, TurnIsLogged, StepIsLogged
  <1>6. ASSUME NEW kept, NEW extra, NEW c, NEW lost \in Losses, PreStepEnters(kept, extra, c, lost)
        PROVE  LogFollowsDriver'
    <2>0. pc = "preStep"
      BY <1>6 DEF PreStepEnters, Resumable
    <2>1. CASE EndTurn(c, lost)
      BY <2>0, <2>1, LogLeaves DEF EndTurn, TurnIsLogged, StepIsLogged
    <2>2. CASE LeaveEarly("completed", lost)
      BY <2>0, <2>2, LogLeaves DEF LeaveEarly, phaseVars, TurnIsLogged, StepIsLogged
    <2>3. CASE EnterStep
      BY <2>0, <2>3 DEF EnterStep, TurnIsLogged, StepIsLogged
    <2>4. QED
      BY <1>6, <2>1, <2>2, <2>3 DEF PreStepEnters
  <1>7. ASSUME NEW end, StepSettles(end)
        PROVE  LogFollowsDriver'
    <2>1. /\ refused' = refused /\ openStep' = (openStep /\ "step/end" \in refused')
          /\ UNCHANGED <<logTurn, openTurn, phaseTurn>> /\ pc = "stepping" /\ batch = {}
      BY <1>7 DEF StepSettles, LogStepEnd, NextStepBoundary, Resumable, phaseVars
    <2>2. \/ pc' = "stopping" /\ batch' = batch
          \/ pc' = "assembling"
      BY <1>7 DEF StepSettles, NextStepBoundary
    <2>3. QED
      BY <2>1, <2>2 DEF TurnIsLogged, StepIsLogged
  <1>8. ASSUME NEW c, NEW lost \in Losses, Stopped(c, lost)
        PROVE  LogFollowsDriver'
    <2>0. pc = "stopping"
      BY <1>8 DEF Stopped, Resumable
    <2>1. CASE EndTurn(c, lost)
      BY <2>0, <2>1, LogLeaves DEF EndTurn, TurnIsLogged, StepIsLogged
    <2>2. CASE NextStepBoundary /\ UNCHANGED logVars
      BY <2>0, <2>2 DEF NextStepBoundary, phaseVars, logVars, TurnIsLogged, StepIsLogged
    <2>3. QED
      BY <1>8, <2>1, <2>2 DEF Stopped
  <1>9. ASSUME NEW c, NEW lost \in Losses, ContinueLoop(c, lost)
        PROVE  LogFollowsDriver'
    BY <1>9, LogBegin DEF ContinueLoop, Resumable
  <1>10. CASE ExitDriver
    BY <1>10 DEF ExitDriver, Resumable, logVars, TurnIsLogged, StepIsLogged
  <1>11. QED
    BY <1>1, <1>2, <1>3, <1>4, <1>5, <1>6, <1>7, <1>8, <1>9, <1>10 DEF Driver

LEMMA LogStep ==
  ASSUME TypeOK, DriverOwnsPhase, LogFollowsDriver, [Next]_vars
  PROVE  LogFollowsDriver'
  <1>1. CASE Client
    <2>1. phaseTurn' = phaseTurn /\ UNCHANGED <<turnVars, logVars>>
      BY <1>1 DEF Client, SendWaking, SendQuiet, PrependStep, RemoveMessage, ReplaceMessage,
                  CancelKeep, CancelAll, BeginMaintenance, AwaitIdle, phaseVars
    <2>2. QED
      BY <2>1, LogClient
  <1>2. ASSUME NEW c, NEW lost \in Losses, RunKick(c, lost)
        PROVE  LogFollowsDriver'
    <2>1. pc = "off"
      BY <1>2, PopTop DEF RunKick, TopIs, DriverOwnsPhase
    <2>2. QED
      BY <1>2, <2>1, LogBegin DEF RunKick
  <1>3. CASE RunWake \/ RunClearTurn \/ RunAbort \/ RunReplay \/ SettleMaintenance
    <2>1. phaseTurn' = phaseTurn /\ UNCHANGED <<turnVars, logVars>>
      BY <1>3 DEF RunWake, RunClearTurn, RunAbort, RunReplay, SettleMaintenance,
                  WakeDriver, ReserveDriver, LatchWake, phaseVars
    <2>2. QED
      BY <2>1, LogClient
  <1>4. CASE WaiterLoops \/ WaiterReturns \/ UNCHANGED vars
    BY <1>4, LogClient DEF WaiterLoops, WaiterReturns, vars, phaseVars, turnVars, logVars
  <1>5. QED
    BY <1>1, <1>2, <1>3, <1>4, LogDriver DEF Next, Frames


(* A step that pops frames, or pushes one that is not a late wake, and     *)
(* leaves an aborted activity aborted.                                     *)
LEMMA LateKeeps ==
  ASSUME TypeOK, LateWakesFindAbort, NEW s, Rest(s),
         stack' = s \/ \E f \in Frame : ~(f.op = "wake" /\ f.flag) /\ stack' = Append(s, f),
         phase # "idle" /\ abort # "none" => phase' # "idle" /\ abort' # "none"
  PROVE  LateWakesFindAbort'
  <1>1. LateWakeIn(s) => LateWakeIn(stack)
    BY RestKick
  <1>2. ASSUME NEW f \in Frame, ~(f.op = "wake" /\ f.flag), stack' = Append(s, f)
        PROVE  LateWakeIn(stack') => LateWakeIn(s)
    BY <1>2, PushKick, RestKick
  <1>3. LateWakeIn(stack') => LateWakeIn(s)
    BY <1>2
  <1>4. LateWakeIn(stack)' => LateWakeIn(stack')
    BY DEF LateWakeIn
  <1>5. QED
    BY <1>1, <1>3, <1>4 DEF LateWakesFindAbort

LEMMA LateWake ==
  ASSUME TypeOK, LateWakesFindAbort, NEW after, NEW s, Rest(s), WakeDriver(after, s)
  PROVE  LateWakesFindAbort'
  <1>1. CASE phase = "idle" /\ ReserveDriver(s)
    BY <1>1, LateKeeps, FrameTypes DEF ReserveDriver, KickFrame
  <1>2. CASE LatchWake(after, s)
    BY <1>2, LateKeeps DEF LatchWake
  <1>3. QED
    BY <1>1, <1>2 DEF WakeDriver

LEMMA LateClear ==
  ASSUME TypeOK, LateWakesFindAbort, NEW c \in Causes \cup {"none"}, NEW s, Rest(s),
         ClearTurnList(c, s), UNCHANGED phase
  PROVE  LateWakesFindAbort'
  <1>1. abort # "none" => abort' # "none"
    BY DEF ClearTurnList, FinishCancel, AbortPhase
  <1>2. CASE stack' = Append(s, AbortFrame(c))
    BY <1>1, <1>2, LateKeeps, FrameTypes DEF AbortFrame
  <1>3. CASE stack' = s
    BY <1>1, <1>3, LateKeeps
  <1>4. QED
    BY <1>2, <1>3 DEF ClearTurnList, FinishCancel

LEMMA LateClient ==
  ASSUME TypeOK, LateWakesFindAbort, Client
  PROVE  LateWakesFindAbort'
  <1>0. Rest(stack)
    BY DEF Rest
  <1>1. ASSUME NEW m \in Messages, NEW t, SendWaking(m, t)
        PROVE  LateWakesFindAbort'
    <2>1. /\ stack' = Append(stack, WakeFrame(wakingAfterAbort(TRUE)))
          /\ UNCHANGED <<phase, abort>>
      BY <1>1 DEF SendWaking, phaseVars
    <2>2. /\ WakeFrame(wakingAfterAbort(TRUE)) \in Frame
          /\ WakeFrame(wakingAfterAbort(TRUE)).flag = wakingAfterAbort(TRUE)
      BY FrameTypes DEF WakeFrame, wakingAfterAbort
    <2>3. CASE wakingAfterAbort(TRUE)
      <3>1. phase' # "idle" /\ abort' # "none"
        BY <2>1, <2>3 DEF wakingAfterAbort
      <3>2. QED
        BY <3>1 DEF LateWakesFindAbort
    <2>4. CASE ~wakingAfterAbort(TRUE)
      BY <1>0, <2>1, <2>2, <2>4, LateKeeps
    <2>5. QED
      BY <2>3, <2>4
  <1>2. ASSUME NEW c \in Causes, CancelAll(c)
        PROVE  LateWakesFindAbort'
    <2>1. UNCHANGED phase
      BY <1>2 DEF CancelAll
    <2>2. CASE stack' = Append(stack, ClearFrame(c)) /\ UNCHANGED abort
      BY <1>0, <2>1, <2>2, LateKeeps, FrameTypes DEF ClearFrame
    <2>3. CASE ClearTurnList(c, stack)
      BY <1>0, <2>1, <2>3, LateClear
    <2>4. QED
      BY <1>2, <2>2, <2>3 DEF CancelAll
  <1>3. CASE BeginMaintenance
    BY <1>0, <1>3, LateKeeps DEF BeginMaintenance
  <1>4. CASE UNCHANGED <<phase, abort, stack>>
    BY <1>0, <1>4, LateKeeps
  <1>5. ASSUME NEW m, NEW t, SendQuiet(m, t)
        PROVE  LateWakesFindAbort'
    BY <1>4, <1>5 DEF SendQuiet, phaseVars
  <1>6. ASSUME NEW m, PrependStep(m) \/ RemoveMessage(m)
        PROVE  LateWakesFindAbort'
    BY <1>4, <1>6 DEF PrependStep, RemoveMessage, phaseVars
  <1>7. ASSUME NEW m, NEW n, ReplaceMessage(m, n)
        PROVE  LateWakesFindAbort'
    BY <1>4, <1>7 DEF ReplaceMessage, phaseVars
  <1>8. ASSUME NEW c \in Causes, CancelKeep(c)
        PROVE  LateWakesFindAbort'
    BY <1>0, <1>8, LateKeeps DEF CancelKeep, AbortPhase
  <1>9. CASE AwaitIdle
    BY <1>4, <1>9 DEF AwaitIdle, phaseVars
  <1>10. QED
    BY <1>1, <1>2, <1>3, <1>5, <1>6, <1>7, <1>8, <1>9 DEF Client

LEMMA LateFrames ==
  ASSUME TypeOK, LateWakesFindAbort, Frames
  PROVE  LateWakesFindAbort'
  <1>0. stack # <<>> /\ Rest(Below)
    BY DEF Frames, RunWake, RunClearTurn, RunAbort, RunReplay, RunKick, TopIs, Rest
  <1>1. CASE RunWake
    BY <1>0, <1>1, LateWake DEF RunWake
  <1>2. CASE RunClearTurn
    BY <1>0, <1>2, LateClear, TopTypes DEF RunClearTurn, TypeOK
  <1>3. CASE RunAbort
    BY <1>0, <1>3, LateKeeps DEF RunAbort, FinishCancel, AbortPhase
  <1>4. CASE RunReplay
    <2>1. CASE WakeDriver(FALSE, Below)
      BY <1>0, <2>1, LateWake
    <2>2. CASE stack' = Below /\ UNCHANGED phaseVars
      BY <1>0, <2>2, LateKeeps DEF phaseVars
    <2>3. QED
      BY <1>4, <2>1, <2>2 DEF RunReplay
  <1>5. ASSUME NEW c, NEW lost \in Losses, RunKick(c, lost)
        PROVE  LateWakesFindAbort'
    <2>1. stack' = Below /\ UNCHANGED phase /\ (abort # "none" => abort' = abort)
      BY <1>5 DEF RunKick, BeginTurn, OpenTurn
    <2>2. QED
      BY <1>0, <2>1, LateKeeps
  <1>6. QED
    BY <1>1, <1>2, <1>3, <1>4, <1>5 DEF Frames

LEMMA LateStep ==
  ASSUME TypeOK, LateWakesFindAbort, [Next]_vars
  PROVE  LateWakesFindAbort'
  <1>1. CASE Driver
    <2>1. CASE ExitDriver
      <3>1. stack' = <<ReplayFrame(latch)>>
        BY <2>1 DEF ExitDriver
      <3>2. ~LateWakeIn(stack)'
        BY <3>1 DEF LateWakeIn, ReplayFrame
      <3>3. QED
        BY <3>2 DEF LateWakesFindAbort
    <2>2. CASE UNCHANGED stack
      BY <1>1, <2>2, DriverSteps, EmptyStack, SameKick DEF LateWakesFindAbort
    <2>3. QED
      BY <1>1, <2>1, <2>2, DriverSteps
  <1>2. CASE SettleMaintenance
    <2>1. stack = <<>> /\ Rest(stack)
      BY <1>2 DEF SettleMaintenance, MaintenanceDone, Rest
    <2>2. CASE ReserveDriver(stack)
      <3>1. ~LateWakeIn(stack') /\ stack' = Append(stack, KickFrame)
        BY <2>1, <2>2, EmptyStack, PushKick, FrameTypes DEF ReserveDriver, KickFrame, TypeOK,
           WaitTypes
      <3>2. ~LateWakeIn(stack)'
        BY <3>1 DEF LateWakeIn
      <3>3. QED
        BY <3>2 DEF LateWakesFindAbort
    <2>3. CASE UNCHANGED stack
      BY <2>1, <2>3, EmptyStack, SameKick DEF LateWakesFindAbort
    <2>4. QED
      BY <1>2, <2>2, <2>3 DEF SettleMaintenance
  <1>3. CASE WaiterLoops \/ WaiterReturns \/ UNCHANGED vars
    <2>1. UNCHANGED <<phase, abort, stack>>
      BY <1>3 DEF WaiterLoops, WaiterReturns, vars, phaseVars
    <2>2. QED
      BY <2>1, LateKeeps DEF Rest
  <1>4. QED
    BY <1>1, <1>2, <1>3, LateClient, LateFrames DEF Next

---------------------------------------------------------------------------
(* LatchNeedsCancel.                                                       *)
LEMMA LatchKeeps ==
  ASSUME LatchNeedsCancel, UNCHANGED phase, latch' = latch \/ latch' = FALSE,
         abort # "none" => abort' # "none"
  PROVE  LatchNeedsCancel'
  BY DEF LatchNeedsCancel

LEMMA LatchWakes ==
  ASSUME LatchNeedsCancel, NEW s, NEW after, after => abort # "none", WakeDriver(after, s)
  PROVE  LatchNeedsCancel'
  <1>1. CASE ReserveDriver(s)
    BY <1>1 DEF ReserveDriver, LatchNeedsCancel
  <1>2. CASE LatchWake(after, s)
    BY <1>2 DEF LatchWake, MustLatch, LatchNeedsCancel
  <1>3. QED
    BY <1>1, <1>2 DEF WakeDriver

LEMMA LatchEnd ==
  ASSUME LatchNeedsCancel, throwIfAborted, NEW c, NEW lost \in Losses, EndTurn(c, lost)
  PROVE  LatchNeedsCancel'
  <1>1. CASE GoesOn
    BY <1>1 DEF EndTurn, LatchNeedsCancel
  <1>2. CASE ~GoesOn
    BY <1>2 DEF EndTurn, LatchNeedsCancel, throwIfAborted
  <1>3. QED
    BY <1>1, <1>2

LEMMA LatchClient ==
  ASSUME LatchNeedsCancel, Client
  PROVE  LatchNeedsCancel'
  <1>1. ASSUME NEW m, NEW t, SendWaking(m, t) \/ SendQuiet(m, t)
        PROVE  LatchNeedsCancel'
    BY <1>1, LatchKeeps DEF SendWaking, SendQuiet, phaseVars
  <1>2. ASSUME NEW m, PrependStep(m) \/ RemoveMessage(m)
        PROVE  LatchNeedsCancel'
    BY <1>2, LatchKeeps DEF PrependStep, RemoveMessage, phaseVars
  <1>3. ASSUME NEW m, NEW n, ReplaceMessage(m, n)
        PROVE  LatchNeedsCancel'
    BY <1>3, LatchKeeps DEF ReplaceMessage, phaseVars
  <1>4. ASSUME NEW c, CancelKeep(c)
        PROVE  LatchNeedsCancel'
    BY <1>4, LatchKeeps DEF CancelKeep, AbortPhase
  <1>5. ASSUME NEW c, CancelAll(c)
        PROVE  LatchNeedsCancel'
    BY <1>5, LatchKeeps DEF CancelAll, ClearTurnList, FinishCancel, AbortPhase
  <1>6. CASE BeginMaintenance
    BY <1>6 DEF BeginMaintenance, LatchNeedsCancel
  <1>7. CASE AwaitIdle
    BY <1>7, LatchKeeps DEF AwaitIdle, phaseVars
  <1>8. QED
    BY <1>1, <1>2, <1>3, <1>4, <1>5, <1>6, <1>7 DEF Client

LEMMA LatchFrames ==
  ASSUME TypeOK, LateWakesFindAbort, LatchNeedsCancel, Frames
  PROVE  LatchNeedsCancel'
  <1>1. CASE RunWake
    <2>1. Top.flag => abort # "none"
      BY <1>1, PopTop DEF RunWake, TopIs, LateWakesFindAbort
    <2>2. QED
      BY <1>1, <2>1, LatchWakes DEF RunWake
  <1>2. CASE RunClearTurn \/ RunAbort
    BY <1>2, LatchKeeps DEF RunClearTurn, RunAbort, ClearTurnList, FinishCancel, AbortPhase
  <1>3. CASE RunReplay
    BY <1>3, LatchWakes, LatchKeeps DEF RunReplay, phaseVars
  <1>4. ASSUME NEW c, NEW lost \in Losses, RunKick(c, lost)
        PROVE  LatchNeedsCancel'
    BY <1>4 DEF RunKick, BeginTurn, LatchNeedsCancel
  <1>5. QED
    BY <1>1, <1>2, <1>3, <1>4 DEF Frames

LEMMA LatchDriver ==
  ASSUME LatchNeedsCancel, Driver
  PROVE  LatchNeedsCancel'
  <1>1. ASSUME NEW lost \in Losses,
          \/ AbortTurn(lost)
          \/ FailTurn(lost)
          \/ CloseFailedTurn(lost)
          \/ Assembled
          \/ PreStepRejects(lost)
        PROVE  LatchNeedsCancel'
    BY <1>1, LatchKeeps
       DEF AbortTurn, FailTurn, CloseFailedTurn, Assembled, PreStepRejects, LeaveEarly, phaseVars
  <1>2. ASSUME NEW kept, NEW extra, NEW c, NEW lost \in Losses, PreStepEnters(kept, extra, c, lost)
        PROVE  LatchNeedsCancel'
    <2>1. CASE EndTurn(c, lost)
      BY <1>2, <2>1, LatchEnd DEF PreStepEnters
    <2>2. CASE LeaveEarly("completed", lost) \/ EnterStep
      BY <2>2, LatchKeeps DEF LeaveEarly, EnterStep, phaseVars
    <2>3. QED
      BY <1>2, <2>1, <2>2 DEF PreStepEnters
  <1>3. ASSUME NEW end, StepSettles(end)
        PROVE  LatchNeedsCancel'
    BY <1>3, LatchKeeps DEF StepSettles, NextStepBoundary, phaseVars
  <1>4. ASSUME NEW c, NEW lost \in Losses, Stopped(c, lost)
        PROVE  LatchNeedsCancel'
    BY <1>4, LatchEnd, LatchKeeps DEF Stopped, NextStepBoundary, phaseVars
  <1>5. ASSUME NEW c, NEW lost \in Losses, ContinueLoop(c, lost)
        PROVE  LatchNeedsCancel'
    BY <1>5 DEF ContinueLoop, BeginTurn, LatchNeedsCancel
  <1>6. CASE ExitDriver
    BY <1>6 DEF ExitDriver, LatchNeedsCancel
  <1>7. QED
    BY <1>1, <1>2, <1>3, <1>4, <1>5, <1>6, LossesAreClosings DEF Driver

LEMMA LatchStep ==
  ASSUME TypeOK, LateWakesFindAbort, LatchNeedsCancel, [Next]_vars
  PROVE  LatchNeedsCancel'
  <1>1. CASE SettleMaintenance
    BY <1>1 DEF SettleMaintenance, ReserveDriver, LatchNeedsCancel
  <1>2. CASE WaiterLoops \/ WaiterReturns \/ UNCHANGED vars
    BY <1>2, LatchKeeps DEF WaiterLoops, WaiterReturns, vars, phaseVars
  <1>3. QED
    BY <1>1, <1>2, LatchClient, LatchFrames, LatchDriver DEF Next

---------------------------------------------------------------------------
(* What the operations on the inbox do to the pending set.                 *)
LEMMA PendingIff ==
  ASSUME InboxTypes
  PROVE  /\ hasPending <=> Pending # {}
         /\ nextStep = <<>> => Pending = ToSet(nextTurn)
         /\ nextTurn = <<>> => Pending = ToSet(nextStep)
  <1>1. ASSUME NEW s \in Seq(Messages)
        PROVE  s = <<>> <=> ToSet(s) = {}
    <2>1. CASE s = <<>>
      BY <2>1 DEF ToSet
    <2>2. CASE s # <<>>
      <3>1. 1 \in DOMAIN s
        BY <2>2
      <3>2. QED
        BY <2>2, <3>1 DEF ToSet
    <2>3. QED
      BY <2>1, <2>2
  <1>2. (nextTurn = <<>> <=> ToSet(nextTurn) = {}) /\ (nextStep = <<>> <=> ToSet(nextStep) = {})
    BY <1>1 DEF InboxTypes
  <1>3. QED
    BY <1>2 DEF hasPending, Pending

LEMMA AppendSet ==
  ASSUME NEW s \in Seq(Messages), NEW m \in Messages
  PROVE  ToSet(s) \subseteq ToSet(Append(s, m)) /\ ToSet(s) \subseteq ToSet(<<m>> \o s)
  <1>1. ToSet(s) \subseteq ToSet(Append(s, m))
    BY PushFrame DEF ToSet
  <1>2. ASSUME NEW i \in DOMAIN s
        PROVE  s[i] \in ToSet(<<m>> \o s)
    <2>1. <<m>> \in Seq(Messages) /\ Len(<<m>>) = 1 /\ Len(s) \in Nat /\ i \in 1..Len(s)
      OBVIOUS
    <2>2. /\ Len(<<m>> \o s) = 1 + Len(s)
          /\ DOMAIN (<<m>> \o s) = 1..(1 + Len(s))
          /\ (<<m>> \o s)[i + 1] = s[i]
      BY <2>1, ConcatProperties
    <2>3. i + 1 \in DOMAIN (<<m>> \o s)
      BY <2>1, <2>2
    <2>4. QED
      BY <2>2, <2>3 DEF ToSet
  <1>3. QED
    BY <1>1, <1>2 DEF ToSet

LEMMA ExceptSet ==
  ASSUME NEW s \in Seq(Messages), NEW i \in DOMAIN s, NEW n \in Messages
  PROVE  (ToSet(s) \ {s[i]}) \cup {n} \subseteq ToSet([s EXCEPT ![i] = n])
  BY DEF ToSet

LEMMA TailSet ==
  ASSUME NEW s \in Seq(Messages), s # <<>>
  PROVE  ToSet(s) \subseteq {Head(s)} \cup ToSet(Tail(s))
  <1>1. ASSUME NEW i \in DOMAIN s
        PROVE  s[i] \in {Head(s)} \cup ToSet(Tail(s))
    <2>1. Len(s) \in Nat /\ i \in 1..Len(s) /\ DOMAIN Tail(s) = 1..(Len(s) - 1)
      OBVIOUS
    <2>2. CASE i = 1
      BY <2>2
    <2>3. CASE i # 1
      <3>1. i - 1 \in DOMAIN Tail(s) /\ Tail(s)[i - 1] = s[i]
        BY <2>1, <2>3
      <3>2. QED
        BY <3>1 DEF ToSet
    <2>4. QED
      BY <2>2, <2>3
  <1>2. QED
    BY <1>1 DEF ToSet

LEMMA ClaimPending ==
  ASSUME TypeOK, NEW t, Claim(t)
  PROVE  Pending \ Claimed(t) \subseteq Pending'
  <1>1. nextTurn # <<>> => ToSet(nextTurn) \subseteq {Head(nextTurn)} \cup ToSet(Tail(nextTurn))
    BY TailSet DEF TypeOK, InboxTypes
  <1>2. ToSet(nextTurn) \ Claimed(t) \subseteq ToSet(nextTurn)'
    BY <1>1 DEF Claim, Claimed, ToSet
  <1>3. ToSet(nextStep) \subseteq Claimed(t)
    BY DEF Claimed
  <1>4. QED
    BY <1>2, <1>3 DEF Pending

LEMMA RemovePending ==
  ASSUME TypeOK, NEW m \in Messages, RemoveMessage(m)
  PROVE  Pending \ {m} \subseteq Pending'
  <1>1. ASSUME NEW i \in DOMAIN nextTurn, nextTurn[i] = m, nextTurn' = RemoveAt(nextTurn, i),
               UNCHANGED nextStep
        PROVE  Pending \ {m} \subseteq Pending'
    <2>1. ToSet(nextTurn) \subseteq ToSet(nextTurn') \cup {m}
      BY <1>1, RemoveAtSeq DEF TypeOK, InboxTypes
    <2>2. QED
      BY <1>1, <2>1 DEF Pending, ToSet
  <1>2. ASSUME NEW i \in DOMAIN nextStep, nextStep[i] = m, nextStep' = RemoveAt(nextStep, i),
               UNCHANGED nextTurn
        PROVE  Pending \ {m} \subseteq Pending'
    <2>1. ToSet(nextStep) \subseteq ToSet(nextStep') \cup {m}
      BY <1>2, RemoveAtSeq DEF TypeOK, InboxTypes
    <2>2. QED
      BY <1>2, <2>1 DEF Pending, ToSet
  <1>3. QED
    BY <1>1, <1>2 DEF RemoveMessage

LEMMA ReplacePending ==
  ASSUME TypeOK, NEW m \in Messages, NEW n \in Messages, ReplaceMessage(m, n)
  PROVE  (Pending \ {m}) \cup {n} \subseteq Pending'
  <1>1. ASSUME NEW i \in DOMAIN nextTurn, nextTurn[i] = m, nextTurn' = [nextTurn EXCEPT ![i] = n],
               UNCHANGED nextStep
        PROVE  (Pending \ {m}) \cup {n} \subseteq Pending'
    <2>1. (ToSet(nextTurn) \ {m}) \cup {n} \subseteq ToSet(nextTurn')
      BY <1>1, ExceptSet DEF TypeOK, InboxTypes
    <2>2. QED
      BY <1>1, <2>1 DEF Pending, ToSet
  <1>2. ASSUME NEW i \in DOMAIN nextStep, nextStep[i] = m, nextStep' = [nextStep EXCEPT ![i] = n],
               UNCHANGED nextTurn
        PROVE  (Pending \ {m}) \cup {n} \subseteq Pending'
    <2>1. (ToSet(nextStep) \ {m}) \cup {n} \subseteq ToSet(nextStep')
      BY <1>2, ExceptSet DEF TypeOK, InboxTypes
    <2>2. QED
      BY <1>2, <2>1 DEF Pending, ToSet
  <1>3. QED
    BY <1>1, <1>2 DEF ReplaceMessage

LEMMA InsertPending ==
  ASSUME TypeOK, NEW m \in Messages, NEW t, InsertLast(m, t)
  PROVE  Pending \subseteq Pending'
  <1>1. ToSet(nextTurn) \subseteq ToSet(nextTurn') /\ ToSet(nextStep) \subseteq ToSet(nextStep')
    BY AppendSet DEF TypeOK, InboxTypes, InsertLast
  <1>2. QED
    BY <1>1 DEF Pending, ToSet

LEMMA PrependPending ==
  ASSUME TypeOK, NEW m \in Messages, PrependStep(m)
  PROVE  Pending \subseteq Pending'
  <1>1. nextTurn' = nextTurn /\ ToSet(nextStep) \subseteq ToSet(nextStep')
    BY AppendSet DEF TypeOK, InboxTypes, PrependStep
  <1>2. QED
    BY <1>1 DEF Pending, ToSet

LEMMA SamePending ==
  ASSUME UNCHANGED <<nextTurn, nextStep>>
  PROVE  Pending' = Pending
  BY DEF Pending, ToSet

---------------------------------------------------------------------------
(* SomebodyServes.                                                         *)

(* Whoever serves the promised work still does when the phase, the latch   *)
(* and the replays stay, a live driver stays live, and an abort of         *)
(* maintenance is not a disposal.                                          *)
LEMMA ServedKeeps ==
  ASSUME TypeOK, Served, UNCHANGED <<phase, latch>>,
         phase # "running" /\ ReplayIn(stack) => ReplayIn(stack'),
         phase = "maintenance" /\ abort # "disposed" => abort' # "disposed",
         phase = "running" /\ LiveDriver /\ ~latch => LiveDriver'
  PROVE  Served'
  <1>1. ReplayIn(stack') => ReplayIn(stack)'
    BY DEF ReplayIn
  <1>2. QED
    BY <1>1 DEF Served

(* Pushing a frame, or popping one that is not a latched replay, keeps the *)
(* replays.                                                                *)
LEMMA ReplayKeeps ==
  ASSUME TypeOK, NEW s, \/ s = stack
                        \/ stack # <<>> /\ s = Below /\ ~(Top.op = "replay" /\ Top.flag),
         stack' = s \/ \E f \in Frame : stack' = Append(s, f)
  PROVE  ReplayIn(stack) => ReplayIn(stack')
  <1>1. s \in Seq(Frame) /\ (ReplayIn(stack) => ReplayIn(s))
    BY PopTop DEF TypeOK, WaitTypes
  <1>2. ASSUME NEW f \in Frame, stack' = Append(s, f)
        PROVE  ReplayIn(s) => ReplayIn(stack')
    BY <1>1, <1>2, PushKick
  <1>3. QED
    BY <1>1, <1>2

LEMMA ServesReserve ==
  ASSUME TypeOK, pc = "off", UNCHANGED <<nextTurn, nextStep, pc>>, NEW s, ReserveDriver(s)
  PROVE  SomebodyServes'
  <1>1. owed' = Pending' /\ phase' = "running" /\ LiveDriver'
    BY SamePending DEF ReserveDriver, LiveDriver
  <1>2. QED
    BY <1>1 DEF SomebodyServes, Served

(* LatchWake after popping a frame: a popped replay is replaced by the     *)
(* latch.                                                                  *)
LEMMA ServesLatch ==
  ASSUME TypeOK, SomebodyServes, UNCHANGED <<nextTurn, nextStep, pc>>, phase # "idle",
         NEW after, NEW s, LatchWake(after, s)
  PROVE  SomebodyServes'
  <1>1. UNCHANGED <<phase, abort>> /\ (LiveDriver' <=> LiveDriver)
    BY DEF LatchWake, LiveDriver
  <1>2. Pending' = Pending
    BY SamePending
  <1>0. Promised(after) <=> latch' \/ LiveDriver
    BY DEF Promised, LatchWake, MustLatch
  <1>3. CASE latch' \/ LiveDriver
    <2>1. owed' = Pending
      BY <1>0, <1>3 DEF LatchWake
    <2>2. Served'
      BY <1>1, <1>3 DEF Served, LiveDriver, TypeOK, PhaseTypes
    <2>3. QED
      BY <1>2, <2>1, <2>2 DEF SomebodyServes
  <1>4. CASE ~(latch' \/ LiveDriver)
    <2>1. owed' = owed
      BY <1>0, <1>4 DEF LatchWake
    <2>2. ~latch /\ ~MustLatch(after)
      BY <1>4 DEF LatchWake
    <2>3. owed = {}
      BY <1>4, <2>2 DEF SomebodyServes, Served, MustLatch
    <2>4. QED
      BY <2>1, <2>3 DEF SomebodyServes
  <1>5. QED
    BY <1>3, <1>4

LEMMA ServesWake ==
  ASSUME TypeOK, DriverOwnsPhase, SomebodyServes, UNCHANGED <<nextTurn, nextStep, pc>>,
         NEW after, NEW s, WakeDriver(after, s)
  PROVE  SomebodyServes'
  BY ServesReserve, ServesLatch DEF WakeDriver, DriverOwnsPhase

LEMMA ServesClear ==
  ASSUME TypeOK, SomebodyServes, NEW c \in Causes \cup {"none"},
         NEW s, \/ s = stack
                \/ stack # <<>> /\ s = Below /\ ~(Top.op = "replay" /\ Top.flag),
         ClearTurnList(c, s), UNCHANGED <<phase, pc, nextStep>>
  PROVE  SomebodyServes'
  <1>1. CASE nextTurn # <<>>
    <2>1. owed' = owed \ ToSet(nextTurn) /\ stack' = Append(s, AbortFrame(c)) /\ UNCHANGED <<abort, latch>>
      BY <1>1 DEF ClearTurnList
    <2>2. owed' \subseteq Pending'
      BY <2>1 DEF SomebodyServes, Pending, ToSet
    <2>3. ReplayIn(stack) => ReplayIn(stack')
      BY <2>1, ReplayKeeps, FrameTypes
    <2>4. Served => Served'
      BY <2>1, <2>3, ServedKeeps DEF LiveDriver
    <2>5. QED
      BY <2>1, <2>2, <2>4 DEF SomebodyServes
  <1>2. CASE nextTurn = <<>>
    <2>1. FinishCancel(c, s) /\ Pending' = Pending
      BY <1>2, SamePending DEF ClearTurnList
    <2>2. CASE phase = "idle"
      <3>1. owed' = owed /\ stack' = s
        BY <2>1, <2>2 DEF FinishCancel
      <3>2. ReplayIn(stack) => ReplayIn(stack)'
        BY <3>1, ReplayKeeps DEF ReplayIn
      <3>3. QED
        BY <2>1, <2>2, <3>1, <3>2 DEF SomebodyServes, Served
    <2>3. CASE phase # "idle"
      BY <2>1, <2>3 DEF FinishCancel, SomebodyServes
    <2>4. QED
      BY <2>2, <2>3
  <1>3. QED
    BY <1>1, <1>2

LEMMA ServesClient ==
  ASSUME TypeOK, SomebodyServes, Client
  PROVE  SomebodyServes'
  <1>1. ASSUME NEW m \in Messages, NEW t, SendWaking(m, t)
        PROVE  SomebodyServes'
    <2>1. /\ stack' = Append(stack, WakeFrame(wakingAfterAbort(TRUE)))
          /\ UNCHANGED <<phase, abort, latch, pc, owed>>
      BY <1>1 DEF SendWaking, phaseVars, turnVars
    <2>2. Pending \subseteq Pending'
      BY <1>1, InsertPending DEF SendWaking
    <2>3. ReplayIn(stack) => ReplayIn(stack')
      BY <2>1, ReplayKeeps, FrameTypes DEF wakingAfterAbort
    <2>4. Served => Served'
      BY <2>1, <2>3, ServedKeeps DEF LiveDriver
    <2>5. QED
      BY <2>1, <2>2, <2>4 DEF SomebodyServes
  <1>2. CASE UNCHANGED <<phase, abort, latch, pc, stack>> /\ (owed = {} => owed' = {}) /\ owed' \subseteq Pending'
    BY <1>2, ServedKeeps DEF SomebodyServes, LiveDriver
  <1>3. ASSUME NEW m \in Messages, NEW t, SendQuiet(m, t)
        PROVE  SomebodyServes'
    <2>1. Pending \subseteq Pending'
      BY <1>3, InsertPending DEF SendQuiet
    <2>2. QED
      BY <1>2, <1>3, <2>1 DEF SendQuiet, SomebodyServes, phaseVars, turnVars
  <1>4. ASSUME NEW m \in Messages, PrependStep(m)
        PROVE  SomebodyServes'
    <2>1. Pending \subseteq Pending'
      BY <1>4, PrependPending
    <2>2. QED
      BY <1>2, <1>4, <2>1 DEF PrependStep, SomebodyServes, phaseVars, turnVars
  <1>5. ASSUME NEW m \in Messages, RemoveMessage(m)
        PROVE  SomebodyServes'
    <2>1. Pending \ {m} \subseteq Pending'
      BY <1>5, RemovePending
    <2>2. owed' = owed \ {m} /\ UNCHANGED <<phase, abort, latch, pc, stack>>
      BY <1>5 DEF RemoveMessage, phaseVars, turnVars
    <2>3. QED
      BY <1>2, <2>1, <2>2 DEF SomebodyServes
  <1>6. ASSUME NEW m \in Messages, NEW n \in Messages, ReplaceMessage(m, n)
        PROVE  SomebodyServes'
    <2>1. (Pending \ {m}) \cup {n} \subseteq Pending'
      BY <1>6, ReplacePending
    <2>2. owed' = (IF m \in owed THEN (owed \ {m}) \cup {n} ELSE owed)
          /\ UNCHANGED <<phase, abort, latch, pc, stack>>
      BY <1>6 DEF ReplaceMessage, phaseVars, turnVars
    <2>3. owed' \subseteq Pending' /\ (owed = {} => owed' = {})
      BY <2>1, <2>2 DEF SomebodyServes
    <2>4. QED
      BY <1>2, <2>2, <2>3
  <1>7. ASSUME NEW c \in Causes, CancelKeep(c)
        PROVE  SomebodyServes'
    <2>1. UNCHANGED <<phase, latch, pc, stack>> /\ c # "disposed" /\ abort' \in {abort, c}
      BY <1>7 DEF CancelKeep, AbortPhase, turnVars
    <2>2. Pending' = Pending
      BY <1>7, SamePending DEF CancelKeep, inboxVars
    <2>3. CASE LiveDriver
      BY <1>7, <2>3 DEF CancelKeep, SomebodyServes
    <2>4. CASE ~LiveDriver
      <3>1. Served => Served'
        BY <2>1, <2>4, ServedKeeps
      <3>2. QED
        BY <1>7, <2>2, <2>4, <3>1 DEF CancelKeep, SomebodyServes
    <2>5. QED
      BY <2>3, <2>4
  <1>8. ASSUME NEW c \in Causes, CancelAll(c)
        PROVE  SomebodyServes'
    <2>1. UNCHANGED <<phase, pc>>
      BY <1>8 DEF CancelAll, turnVars
    <2>2. CASE nextStep # <<>>
      <3>1. /\ owed' = owed \ ToSet(nextStep) /\ stack' = Append(stack, ClearFrame(c))
            /\ UNCHANGED <<nextTurn, abort, latch>>
        BY <1>8, <2>2 DEF CancelAll
      <3>2. owed' \subseteq Pending'
        BY <3>1 DEF SomebodyServes, Pending, ToSet
      <3>3. ReplayIn(stack) => ReplayIn(stack')
        BY <3>1, ReplayKeeps, FrameTypes
      <3>4. Served => Served'
        BY <2>1, <3>1, <3>3, ServedKeeps DEF LiveDriver
      <3>5. QED
        BY <3>1, <3>2, <3>4 DEF SomebodyServes
    <2>3. CASE nextStep = <<>>
      <3>1. ClearTurnList(c, stack) /\ UNCHANGED nextStep
        BY <1>8, <2>3 DEF CancelAll
      <3>2. QED
        BY <2>1, <3>1, ServesClear
    <2>4. QED
      BY <2>2, <2>3
  <1>9. CASE BeginMaintenance
    <2>1. /\ phase = "idle" /\ phase' = "maintenance" /\ abort' = "none"
          /\ UNCHANGED <<nextTurn, nextStep, stack, owed>>
      BY <1>9 DEF BeginMaintenance, inboxVars
    <2>2. Pending' = Pending /\ (ReplayIn(stack)' <=> ReplayIn(stack))
      BY <2>1, SamePending, SameKick
    <2>3. QED
      BY <2>1, <2>2 DEF SomebodyServes, Served
  <1>10. CASE AwaitIdle
    <2>1. UNCHANGED <<nextTurn, nextStep, owed>>
      BY <1>10 DEF AwaitIdle, inboxVars
    <2>2. QED
      BY <1>2, <1>10, <2>1, SamePending DEF AwaitIdle, SomebodyServes, phaseVars, turnVars
  <1>11. QED
    BY <1>1, <1>3, <1>4, <1>5, <1>6, <1>7, <1>8, <1>9, <1>10 DEF Client

LEMMA ServesBegin ==
  ASSUME TypeOK, SomebodyServes, phase = "running", NEW c, NEW lost, NEW s, BeginTurn(c, lost, s)
  PROVE  SomebodyServes'
  <1>1. UNCHANGED <<phase, latch>>
    BY DEF BeginTurn
  <1>2. CASE abort # "none"
    <2>1. UNCHANGED <<owed, nextTurn, nextStep, abort>>
      BY <1>2 DEF BeginTurn
    <2>2. owed # {} => latch
      BY <1>2 DEF SomebodyServes, Served, LiveDriver
    <2>3. QED
      BY <1>1, <2>1, <2>2, SamePending DEF SomebodyServes, Served
  <1>3. CASE Claim("next-turn") /\ abort = "none" /\ pc' = "assembling" /\ UNCHANGED abort
    <2>2. owed' = owed \ Claimed("next-turn") /\ Pending \ Claimed("next-turn") \subseteq Pending'
      BY <1>3, ClaimPending DEF Claim
    <2>3. LiveDriver'
      BY <1>1, <1>3 DEF LiveDriver
    <2>4. QED
      BY <1>1, <2>2, <2>3 DEF SomebodyServes, Served
  <1>4. CASE owed' = {}
    BY <1>4 DEF SomebodyServes
  <1>5. QED
    BY <1>2, <1>3, <1>4 DEF BeginTurn, OpenTurn

LEMMA ServesFrames ==
  ASSUME TypeOK, DriverOwnsPhase, SomebodyServes, Frames
  PROVE  SomebodyServes'
  <1>1. CASE RunWake
    BY <1>1, ServesWake DEF RunWake, inboxVars, turnVars
  <1>2. CASE RunClearTurn
    <2>1. stack # <<>> /\ Top.op # "replay" /\ Top.cause \in Causes \cup {"none"}
      BY <1>2, TopTypes DEF RunClearTurn, TopIs, TypeOK
    <2>2. QED
      BY <1>2, <2>1, ServesClear DEF RunClearTurn, turnVars
  <1>3. CASE RunAbort
    <2>1. stack # <<>> /\ Top.op # "replay" /\ FinishCancel(Top.cause, Below)
      BY <1>3 DEF RunAbort, TopIs
    <2>2. Pending' = Pending /\ UNCHANGED phase
      BY <1>3, SamePending DEF RunAbort, inboxVars
    <2>3. CASE phase = "idle"
      <3>1. owed' = owed /\ stack' = Below
        BY <2>1, <2>3 DEF FinishCancel
      <3>2. ReplayIn(stack) => ReplayIn(stack)'
        BY <2>1, <3>1, ReplayKeeps DEF ReplayIn
      <3>3. QED
        BY <2>2, <2>3, <3>1, <3>2 DEF SomebodyServes, Served
    <2>4. CASE phase # "idle"
      BY <2>1, <2>2, <2>4 DEF FinishCancel, SomebodyServes
    <2>5. QED
      BY <2>3, <2>4
  <1>4. CASE RunReplay
    <2>1. UNCHANGED <<nextTurn, nextStep, pc>> /\ stack # <<>>
      BY <1>4 DEF RunReplay, TopIs, inboxVars, turnVars
    <2>2. CASE WakeDriver(FALSE, Below)
      BY <2>1, <2>2, ServesWake
    <2>3. CASE ~(Top.flag /\ hasPending)
      <3>1. stack' = Below /\ UNCHANGED <<phase, abort, latch, owed>> /\ Pending' = Pending
        BY <1>4, <2>1, <2>3, SamePending DEF RunReplay, phaseVars
      <3>2. CASE ~hasPending
        BY <3>1, <3>2, PendingIff DEF SomebodyServes, TypeOK
      <3>3. CASE ~Top.flag
        <4>1. ReplayIn(stack) => ReplayIn(stack')
          BY <2>1, <3>1, <3>3, ReplayKeeps
        <4>2. Served => Served'
          BY <2>1, <3>1, <4>1, ServedKeeps DEF LiveDriver
        <4>3. QED
          BY <3>1, <4>2 DEF SomebodyServes
      <3>4. QED
        BY <2>3, <3>2, <3>3
    <2>4. QED
      BY <1>4, <2>2, <2>3 DEF RunReplay
  <1>5. ASSUME NEW c, NEW lost \in Losses, RunKick(c, lost)
        PROVE  SomebodyServes'
    <2>1. phase = "running"
      BY <1>5, PopTop DEF RunKick, TopIs, DriverOwnsPhase
    <2>2. QED
      BY <1>5, <2>1, ServesBegin DEF RunKick
  <1>6. QED
    BY <1>1, <1>2, <1>3, <1>4, <1>5 DEF Frames

(* The driver goes on, still live, with its input unclaimed.               *)
LEMMA ServesLive ==
  ASSUME SomebodyServes, phase = "running", UNCHANGED <<phase, nextTurn, nextStep, owed>>,
         abort' = "none", pc' # "gapExit"
  PROVE  SomebodyServes'
  BY SamePending DEF SomebodyServes, Served, LiveDriver

LEMMA ServesBoundary ==
  ASSUME TypeOK, SomebodyServes, phase = "running", abort = "none", NextStepBoundary
  PROVE  SomebodyServes'
  <1>1. /\ owed' = owed \ Claimed("next-step")
        /\ Pending \ Claimed("next-step") \subseteq Pending'
    BY ClaimPending DEF NextStepBoundary, Claim
  <1>2. phase' = "running" /\ LiveDriver'
    BY DEF NextStepBoundary, LiveDriver, phaseVars
  <1>3. QED
    BY <1>1, <1>2 DEF SomebodyServes, Served

LEMMA ServesEnd ==
  ASSUME TypeOK, SomebodyServes, phase = "running", NEW c, NEW lost, EndTurn(c, lost)
  PROVE  SomebodyServes'
  <1>1. UNCHANGED <<phase, nextTurn, nextStep>>
    BY DEF EndTurn, inboxVars
  <1>2. CASE lost # {}
    <2>1. owed' = Released /\ UNCHANGED latch
      BY <1>2 DEF EndTurn
    <2>2. QED
      BY <1>1, <2>1, SamePending DEF Released, SomebodyServes, Served
  <1>3. CASE lost = {} /\ GoesOn
    BY <1>1, <1>3, ServesLive DEF EndTurn
  <1>4. CASE lost = {} /\ ~GoesOn
    <2>1. owed = {}
      BY <1>4, PendingIff DEF GoesOn, SomebodyServes, TypeOK
    <2>2. owed' = {}
      BY <1>4, <2>1 DEF EndTurn
    <2>3. QED
      BY <2>2 DEF SomebodyServes
  <1>5. QED
    BY <1>2, <1>3, <1>4

LEMMA ServesDriver ==
  ASSUME TypeOK, DriverOwnsPhase, SomebodyServes, Driver
  PROVE  SomebodyServes'
  <1>0. phase = "running"
    BY DriverSteps DEF DriverOwnsPhase
  <1>1. ASSUME NEW lost \in Losses, AbortTurn(lost)
        PROVE  SomebodyServes'
    <2>1. UNCHANGED <<phase, latch, abort, owed, nextTurn, nextStep>> /\ abort # "none"
      BY <1>1 DEF AbortTurn, phaseVars, inboxVars
    <2>2. QED
      BY <1>0, <2>1, SamePending DEF SomebodyServes, Served, LiveDriver
  <1>2. ASSUME NEW lost \in Losses, FailTurn(lost)
        PROVE  SomebodyServes'
    BY <1>0, <1>2, ServesLive DEF FailTurn, phaseVars, inboxVars
  <1>3. ASSUME NEW lost \in Losses, CloseFailedTurn(lost)
        PROVE  SomebodyServes'
    <2>1. UNCHANGED <<phase, latch, nextTurn, nextStep>> /\ owed' = IF latch THEN owed ELSE {}
      BY <1>3 DEF CloseFailedTurn, Released, phaseVars, inboxVars
    <2>2. QED
      BY <1>0, <2>1, SamePending DEF SomebodyServes, Served
  <1>4. CASE Assembled
    BY <1>0, <1>4, ServesLive DEF Assembled, throwIfAborted, phaseVars, inboxVars
  <1>5. ASSUME NEW lost, LeaveEarly("blocked", lost) \/ LeaveEarly("completed", lost)
        PROVE  SomebodyServes'
    BY <1>5 DEF LeaveEarly, SomebodyServes
  <1>6. ASSUME NEW kept, NEW extra, NEW c, NEW lost \in Losses, PreStepEnters(kept, extra, c, lost)
        PROVE  SomebodyServes'
    <2>1. CASE EndTurn(c, lost)
      BY <1>0, <2>1, ServesEnd
    <2>2. CASE EnterStep
      BY <1>0, <1>6, <2>2, ServesLive DEF PreStepEnters, EnterStep, throwIfAborted, inboxVars
    <2>3. QED
      BY <1>5, <1>6, <2>1, <2>2 DEF PreStepEnters
  <1>7. ASSUME NEW end, StepSettles(end)
        PROVE  SomebodyServes'
    <2>1. CASE NextStepBoundary
      BY <1>0, <1>7, <2>1, ServesBoundary DEF StepSettles, throwIfAborted
    <2>2. CASE pc' = "stopping" /\ UNCHANGED <<phaseVars, inboxVars, owed>>
      BY <1>0, <1>7, <2>2, ServesLive DEF StepSettles, throwIfAborted, phaseVars, inboxVars
    <2>3. QED
      BY <1>7, <2>1, <2>2 DEF StepSettles
  <1>8. ASSUME NEW c, NEW lost \in Losses, Stopped(c, lost)
        PROVE  SomebodyServes'
    BY <1>0, <1>8, ServesEnd, ServesBoundary DEF Stopped, throwIfAborted
  <1>9. ASSUME NEW c, NEW lost \in Losses, ContinueLoop(c, lost)
        PROVE  SomebodyServes'
    BY <1>0, <1>9, ServesBegin DEF ContinueLoop
  <1>10. CASE ExitDriver
    <2>1. /\ phase' = "idle" /\ stack' = <<ReplayFrame(latch)>>
          /\ UNCHANGED <<owed, nextTurn, nextStep>> /\ pc = "gapExit"
      BY <1>10 DEF ExitDriver, Resumable, inboxVars
    <2>2. owed # {} => latch
      BY <1>0, <2>1 DEF SomebodyServes, Served, LiveDriver
    <2>3. latch => ReplayIn(stack)'
      BY <2>1 DEF ReplayIn, ReplayFrame
    <2>4. QED
      BY <2>1, <2>2, <2>3, SamePending DEF SomebodyServes, Served
  <1>11. QED
    BY <1>1, <1>2, <1>3, <1>4, <1>5, <1>6, <1>7, <1>8, <1>9, <1>10 DEF Driver, PreStepRejects

LEMMA ServesStep ==
  ASSUME TypeOK, DriverOwnsPhase, SomebodyServes, [Next]_vars
  PROVE  SomebodyServes'
  <1>1. CASE SettleMaintenance
    <2>1. /\ stack = <<>> /\ phase = "maintenance" /\ UNCHANGED <<nextTurn, nextStep, pc>>
          /\ pc = "off"
      BY <1>1 DEF SettleMaintenance, MaintenanceDone, inboxVars, turnVars, DriverOwnsPhase
    <2>2. CASE ReserveDriver(stack)
      BY <2>1, <2>2, ServesReserve
    <2>3. CASE ~(latch /\ hasPending) /\ UNCHANGED owed
      <3>1. owed = {}
        BY <2>1, <2>3, EmptyStack, PendingIff DEF SomebodyServes, Served, TypeOK
      <3>2. QED
        BY <2>3, <3>1 DEF SomebodyServes
    <2>4. QED
      BY <1>1, <2>2, <2>3 DEF SettleMaintenance
  <1>2. CASE WaiterLoops \/ WaiterReturns \/ UNCHANGED vars
    <2>1. UNCHANGED <<phase, abort, latch, pc, stack, owed, nextTurn, nextStep>>
      BY <1>2 DEF WaiterLoops, WaiterReturns, vars, phaseVars, turnVars, inboxVars
    <2>2. Pending' = Pending /\ (Served => Served')
      BY <2>1, SamePending, ServedKeeps DEF LiveDriver
    <2>3. QED
      BY <2>1, <2>2 DEF SomebodyServes
  <1>3. QED
    BY <1>1, <1>2, ServesClient, ServesFrames, ServesDriver DEF Next

---------------------------------------------------------------------------
LEMMA InitIInv ==
  ASSUME Init
  PROVE  IInv
  <1>1. TypeOK /\ StoppingHasEnd
    BY InitTypes
  <1>2. DriverOwnsPhase /\ LateWakesFindAbort
    BY EmptyStack DEF Init, DriverOwnsPhase, LateWakesFindAbort
  <1>3. LogFollowsDriver /\ LatchNeedsCancel
    BY DEF Init, LogFollowsDriver, TurnIsLogged, StepIsLogged, InTurn, LatchNeedsCancel
  <1>4. SomebodyServes
    BY DEF Init, SomebodyServes
  <1>5. QED
    BY <1>1, <1>2, <1>3, <1>4 DEF IInv

(* The conjunction is inductive.                                           *)
THEOREM Inductive == Spec => []IInv
  <1>1. IInv /\ [Next]_vars => IInv'
    BY TypeStep, StoppingStep, OwnsStep, LogStep, LateStep, LatchStep, ServesStep DEF IInv
  <1>2. QED
    BY <1>1, InitIInv, PTL DEF Spec

(* No wake is lost: an idle agent with nothing in progress owes no message *)
(* a turn (send, wakeDriver and kick of agent.ts).                         *)
THEOREM NoWakeIsStranded == Spec => []NoStrandedWake
  <1>1. IInv => NoStrandedWake
    BY EmptyStack DEF IInv, NoStrandedWake, SomebodyServes, Served
  <1>2. QED
    BY <1>1, Inductive, PTL

(* An agent without a driver has nothing in flight, and its log is open    *)
(* only where the session refused the closing event; a step left open is   *)
(* never followed by a completed turn (turn and its finally, agent.ts).    *)
THEOREM IdleLogBalanced == Spec => []IdleIsBalanced
  <1>1. IInv => IdleIsBalanced
    <2>1. ASSUME IInv, phase # "running"
          PROVE  pc = "off" /\ pc \notin InTurn
      BY <2>1 DEF IInv, DriverOwnsPhase, InTurn
    <2>2. QED
      BY <2>1 DEF IInv, IdleIsBalanced, LogFollowsDriver, TurnIsLogged, StepIsLogged
  <1>2. QED
    BY <1>1, Inductive, PTL

(* A latch on a running driver was set after its abort (wakeDriver).       *)
THEOREM LatchFollowsCancel == Spec => []LatchNeedsCancel
  <1>1. IInv => LatchNeedsCancel
    BY DEF IInv
  <1>2. QED
    BY <1>1, Inductive, PTL

(* What a step may do to the number of turns and to an open step.          *)
Counts == logTurn' # logTurn => logTurn' = logTurn + 1 /\ (openTurn => "turn/end" \in refused)
Steps  == openStep' /\ ~openStep => openTurn /\ refused = {} /\ abort = "none"

LEMMA CountsBegin ==
  ASSUME IInv, NEW c, NEW lost \in Losses, NEW s, BeginTurn(c, lost, s), pc \in {"off", "gapLoop"}
  PROVE  Counts /\ Steps
  <1>1. phaseTurn = logTurn /\ (openTurn => "turn/end" \in refused)
    BY DEF IInv, LogFollowsDriver, TurnIsLogged, InTurn
  <1>2. UNCHANGED <<logTurn, openStep>> \/ (logTurn' = phaseTurn + 1 /\ openStep' = FALSE)
    BY DEF BeginTurn, OpenTurn, logVars
  <1>3. QED
    BY <1>1, <1>2 DEF Counts, Steps

LEMMA CountsDriver ==
  ASSUME IInv, Driver
  PROVE  Counts /\ Steps
  <1>1. CASE logTurn' = logTurn /\ (openStep' => openStep)
    BY <1>1 DEF Counts, Steps
  <1>2. ASSUME NEW lost \in Losses,
               AbortTurn(lost) \/ FailTurn(lost) \/ CloseFailedTurn(lost) \/ PreStepRejects(lost)
        PROVE  Counts /\ Steps
    BY <1>1, <1>2 DEF AbortTurn, FailTurn, CloseFailedTurn, PreStepRejects, LeaveEarly, LogTurnEnd,
       LogStepEnd
  <1>3. CASE Assembled \/ ExitDriver
    BY <1>1, <1>3 DEF Assembled, ExitDriver, logVars
  <1>4. ASSUME NEW kept, NEW extra, NEW c, NEW lost \in Losses, PreStepEnters(kept, extra, c, lost)
        PROVE  Counts /\ Steps
    <2>1. CASE EnterStep
      <3>1. openTurn /\ "turn/end" \notin refused /\ "step/end" \notin refused /\ abort = "none"
        BY <1>4 DEF PreStepEnters, Resumable, throwIfAborted, IInv, LogFollowsDriver, TurnIsLogged,
           InTurn
      <3>2. refused = {}
        BY <3>1 DEF IInv, TypeOK, LogTypes, Closings
      <3>3. QED
        BY <2>1, <3>1, <3>2 DEF EnterStep, Counts, Steps
    <2>2. CASE EndTurn(c, lost) \/ LeaveEarly("completed", lost)
      BY <1>1, <2>2 DEF EndTurn, LeaveEarly, LogTurnEnd, LogStepEnd
    <2>3. QED
      BY <1>4, <2>1, <2>2 DEF PreStepEnters
  <1>5. ASSUME NEW end, StepSettles(end)
        PROVE  Counts /\ Steps
    BY <1>1, <1>5 DEF StepSettles, LogStepEnd
  <1>6. ASSUME NEW c, NEW lost \in Losses, Stopped(c, lost)
        PROVE  Counts /\ Steps
    <2>1. CASE EndTurn(c, lost)
      BY <1>1, <2>1 DEF EndTurn, LogTurnEnd, LogStepEnd
    <2>2. CASE UNCHANGED logVars
      BY <1>1, <2>2 DEF logVars
    <2>3. QED
      BY <1>6, <2>1, <2>2 DEF Stopped
  <1>7. ASSUME NEW c, NEW lost \in Losses, ContinueLoop(c, lost)
        PROVE  Counts /\ Steps
    BY <1>7, CountsBegin DEF ContinueLoop, Resumable
  <1>8. QED
    BY <1>2, <1>3, <1>4, <1>5, <1>6, <1>7 DEF Driver

(* Two drivers never interleave their turns, and no cancelled batch is     *)
(* stepped (wakeDriver, kick, turn, preStep).                              *)
THEOREM TurnsNeverInterleave == Spec => TurnsNest
  <1>1. IInv /\ [Next]_vars => [Counts /\ Steps]_vars
    <2>1. ASSUME UNCHANGED logVars
          PROVE  Counts /\ Steps
      BY <2>1 DEF logVars, Counts, Steps
    <2>2. CASE Client
      BY <2>1, <2>2 DEF Client, SendWaking, SendQuiet, PrependStep, RemoveMessage, ReplaceMessage,
                        CancelKeep, CancelAll, BeginMaintenance, AwaitIdle
    <2>3. ASSUME IInv, Frames
          PROVE  Counts /\ Steps
      <3>1. CASE RunWake \/ RunClearTurn \/ RunAbort \/ RunReplay
        <4>1. UNCHANGED logVars
          BY <3>1 DEF RunWake, RunClearTurn, RunAbort, RunReplay
        <4>2. QED
          BY <2>1, <4>1
      <3>2. ASSUME NEW c, NEW lost \in Losses, RunKick(c, lost)
            PROVE  Counts /\ Steps
        <4>1. pc = "off"
          BY <2>3, <3>2, PopTop DEF RunKick, TopIs, IInv, DriverOwnsPhase
        <4>2. QED
          BY <2>3, <3>2, <4>1, CountsBegin DEF RunKick
      <3>3. QED
        BY <2>3, <3>1, <3>2 DEF Frames
    <2>4. CASE SettleMaintenance \/ WaiterLoops \/ WaiterReturns
      BY <2>1, <2>4 DEF SettleMaintenance, WaiterLoops, WaiterReturns
    <2>5. CASE UNCHANGED vars
      BY <2>5
    <2>6. QED
      BY <2>2, <2>3, <2>4, <2>5, CountsDriver DEF Next
  <1>2. QED
    BY <1>1, Inductive, PTL DEF Spec, TurnsNest, Counts, Steps

---------------------------------------------------------------------------
(* WhenIdleSound: the promise that whenIdle awaits is open while the agent *)
(* is not idle.                                                            *)

ActivityIsOpen == phase # "idle" => activity = "open"

LEMMA ActivityStep ==
  ASSUME ActivityIsOpen, [Next]_vars
  PROVE  ActivityIsOpen'
  <1> USE DEF ActivityIsOpen
  <1>1. ASSUME NEW rest, ReserveDriver(rest) PROVE activity' = "open"
    BY <1>1 DEF ReserveDriver, StartActivity
  <1>2. ASSUME NEW after, NEW rest, WakeDriver(after, rest) PROVE ActivityIsOpen'
    BY <1>1, <1>2 DEF WakeDriver, LatchWake, idleVars
  <1>3. CASE UNCHANGED <<phase, activity>>
    BY <1>3
  <1>4. CASE Client
    BY <1>3, <1>4 DEF Client, SendWaking, SendQuiet, PrependStep, RemoveMessage, ReplaceMessage,
                      CancelKeep, CancelAll, BeginMaintenance, StartActivity, AwaitIdle,
                      phaseVars, idleVars
  <1>5. CASE RunWake
    BY <1>2, <1>5 DEF RunWake
  <1>6. CASE RunReplay
    BY <1>2, <1>6 DEF RunReplay, ActivityAfterReplay, phaseVars
  <1>7. CASE RunClearTurn \/ RunAbort
    BY <1>3, <1>7 DEF RunClearTurn, RunAbort, idleVars
  <1>8. ASSUME NEW c, NEW lost \in Losses, NEW rest, BeginTurn(c, lost, rest) PROVE ActivityIsOpen'
    BY <1>8 DEF BeginTurn, idleVars
  <1>9. CASE Driver
    <2>1. CASE ExitDriver
      BY <2>1 DEF ExitDriver
    <2>2. CASE ~ExitDriver
      <3>1. UNCHANGED phase
        BY <1>9, <2>2, DriverSteps
      <3>2. UNCHANGED activity
        BY <1>9, <2>2 DEF Driver, AbortTurn, FailTurn, CloseFailedTurn, Assembled, PreStepRejects,
           PreStepEnters, StepSettles, Stopped, ContinueLoop, BeginTurn, idleVars
      <3> QED
        BY <3>1, <3>2
    <2> QED
      BY <2>1, <2>2
  <1>10. CASE SettleMaintenance
    BY <1>1, <1>10 DEF SettleMaintenance
  <1>11. CASE WaiterLoops \/ WaiterReturns \/ UNCHANGED vars
    BY <1>3, <1>11 DEF WaiterLoops, WaiterReturns, vars, phaseVars
  <1> QED
    BY <1>4, <1>5, <1>6, <1>7, <1>8, <1>9, <1>10, <1>11 DEF Next, Frames, RunKick

(* A caller of whenIdle is answered only in true quiescence: no driver, no *)
(* maintenance, and no replay still to come (agent.ts whenIdle).           *)
THEOREM WhenIdleIsTrue == Spec => WhenIdleSound
  <1>1. Init => ActivityIsOpen
    BY DEF Init, ActivityIsOpen
  <1>2. ActivityIsOpen /\ [Next]_vars => ActivityIsOpen'
    BY ActivityStep
  <1>3. IInv /\ ActivityIsOpen /\ [Next]_vars =>
          [waiter' = "returned" /\ waiter # "returned" => phase = "idle" /\ pc = "off" /\ stack = <<>>]_vars
    <2> SUFFICES ASSUME IInv, ActivityIsOpen, Next, waiter' = "returned", waiter # "returned"
                 PROVE  phase = "idle" /\ pc = "off" /\ stack = <<>>
      OBVIOUS
    <2>1. CASE WaiterReturns
      BY <2>1 DEF WaiterReturns, ActivityIsOpen, IInv, DriverOwnsPhase
    <2>2. ASSUME NEW rest, ReserveDriver(rest) PROVE FALSE
      BY <2>2 DEF ReserveDriver, StartActivity
    <2>3. ASSUME NEW after, NEW rest, WakeDriver(after, rest) PROVE FALSE
      BY <2>2, <2>3 DEF WakeDriver, LatchWake, idleVars
    <2>4. CASE Client
      BY <2>4 DEF Client, SendWaking, SendQuiet, PrependStep, RemoveMessage, ReplaceMessage,
                  CancelKeep, CancelAll, BeginMaintenance, StartActivity, AwaitIdle, idleVars
    <2>5. CASE RunWake \/ RunReplay
      BY <2>3, <2>5 DEF RunWake, RunReplay
    <2>6. CASE Driver
      BY <2>6 DEF Driver, AbortTurn, FailTurn, CloseFailedTurn, Assembled, PreStepRejects,
         ExitDriver,
         PreStepEnters, StepSettles, Stopped, ContinueLoop, BeginTurn, idleVars
    <2>7. ASSUME NEW c, NEW lost, RunClearTurn \/ RunAbort \/ RunKick(c, lost) PROVE FALSE
      BY <2>7 DEF RunClearTurn, RunAbort, RunKick, BeginTurn, idleVars
    <2>8. CASE SettleMaintenance \/ WaiterLoops
      BY <2>2, <2>8 DEF SettleMaintenance, WaiterLoops
    <2> QED
      BY <2>1, <2>4, <2>5, <2>6, <2>7, <2>8 DEF Next, Frames
  <1> QED
    BY <1>1, <1>2, <1>3, Inductive, PTL DEF Spec, WhenIdleSound

---------------------------------------------------------------------------
(* The goal of a session and its rounds.                                   *)

(* The bounds of the model are bounds.                                     *)
RoundsAreMeant == {MaxChanges, MaxPrompts, MaxCancels, MaxRounds} \subseteq Nat

GoalPhases   == {"none", "active", "paused", "blocked", "complete"}
GoalRecords    == [id : Goals!Ids, rev : Nat, started : 0 .. MaxRounds, phase : GoalPhases]
Attempts == [round : Goals!Rounds, phase : {"none", "queued", "claimed", "admitted"},
             cancelled : BOOLEAN, stale : BOOLEAN]
RoundTurns    == {"idle", "claimed", "deciding", "outer", "step", "emptied", "rejected", "failed",
                  "between", "leaving"}
InTurns       == RoundTurns \ {"idle", "between", "leaving"}
CallFrames   == [kind : {"request", "wake", "assign"}, run : Runs \cup {Goals!NoRun}]
RoundCalls    == [changes : 0 .. MaxChanges, prompts : 0 .. MaxPrompts, cancels : 0 .. MaxCancels]

(* The types, by whose they are; a goal is one of the changes, and a turn  *)
(* follows another for a message that is queued.                           *)
GoalIsTyped ==
  /\ goal \in GoalRecords /\ used \in RoundCalls /\ goal.id <= used.changes
  /\ armed \in BOOLEAN /\ folds \in BOOLEAN /\ authority \in BOOLEAN
AgentIsTyped ==
  /\ queue \in Seq(Goals!Rounds) /\ turn \in RoundTurns /\ claimed \in Goals!Rounds
  /\ aborted \in BOOLEAN /\ latched \in BOOLEAN
  /\ turn = "between" /\ ~aborted => queue # <<>>
DriverIsTyped ==
  /\ attempt \in Attempts
  /\ competing \in BOOLEAN /\ needsCheckpoint \in BOOLEAN /\ asked \in BOOLEAN
  /\ loop \in Runs \cup {Goals!NoRun} /\ loops \in [Runs -> {"off", "flush", "loop", "ended"}]
StackIsTyped == frames \in Seq(CallFrames)
RoundsAreTyped == GoalIsTyped /\ AgentIsTyped /\ DriverIsTyped /\ StackIsTyped

(* Only an active goal is armed.  What was armed before a cancellation is  *)
(* armed only until the turn that it aborted ends or, when the turn ran a  *)
(* round, until the agent is idle.                                         *)
ArmedIsActive == armed => goal.phase = "active"
CancelledIsAborted ==
  armed /\ ~authority => \/ Goals!InTurn /\ aborted
                         \/ turn = "leaving" /\ attempt.cancelled
RoundsInv == RoundsAreTyped /\ ArmedIsActive /\ CancelledIsAborted

(* What a step must do for the rounds to stop.                             *)
Stops == attempt.phase = "none" /\ attempt'.phase # "none" => authority
RoundsGood  == RoundsInv' /\ Stops

---------------------------------------------------------------------------
(* The initial state, and records.                                         *)

(* A person's prompt is a round, and no attempt is one that is over.       *)
LEMMA PromptIsRound ==
  ASSUME RoundsAreMeant
  PROVE  Goals!Prompt \in Goals!Rounds /\ Goals!None \in Attempts /\ 0 \in Goals!Ids
           /\ Goals!None.phase = "none"
  BY DEF RoundsAreMeant, Goals!Prompt, Goals!None, Goals!Rounds, Attempts, Goals!Ids

(* Nothing is armed at first.                                              *)
LEMMA RoundsInit ==
  ASSUME RoundsAreMeant
  PROVE  Goals!Init => RoundsInv
  <1> SUFFICES ASSUME Goals!Init PROVE RoundsInv
    OBVIOUS
  <1>1. Goals!Prompt \in Goals!Rounds /\ Goals!None \in Attempts /\ 0 \in Goals!Ids
    BY PromptIsRound
  <1>a. MaxChanges \in Nat /\ MaxPrompts \in Nat /\ MaxCancels \in Nat /\ MaxRounds \in Nat
    BY DEF RoundsAreMeant
  <1>b. 0 \in 0 .. MaxRounds /\ 0 \in 0 .. MaxChanges /\ 0 \in 0 .. MaxPrompts
        /\ 0 \in 0 .. MaxCancels
    BY <1>a
  <1>c. goal \in GoalRecords /\ goal.id = 0
    BY <1>1, <1>b DEF Goals!Init, GoalRecords, GoalPhases
  <1>d. used \in RoundCalls /\ used.changes = 0
    BY <1>b DEF Goals!Init, RoundCalls
  <1>2. GoalIsTyped
    <2>1. goal.id <= used.changes
      BY <1>c, <1>d
    <2> QED
      BY <1>c, <1>d, <2>1 DEF Goals!Init, GoalIsTyped
  <1>3. AgentIsTyped
    <2>1. <<>> \in Seq(Goals!Rounds)
      OBVIOUS
    <2> QED
      BY <1>1, <2>1 DEF Goals!Init, AgentIsTyped, RoundTurns
  <1>4. DriverIsTyped
    BY <1>1 DEF Goals!Init, DriverIsTyped
  <1>5. StackIsTyped
    BY DEF Goals!Init, StackIsTyped
  <1> QED
    BY <1>2, <1>3, <1>4, <1>5 DEF Goals!Init, RoundsInv, RoundsAreTyped, ArmedIsActive,
       CancelledIsAborted

(* The types by their owners are those of GoalRounds.                      *)
LEMMA TypesAreTypeOK == RoundsAreTyped => Goals!TypeOK
  BY DEF RoundsAreTyped, GoalIsTyped, AgentIsTyped, DriverIsTyped, Goals!TypeOK, GoalRecords,
     GoalPhases, Attempts, RoundTurns,
         RoundCalls

(* Calls on the stack.                                                     *)
LEMMA FramesAreTyped ==
  ASSUME StackIsTyped
  PROVE  /\ Goals!Request \in CallFrames /\ Goals!Wake \in CallFrames
              /\ \A r \in Runs : Goals!Assign(r) \in CallFrames
         /\ \A fs \in Seq(CallFrames) : Goals!Call(fs) => StackIsTyped'
         /\ frames # <<>> => Head(frames) \in CallFrames /\ Goals!Back \in Seq(CallFrames)
         /\ UNCHANGED frames => StackIsTyped'
  <1>1. Goals!Request \in CallFrames /\ Goals!Wake \in CallFrames
          /\ \A r \in Runs : Goals!Assign(r) \in CallFrames
    BY DEF Goals!Request, Goals!Wake, Goals!Assign, CallFrames
  <1>2. \A fs \in Seq(CallFrames) : fs \o frames \in Seq(CallFrames)
    BY ConcatProperties DEF StackIsTyped
  <1>3. frames # <<>> => Head(frames) \in CallFrames /\ Goals!Back \in Seq(CallFrames)
    BY HeadTailProperties DEF StackIsTyped, Goals!Back
  <1> QED
    BY <1>1, <1>2, <1>3 DEF StackIsTyped, Goals!Call

(* A turn that opens takes the attempt with it.                            *)
LEMMA QueuedIsTyped ==
  ASSUME NEW att \in Attempts, NEW m \in Goals!Rounds
  PROVE  [att EXCEPT !.round = m, !.phase = "queued"] \in Attempts
  BY DEF Attempts

(* A turn that opens claims a queued message.                              *)
LEMMA OpenIsTyped ==
  ASSUME NEW q \in Seq(Goals!Rounds), q # <<>>, NEW att \in Attempts, Goals!Open(q, att)
  PROVE  /\ AgentIsTyped' /\ turn' = "claimed" /\ ~aborted'
         /\ attempt' \in Attempts /\ (attempt'.phase = "none" <=> att.phase = "none")
  <1>1. Head(q) \in Goals!Rounds /\ Tail(q) \in Seq(Goals!Rounds)
    BY HeadTailProperties
  <1>2. AgentIsTyped' /\ turn' = "claimed" /\ ~aborted'
    BY <1>1 DEF Goals!Open, AgentIsTyped, RoundTurns
  <1>3. [att EXCEPT !.phase = "claimed"] \in Attempts
        /\ [att EXCEPT !.phase = "claimed"].phase = "claimed"
    BY DEF Attempts
  <1>4. \/ attempt' = att
        \/ att.phase # "none" /\ attempt' = [att EXCEPT !.phase = "claimed"]
    BY DEF Goals!Open
  <1> QED
    BY <1>2, <1>3, <1>4

(* A change of the goal.                                                   *)
LEMMA ChangedIsTyped ==
  ASSUME goal \in GoalRecords, NEW p \in GoalPhases, Goals!Changed(p)
  PROVE  /\ goal' \in GoalRecords /\ goal'.id = goal.id /\ goal'.phase = p
         /\ goal'.started = goal.started /\ needsCheckpoint' = TRUE
  <1>1. goal' = [goal EXCEPT !.rev = @ + 1, !.phase = p] /\ needsCheckpoint' = TRUE
    BY DEF Goals!Changed
  <1>2. goal.rev + 1 \in Nat
    BY DEF GoalRecords
  <1>3. goal' = [id |-> goal.id, rev |-> goal.rev + 1, started |-> goal.started, phase |-> p]
    BY <1>1 DEF GoalRecords
  <1>4. goal' \in GoalRecords
    BY <1>2, <1>3 DEF GoalRecords
  <1> QED
    BY <1>1, <1>3, <1>4

(* A bounded call is counted.                                              *)
LEMMA CallsAreTyped ==
  ASSUME RoundsAreMeant, used \in RoundCalls,
         NEW what \in {"changes", "prompts", "cancels"}, Goals!Spend(what),
         what = "changes" => used.changes < MaxChanges,
         what = "prompts" => used.prompts < MaxPrompts,
         what = "cancels" => used.cancels < MaxCancels
  PROVE  /\ used' \in RoundCalls /\ used.changes \in Nat
         /\ used'.changes = IF what = "changes" THEN used.changes + 1 ELSE used.changes
  BY DEF RoundCalls, Goals!Spend, RoundsAreMeant

---------------------------------------------------------------------------
(* GoalService.                                                            *)

(* A call of it announces the goal that it makes.                          *)
LEMMA CommandHolds ==
  ASSUME RoundsInv, Goals!Announced, goal' \in GoalRecords, used' \in RoundCalls,
         goal'.id <= used'.changes,
         needsCheckpoint' = TRUE, armed' \in BOOLEAN, authority' \in BOOLEAN,
         armed' => goal'.phase = "active", armed' /\ ~authority' => armed /\ ~authority
  PROVE  RoundsGood
  <1>1. UNCHANGED <<folds, Goals!agent, attempt, competing, asked, loop, loops>>
    BY DEF Goals!Announced
  <1>2. GoalIsTyped'
    BY <1>1 DEF RoundsInv, RoundsAreTyped, GoalIsTyped
  <1>3. AgentIsTyped' /\ turn' = turn /\ aborted' = aborted /\ attempt' = attempt
    BY <1>1 DEF RoundsInv, RoundsAreTyped, AgentIsTyped, Goals!agent
  <1>4. DriverIsTyped'
    BY <1>1 DEF RoundsInv, RoundsAreTyped, DriverIsTyped
  <1>5. StackIsTyped'
    <2>1. Goals!Request \in CallFrames
      BY FramesAreTyped DEF RoundsInv, RoundsAreTyped
    <2>2. <<Goals!Request>> \in Seq(CallFrames) /\ Goals!Call(<<Goals!Request>>)
      BY <2>1 DEF Goals!Announced
    <2> QED
      BY <2>2, FramesAreTyped DEF RoundsInv, RoundsAreTyped
  <1>6. ArmedIsActive'
    BY DEF ArmedIsActive
  <1>7. CancelledIsAborted'
    BY <1>3 DEF RoundsInv, CancelledIsAborted, Goals!InTurn
  <1>8. Stops
    BY <1>3 DEF Stops
  <1> QED
    BY <1>2, <1>3, <1>4, <1>5, <1>6, <1>7, <1>8 DEF RoundsGood, RoundsInv, RoundsAreTyped

(* A new goal is armed by whoever creates it.                              *)
LEMMA CreateHolds ==
  ASSUME RoundsAreMeant, RoundsInv, Goals!Create
  PROVE  RoundsGood
  <1>1. used.changes < MaxChanges /\ Goals!Spend("changes") /\ Goals!Announced
        /\ goal' = [id |-> goal.id + 1, rev |-> 1, started |-> 0, phase |-> "active"]
        /\ needsCheckpoint' = TRUE /\ armed' = TRUE /\ authority' = TRUE
    BY DEF Goals!Create
  <1>2. used \in RoundCalls /\ goal \in GoalRecords /\ goal.id <= used.changes
    BY DEF RoundsInv, RoundsAreTyped, GoalIsTyped
  <1>3. used' \in RoundCalls /\ used.changes \in Nat /\ used'.changes = used.changes + 1
    BY <1>1, <1>2, CallsAreTyped
  <1>4. goal.id \in Nat /\ MaxRounds \in Nat /\ MaxChanges \in Nat
    BY <1>2 DEF GoalRecords, Goals!Ids, RoundsAreMeant
  <1>5. goal.id + 1 \in Goals!Ids /\ 0 \in 0 .. MaxRounds /\ goal.id + 1 <= used'.changes
    BY <1>1, <1>2, <1>3, <1>4 DEF Goals!Ids
  <1>6. goal' \in GoalRecords /\ goal'.id <= used'.changes /\ goal'.phase = "active"
    BY <1>1, <1>5 DEF GoalRecords, GoalPhases
  <1> QED
    BY <1>1, <1>3, <1>6, CommandHolds

(* The other calls are changes.                                            *)
LEMMA EditHolds ==
  ASSUME RoundsAreMeant, RoundsInv, Goals!Edit
  PROVE  RoundsGood
  <1>1. used.changes < MaxChanges /\ Goals!Spend("changes") /\ Goals!Announced
          /\ Goals!Changed(goal.phase)
        /\ armed' = armed /\ authority' = authority
    BY DEF Goals!Edit
  <1>2. used \in RoundCalls /\ goal \in GoalRecords /\ goal.id <= used.changes
          /\ goal.phase \in GoalPhases
        /\ armed \in BOOLEAN /\ authority \in BOOLEAN /\ goal.id \in Nat
    BY DEF RoundsInv, RoundsAreTyped, GoalIsTyped, GoalRecords, Goals!Ids
  <1>3. used' \in RoundCalls /\ used.changes \in Nat /\ used'.changes = used.changes + 1
    BY <1>1, <1>2, CallsAreTyped
  <1>4. goal' \in GoalRecords /\ goal'.id = goal.id /\ goal'.phase = goal.phase
          /\ needsCheckpoint' = TRUE
    BY <1>1, <1>2, ChangedIsTyped
  <1>5. goal'.id <= used'.changes
    BY <1>2, <1>3, <1>4
  <1>6. armed' => goal'.phase = "active"
    BY <1>1, <1>4 DEF RoundsInv, ArmedIsActive
  <1> QED
    BY <1>1, <1>2, <1>3, <1>4, <1>5, <1>6, CommandHolds

(* A resumed goal is armed by whoever resumes it.                          *)
LEMMA ResumeHolds ==
  ASSUME RoundsAreMeant, RoundsInv, Goals!Resume
  PROVE  RoundsGood
  <1>1. used.changes < MaxChanges /\ Goals!Spend("changes") /\ Goals!Announced
          /\ Goals!Changed("active")
        /\ armed' = TRUE /\ authority' = TRUE
    BY DEF Goals!Resume
  <1>2. used \in RoundCalls /\ goal \in GoalRecords /\ goal.id <= used.changes /\ goal.id \in Nat
        /\ "active" \in GoalPhases
    BY DEF RoundsInv, RoundsAreTyped, GoalIsTyped, GoalRecords, Goals!Ids, GoalPhases
  <1>3. used' \in RoundCalls /\ used.changes \in Nat /\ used'.changes = used.changes + 1
    BY <1>1, <1>2, CallsAreTyped
  <1>4. goal' \in GoalRecords /\ goal'.id = goal.id /\ goal'.phase = "active"
          /\ needsCheckpoint' = TRUE
    BY <1>1, <1>2, ChangedIsTyped
  <1>5. goal'.id <= used'.changes
    BY <1>2, <1>3, <1>4
  <1> QED
    BY <1>1, <1>3, <1>4, <1>5, CommandHolds

(* A command that disarms queues nothing.                                  *)
LEMMA DisarmsHolds ==
  ASSUME RoundsAreMeant, RoundsInv, Goals!Disarms, goal' \in GoalRecords, goal'.id = goal.id,
         needsCheckpoint' = TRUE
  PROVE  RoundsGood
  <1>1. used.changes < MaxChanges /\ Goals!Spend("changes") /\ Goals!Announced
        /\ armed' = FALSE /\ authority' = authority
    BY DEF Goals!Disarms
  <1>2. used \in RoundCalls /\ goal.id <= used.changes /\ goal.id \in Nat /\ authority \in BOOLEAN
    BY DEF RoundsInv, RoundsAreTyped, GoalIsTyped, GoalRecords, Goals!Ids
  <1>3. used' \in RoundCalls /\ used.changes \in Nat /\ used'.changes = used.changes + 1
    BY <1>1, <1>2, CallsAreTyped
  <1>4. goal'.id <= used'.changes
    BY <1>2, <1>3
  <1> QED
    BY <1>1, <1>2, <1>3, <1>4, CommandHolds

(* Pausing, completing and clearing disarm.                                *)
LEMMA StoppedHolds ==
  ASSUME RoundsAreMeant, RoundsInv, Goals!Pause \/ Goals!Complete \/ Goals!Clear
  PROVE  RoundsGood
  <1>1. goal \in GoalRecords /\ 0 \in 0 .. MaxRounds
          /\ {"paused", "complete", "none"} \subseteq GoalPhases
    <2>1. MaxRounds \in Nat
      BY DEF RoundsAreMeant
    <2> QED
      BY <2>1 DEF RoundsInv, RoundsAreTyped, GoalIsTyped, GoalPhases
  <1>2. CASE Goals!Pause
    BY <1>1, <1>2, ChangedIsTyped, DisarmsHolds DEF Goals!Pause
  <1>3. CASE Goals!Complete
    BY <1>1, <1>3, ChangedIsTyped, DisarmsHolds DEF Goals!Complete
  <1>4. CASE Goals!Clear
    <2>1. /\ goal' = [goal EXCEPT !.rev = @ + 1, !.phase = "none", !.started = 0]
          /\ needsCheckpoint' = TRUE /\ Goals!Disarms
      BY <1>4 DEF Goals!Clear
    <2>2. goal' = [id |-> goal.id, rev |-> goal.rev + 1, started |-> 0, phase |-> "none"]
      BY <1>1, <2>1 DEF GoalRecords
    <2>3. goal.id \in Goals!Ids /\ goal.rev + 1 \in Nat
      BY <1>1 DEF GoalRecords
    <2>4. goal' \in GoalRecords /\ goal'.id = goal.id
      BY <1>1, <2>2, <2>3 DEF GoalRecords
    <2> QED
      BY <2>1, <2>4, DisarmsHolds
  <1> QED
    BY <1>2, <1>3, <1>4

---------------------------------------------------------------------------
(* The agent.                                                              *)

(* The parts of the invariant make it.                                     *)
LEMMA PartsHold ==
  ASSUME GoalIsTyped', AgentIsTyped', DriverIsTyped', StackIsTyped', ArmedIsActive',
         CancelledIsAborted', Stops
  PROVE  RoundsGood
  BY DEF RoundsGood, RoundsInv, RoundsAreTyped

(* A step that leaves goal and activation alone, and the turn or its abort.*)
LEMMA GoalKept ==
  ASSUME RoundsInv, UNCHANGED <<goal, armed, folds, used, authority>>
  PROVE  GoalIsTyped' /\ ArmedIsActive'
  BY DEF RoundsInv, RoundsAreTyped, GoalIsTyped, ArmedIsActive

(* What a step needs of the state.                                         *)
LEMMA BeforeStep ==
  ASSUME RoundsAreMeant, RoundsInv
  PROVE  /\ goal \in GoalRecords /\ attempt \in Attempts /\ Goals!None \in Attempts
              /\ Goals!None.phase = "none"
         /\ needsCheckpoint \in BOOLEAN /\ armed \in BOOLEAN
         /\ armed => goal.phase = "active"
         /\ claimed \in Goals!Rounds
  BY PromptIsRound DEF RoundsInv, RoundsAreTyped, GoalIsTyped, DriverIsTyped, AgentIsTyped,
     ArmedIsActive

(* A step that at most drops the attempt.                                  *)
LEMMA NotOpened ==
  ASSUME RoundsAreMeant, RoundsInv, attempt' = attempt \/ attempt' = Goals!None
  PROVE  attempt' \in Attempts /\ (attempt'.phase # "none" => attempt.phase # "none")
  BY BeforeStep

(* A person's prompt queues no round.                                      *)
LEMMA SendPromptHolds ==
  ASSUME RoundsAreMeant, RoundsInv, Goals!SendPrompt
  PROVE  RoundsGood
  <1> DEFINE q == Append(queue, Goals!Prompt)
             att == IF attempt.phase = "queued" THEN [attempt EXCEPT !.stale = TRUE] ELSE attempt
  <1>1. /\ used.prompts < MaxPrompts /\ Goals!Spend("prompts") /\ competing' = TRUE
        /\ UNCHANGED <<goal, armed, folds, needsCheckpoint, asked, loop, loops, frames, authority>>
        /\ IF turn = "idle" THEN Goals!Open(q, att)
           ELSE /\ queue' = q /\ attempt' = att /\ latched' = (latched \/ aborted)
                /\ UNCHANGED <<turn, claimed, aborted>>
    BY DEF Goals!SendPrompt
  <1>2. q \in Seq(Goals!Rounds) /\ q # <<>>
    BY PromptIsRound, AppendProperties DEF RoundsInv, RoundsAreTyped, AgentIsTyped
  <1>3. /\ att \in Attempts /\ (att.phase = "none" <=> attempt.phase = "none")
        /\ att.cancelled = attempt.cancelled
    BY DEF RoundsInv, RoundsAreTyped, DriverIsTyped, Attempts
  <1> HIDE DEF q, att
  <1>4. GoalIsTyped'
    <2>1. goal \in GoalRecords /\ used \in RoundCalls /\ goal.id <= used.changes
      BY DEF RoundsInv, RoundsAreTyped, GoalIsTyped
    <2>2. used' \in RoundCalls /\ used'.changes = used.changes
      BY <1>1, <2>1, CallsAreTyped
    <2> QED
      BY <1>1, <2>1, <2>2 DEF RoundsInv, RoundsAreTyped, GoalIsTyped
  <1>5. /\ AgentIsTyped' /\ attempt' \in Attempts
        /\ attempt'.phase = "none" <=> attempt.phase = "none"
        /\ turn # "idle" => /\ turn' = turn /\ aborted' = aborted
                            /\ attempt'.cancelled = attempt.cancelled
    <2>1. CASE turn = "idle"
      BY <1>1, <1>2, <1>3, <2>1, OpenIsTyped
    <2>2. CASE turn # "idle"
      BY <1>1, <1>2, <1>3, <2>2 DEF RoundsInv, RoundsAreTyped, AgentIsTyped
    <2> QED
      BY <2>1, <2>2
  <1>6. DriverIsTyped'
    BY <1>1, <1>5 DEF RoundsInv, RoundsAreTyped, DriverIsTyped
  <1>7. StackIsTyped'
    BY <1>1 DEF RoundsInv, RoundsAreTyped, StackIsTyped
  <1>8. ArmedIsActive'
    BY <1>1 DEF RoundsInv, ArmedIsActive
  <1>9. CancelledIsAborted'
    BY <1>1, <1>5 DEF RoundsInv, CancelledIsAborted, Goals!InTurn
  <1>10. Stops
    BY <1>5 DEF Stops
  <1> QED
    BY <1>4, <1>5, <1>6, <1>7, <1>8, <1>9, <1>10, PartsHold

(* A cancellation aborts the turn it takes the authority from.             *)
LEMMA CancelHolds ==
  ASSUME RoundsAreMeant, RoundsInv, NEW keep \in BOOLEAN, Goals!Cancel(keep)
  PROVE  RoundsGood
  <1>1. /\ used.cancels < MaxCancels /\ Goals!Spend("cancels")
        /\ aborted' = (turn # "idle") /\ authority' = (authority /\ ~Goals!InTurn)
        /\ UNCHANGED <<goal, armed, folds, turn, claimed, competing, needsCheckpoint, asked,
                       loop, loops, frames>>
    BY DEF Goals!Cancel
  <1>2. \/ UNCHANGED <<queue, attempt, latched>>
        \/ /\ queue' = <<>> /\ latched' = FALSE
           /\ attempt' = attempt \/ attempt' = [attempt EXCEPT !.cancelled = TRUE]
    BY DEF Goals!Cancel
  <1>3. /\ attempt' \in Attempts /\ attempt'.phase = attempt.phase
        /\ attempt.cancelled => attempt'.cancelled
    BY <1>2 DEF RoundsInv, RoundsAreTyped, DriverIsTyped, Attempts
  <1>4. GoalIsTyped'
    <2>1. goal \in GoalRecords /\ used \in RoundCalls /\ goal.id <= used.changes
      BY DEF RoundsInv, RoundsAreTyped, GoalIsTyped
    <2>2. used' \in RoundCalls /\ used'.changes = used.changes
      BY <1>1, <2>1, CallsAreTyped
    <2> QED
      BY <1>1, <2>1, <2>2 DEF RoundsInv, RoundsAreTyped, GoalIsTyped
  <1>5. AgentIsTyped'
    <2>1. queue' \in Seq(Goals!Rounds)
      <3>1. <<>> \in Seq(Goals!Rounds)
        OBVIOUS
      <3> QED
        BY <1>2, <3>1 DEF RoundsInv, RoundsAreTyped, AgentIsTyped
    <2>2. latched' \in BOOLEAN
      BY <1>2 DEF RoundsInv, RoundsAreTyped, AgentIsTyped
    <2> QED
      BY <1>1, <2>1, <2>2 DEF RoundsInv, RoundsAreTyped, AgentIsTyped
  <1>6. DriverIsTyped'
    BY <1>1, <1>3 DEF RoundsInv, RoundsAreTyped, DriverIsTyped
  <1>7. StackIsTyped'
    BY <1>1 DEF RoundsInv, RoundsAreTyped, StackIsTyped
  <1>8. ArmedIsActive'
    BY <1>1 DEF RoundsInv, ArmedIsActive
  <1>9. CancelledIsAborted'
    <2>1. CASE Goals!InTurn
      <3>1. Goals!InTurn' /\ aborted'
        BY <1>1, <2>1 DEF Goals!InTurn
      <3> QED
        BY <3>1 DEF CancelledIsAborted
    <2>2. CASE ~Goals!InTurn
      <3>1. authority' = authority /\ armed' = armed /\ turn' = turn
        BY <1>1, <2>2 DEF RoundsInv, RoundsAreTyped, GoalIsTyped
      <3> QED
        BY <1>3, <2>2, <3>1 DEF RoundsInv, CancelledIsAborted
    <2> QED
      BY <2>1, <2>2
  <1>10. Stops
    BY <1>3 DEF Stops
  <1> QED
    BY <1>4, <1>5, <1>6, <1>7, <1>8, <1>9, <1>10, PartsHold

(* An end that was aborted disarms, or marks the round.                    *)
LEMMA EndTurnHolds ==
  ASSUME RoundsAreMeant, RoundsInv, NEW reason, Goals!EndTurn(reason), Goals!InTurn,
         reason = "aborted" \/ ~aborted
  PROVE  RoundsGood
  <1> DEFINE att == IF reason = "aborted" THEN Goals!AfterAbort(attempt) ELSE attempt
             disarms == \/ reason \in {"error", "max-tokens"}
                        \/ reason = "aborted" /\ attempt.phase \notin {"claimed", "admitted"}
             goesOn == reason \in {"completed", "max-tokens"} /\ turn # "emptied" /\ queue # <<>>
  <1>1. /\ turn' = (IF goesOn THEN "between" ELSE "leaving") /\ claimed' = Goals!Prompt
        /\ aborted' = (aborted /\ ~goesOn) /\ latched' = (latched /\ ~goesOn)
        /\ attempt' = att /\ armed' = (armed /\ ~disarms)
        /\ UNCHANGED <<goal, folds, queue, competing, needsCheckpoint, asked, loop, loops, frames,
                       used, authority>>
    BY DEF Goals!EndTurn
  <1>2. /\ att \in Attempts /\ att.phase = attempt.phase
        /\ reason = "aborted" /\ att.phase \in {"claimed", "admitted"} => att.cancelled
    BY DEF RoundsInv, RoundsAreTyped, DriverIsTyped, Attempts, Goals!AfterAbort
  <1>3. reason = "aborted" => ~goesOn /\ (disarms \/ attempt.phase \in {"claimed", "admitted"})
    OBVIOUS
  <1>4. turn' \in RoundTurns /\ (~goesOn => turn' = "leaving") /\ (goesOn => queue # <<>>)
    BY <1>1 DEF RoundTurns
  <1> HIDE DEF att, disarms, goesOn
  <1>5. GoalIsTyped' /\ ArmedIsActive'
    <2>1. armed' \in BOOLEAN /\ (armed' => armed)
      BY <1>1
    <2> QED
      BY <1>1, <2>1 DEF RoundsInv, RoundsAreTyped, GoalIsTyped, ArmedIsActive
  <1>6. AgentIsTyped'
    <2>1. aborted' \in BOOLEAN /\ latched' \in BOOLEAN
      BY <1>1
    <2> QED
      BY <1>1, <1>4, <2>1, PromptIsRound DEF RoundsInv, RoundsAreTyped, AgentIsTyped
  <1>7. DriverIsTyped'
    BY <1>1, <1>2 DEF RoundsInv, RoundsAreTyped, DriverIsTyped
  <1>8. StackIsTyped'
    BY <1>1 DEF RoundsInv, RoundsAreTyped, StackIsTyped
  <1>9. CancelledIsAborted'
    <2>1. ASSUME armed', ~authority' PROVE turn' = "leaving" /\ attempt'.cancelled
      <3>1. armed /\ ~disarms /\ ~authority
        BY <1>1, <2>1
      <3>2. aborted
        BY <3>1 DEF RoundsInv, CancelledIsAborted, Goals!InTurn
      <3>3. reason = "aborted"
        BY <3>2
      <3> QED
        BY <1>1, <1>2, <1>3, <1>4, <3>1, <3>3
    <2> QED
      BY <2>1 DEF CancelledIsAborted
  <1>10. Stops
    BY <1>1, <1>2 DEF Stops
  <1> QED
    BY <1>2, <1>5, <1>6, <1>7, <1>8, <1>9, <1>10, PartsHold

(* Turns end, aborted or not.                                              *)
LEMMA EndsHold ==
  ASSUME RoundsAreMeant, RoundsInv, Goals!Aborted \/ Goals!Finish
  PROVE  RoundsGood
  <1>1. Goals!InTurn
    BY DEF Goals!Aborted, Goals!Finish, Goals!InTurn
  <1>2. \E reason : Goals!EndTurn(reason) /\ (reason = "aborted" \/ ~aborted)
    BY DEF Goals!Aborted, Goals!Finish
  <1> QED
    BY <1>1, <1>2, EndTurnHolds

(* The next turn opens with a fresh signal, only if none was aborted.      *)
LEMMA NextTurnHolds ==
  ASSUME RoundsAreMeant, RoundsInv, Goals!NextTurn
  PROVE  RoundsGood
  <1>1. /\ turn = "between" /\ Goals!Open(queue, attempt)
        /\ UNCHANGED <<goal, armed, folds, competing, needsCheckpoint, asked, loop, loops, frames,
                       used, authority>>
    BY DEF Goals!NextTurn
  <1>2. queue \in Seq(Goals!Rounds) /\ queue # <<>> /\ attempt \in Attempts
    BY DEF RoundsInv, RoundsAreTyped, AgentIsTyped, DriverIsTyped, Goals!NextTurn
  <1>3. /\ AgentIsTyped' /\ attempt' \in Attempts
        /\ attempt'.phase = "none" <=> attempt.phase = "none"
    BY <1>1, <1>2, OpenIsTyped
  <1>4. GoalIsTyped' /\ ArmedIsActive'
    BY <1>1, GoalKept
  <1>5. DriverIsTyped' /\ StackIsTyped'
    BY <1>1, <1>3 DEF RoundsInv, RoundsAreTyped, DriverIsTyped, StackIsTyped
  <1>6. CancelledIsAborted' /\ Stops
    BY <1>1, <1>3 DEF RoundsInv, CancelledIsAborted, Goals!InTurn, Stops
  <1> QED
    BY <1>3, <1>4, <1>5, <1>6, PartsHold

(* The idle status pauses the goal of a round that was cancelled.          *)
LEMMA GoIdleHolds ==
  ASSUME RoundsAreMeant, RoundsInv, Goals!GoIdle
  PROVE  RoundsGood
  <1> DEFINE pauses == Goals!Running /\ (attempt.phase \in {"queued", "claimed"} \/ attempt.cancelled)
  <1>1. /\ turn \in {"leaving", "between"} /\ turn' = "idle" /\ aborted' = FALSE /\ latched' = FALSE
        /\ competing' = FALSE /\ armed' = (armed /\ ~pauses)
        /\ UNCHANGED <<folds, queue, claimed, asked, loop, loops, used, authority>>
    BY DEF Goals!GoIdle
  <1>2. IF pauses THEN Goals!Changed("paused") /\ attempt' = Goals!None
        ELSE UNCHANGED <<goal, needsCheckpoint, attempt>>
    BY DEF Goals!GoIdle
  <1>3. Goals!Call((IF pauses THEN <<Goals!Request, Goals!Request>> ELSE <<Goals!Request>>)
                   \o (IF latched THEN <<Goals!Wake>> ELSE <<>>))
    BY DEF Goals!GoIdle
  <1>4. armed /\ attempt.cancelled => pauses
    BY DEF RoundsInv, ArmedIsActive, Goals!Running
  <1> HIDE DEF pauses
  <1>5. goal' \in GoalRecords /\ goal'.id = goal.id /\ (~pauses => goal' = goal)
    <2>1. goal \in GoalRecords /\ "paused" \in GoalPhases
      BY DEF RoundsInv, RoundsAreTyped, GoalIsTyped, GoalPhases
    <2> QED
      BY <1>2, <2>1, ChangedIsTyped
  <1>6. GoalIsTyped'
    <2>1. armed' \in BOOLEAN
      BY <1>1
    <2> QED
      BY <1>1, <1>5, <2>1 DEF RoundsInv, RoundsAreTyped, GoalIsTyped
  <1>7. ArmedIsActive'
    BY <1>1, <1>5 DEF RoundsInv, ArmedIsActive
  <1>8. AgentIsTyped'
    BY <1>1 DEF RoundsInv, RoundsAreTyped, AgentIsTyped, RoundTurns
  <1>9. attempt' \in Attempts /\ (attempt'.phase # "none" => attempt.phase # "none")
    BY <1>2, NotOpened
  <1>10. DriverIsTyped'
    <2>1. needsCheckpoint' \in BOOLEAN
      BY <1>2 DEF RoundsInv, RoundsAreTyped, DriverIsTyped, Goals!Changed
    <2> QED
      BY <1>1, <1>9, <2>1 DEF RoundsInv, RoundsAreTyped, DriverIsTyped
  <1>11. StackIsTyped'
    <2>1. Goals!Request \in CallFrames /\ Goals!Wake \in CallFrames
      BY FramesAreTyped DEF RoundsInv, RoundsAreTyped
    <2>2. (IF pauses THEN <<Goals!Request, Goals!Request>>
           ELSE <<Goals!Request>>) \in Seq(CallFrames)
      BY <2>1
    <2>3. (IF latched THEN <<Goals!Wake>> ELSE <<>>) \in Seq(CallFrames)
      BY <2>1
    <2>4. (IF pauses THEN <<Goals!Request, Goals!Request>> ELSE <<Goals!Request>>)
            \o (IF latched THEN <<Goals!Wake>> ELSE <<>>) \in Seq(CallFrames)
      BY <2>2, <2>3, ConcatProperties
    <2> QED
      BY <1>3, <2>4, FramesAreTyped DEF RoundsInv, RoundsAreTyped
  <1>12. CancelledIsAborted'
    <2>1. ASSUME armed', ~authority' PROVE FALSE
      <3>1. armed /\ ~pauses /\ ~authority
        BY <1>1, <2>1
      <3>2. attempt.cancelled
        BY <1>1, <3>1 DEF RoundsInv, CancelledIsAborted, Goals!InTurn
      <3> QED
        BY <1>4, <3>1, <3>2
    <2> QED
      BY <2>1 DEF CancelledIsAborted
  <1>13. Stops
    BY <1>9 DEF Stops
  <1> QED
    BY <1>6, <1>7, <1>8, <1>9, <1>10, <1>11, <1>12, <1>13, PartsHold

---------------------------------------------------------------------------
(* The fence around a round.                                               *)

(* A step of a turn that was not aborted.                                  *)
LEMMA TurnStepHolds ==
  ASSUME RoundsInv, Goals!InTurn, ~aborted,
         UNCHANGED <<queue, claimed, aborted, latched, competing, asked, loop, loops, folds, used,
                     authority>>,
         goal' \in GoalRecords, goal'.id = goal.id, turn' \in InTurns, attempt' \in Attempts,
         attempt'.phase # "none" => attempt.phase # "none", needsCheckpoint' \in BOOLEAN,
         StackIsTyped', armed' \in BOOLEAN, armed' => armed /\ goal'.phase = "active"
  PROVE  RoundsGood
  <1>1. GoalIsTyped'
    BY DEF RoundsInv, RoundsAreTyped, GoalIsTyped
  <1>2. AgentIsTyped'
    BY DEF RoundsInv, RoundsAreTyped, AgentIsTyped, InTurns
  <1>3. DriverIsTyped'
    BY DEF RoundsInv, RoundsAreTyped, DriverIsTyped
  <1>4. ArmedIsActive' /\ CancelledIsAborted'
    BY DEF RoundsInv, ArmedIsActive, CancelledIsAborted, Goals!InTurn
  <1>5. Stops
    BY DEF Stops
  <1> QED
    BY <1>1, <1>2, <1>3, <1>4, <1>5, PartsHold

(* A step that leaves the goal alone arms nothing.                         *)
LEMMA Untouched ==
  ASSUME RoundsAreMeant, RoundsInv, goal' = goal, armed' = armed \/ armed' = FALSE
  PROVE  /\ goal' \in GoalRecords /\ goal'.id = goal.id
         /\ armed' \in BOOLEAN /\ (armed' => armed /\ goal'.phase = "active")
  <1>1. goal' \in GoalRecords /\ goal'.id = goal.id
    BY BeforeStep
  <1>a. armed \in BOOLEAN
    BY BeforeStep
  <1>b. armed => goal.phase = "active"
    BY BeforeStep
  <1>c. goal'.phase = goal.phase
    OBVIOUS
  <1>2. CASE armed' = FALSE
    BY <1>1, <1>2
  <1>3. CASE armed' = armed
    BY <1>1, <1>3, <1>a, <1>b, <1>c
  <1> QED
    BY <1>2, <1>3

(* ... and of the driver's flags.                                          *)
LEMMA FlagsAreTyped ==
  ASSUME RoundsInv
  PROVE  /\ needsCheckpoint \in BOOLEAN /\ asked \in BOOLEAN
         /\ loop \in Runs \cup {Goals!NoRun} /\ loops \in [Runs -> {"off", "flush", "loop", "ended"}]
  BY DEF RoundsInv, RoundsAreTyped, DriverIsTyped

(* One more call on the stack.                                             *)
LEMMA OneCall ==
  ASSUME RoundsInv, Goals!Call(<<Goals!Request>>)
  PROVE  StackIsTyped'
  <1>1. <<Goals!Request>> \in Seq(CallFrames)
    BY FramesAreTyped DEF RoundsInv, RoundsAreTyped
  <1> QED
    BY <1>1, FramesAreTyped DEF RoundsInv, RoundsAreTyped

(* The fence refuses a round.                                              *)
LEMMA RefuseHolds ==
  ASSUME RoundsAreMeant, RoundsInv, Goals!InTurn, ~aborted, NEW place \in InTurns,
         Goals!Refuse(place)
  PROVE  RoundsGood
  <1>1. /\ turn' = place /\ attempt' = Goals!None /\ Goals!Call(<<Goals!Request>>)
        /\ UNCHANGED <<goal, armed, folds, queue, claimed, aborted, latched, competing,
                       needsCheckpoint, asked, loop, loops, used, authority>>
    BY DEF Goals!Refuse
  <1>2. StackIsTyped'
    BY <1>1, OneCall
  <1> QED
    BY <1>1, <1>2, FlagsAreTyped, Untouched, NotOpened, TurnStepHolds

(* A turn goes on.                                                         *)
LEMMA MoveHolds ==
  ASSUME RoundsAreMeant, RoundsInv, Goals!InTurn, ~aborted, NEW place \in InTurns,
         Goals!Move(place)
  PROVE  RoundsGood
  <1>1. /\ turn' = place
        /\ UNCHANGED <<goal, armed, folds, queue, claimed, aborted, latched, attempt, competing,
                       needsCheckpoint, asked, loop, loops, frames, used, authority>>
    BY DEF Goals!Move, Goals!driver
  <1>2. StackIsTyped'
    BY <1>1 DEF RoundsInv, RoundsAreTyped, StackIsTyped
  <1> QED
    BY <1>1, <1>2, FlagsAreTyped, Untouched, NotOpened, TurnStepHolds

(* A step counts its round, unless the fold refuses it.                    *)
LEMMA EnterHolds ==
  ASSUME RoundsAreMeant, RoundsInv, Goals!InTurn, ~aborted, Goals!Enter
  PROVE  RoundsGood
  <1>1. /\ turn' = "step"
        /\ UNCHANGED <<armed, queue, claimed, aborted, latched, competing, needsCheckpoint,
                       asked, loop, loops, frames, used, authority>>
    BY DEF Goals!Enter
  <1>2. folds' \in BOOLEAN
    <2>1. folds \in BOOLEAN
      BY DEF RoundsInv, RoundsAreTyped, GoalIsTyped
    <2>2. Goals!IsNext(claimed) \in BOOLEAN
      BY DEF Goals!IsNext
    <2> QED
      BY <2>1, <2>2 DEF Goals!Enter
  <1>3. goal' = goal \/ (Goals!IsNext(claimed) /\ goal' = [goal EXCEPT !.started = claimed.round])
    BY DEF Goals!Enter
  <1>4. goal' \in GoalRecords /\ goal'.id = goal.id /\ goal'.phase = goal.phase
    <2>1. goal \in GoalRecords /\ claimed.round \in 0 .. MaxRounds
      BY BeforeStep DEF Goals!Rounds
    <2>2. CASE Goals!IsNext(claimed) /\ goal' = [goal EXCEPT !.started = claimed.round]
      BY <2>1, <2>2 DEF GoalRecords
    <2> QED
      BY <1>3, <2>1, <2>2
  <1>5. \/ attempt' = attempt
        \/ attempt.phase # "none" /\ attempt' = [attempt EXCEPT !.phase = "admitted"]
    BY DEF Goals!Enter, Goals!Held
  <1>6. attempt' \in Attempts /\ (attempt'.phase # "none" => attempt.phase # "none")
    BY <1>5, BeforeStep DEF Attempts
  <1>7. GoalIsTyped'
    BY <1>1, <1>2, <1>4 DEF RoundsInv, RoundsAreTyped, GoalIsTyped
  <1>8. AgentIsTyped'
    BY <1>1 DEF RoundsInv, RoundsAreTyped, AgentIsTyped, RoundTurns
  <1>9. DriverIsTyped' /\ StackIsTyped'
    BY <1>1, <1>6 DEF RoundsInv, RoundsAreTyped, DriverIsTyped, StackIsTyped
  <1>10. ArmedIsActive' /\ CancelledIsAborted'
    BY <1>1, <1>4 DEF RoundsInv, ArmedIsActive, CancelledIsAborted, Goals!InTurn
  <1>11. Stops
    BY <1>6 DEF Stops
  <1> QED
    BY <1>7, <1>8, <1>9, <1>10, <1>11, PartsHold

(* The first look of the fence.                                            *)
LEMMA CheckHolds ==
  ASSUME RoundsAreMeant, RoundsInv, Goals!Check
  PROVE  RoundsGood
  <1>1. Goals!InTurn /\ ~aborted /\ "deciding" \in InTurns /\ "rejected" \in InTurns
    BY DEF Goals!Check, Goals!InTurn, RoundTurns, InTurns
  <1>2. \/ Goals!Move("deciding") \/ Goals!Refuse("rejected")
        \/ /\ turn' = "rejected" /\ Goals!Call(<<Goals!Request>>)
           /\ UNCHANGED <<goal, armed, folds, queue, claimed, aborted, latched, Goals!driver, used,
                          authority>>
    BY DEF Goals!Check
  <1>3. CASE /\ turn' = "rejected" /\ Goals!Call(<<Goals!Request>>)
             /\ UNCHANGED <<goal, armed, folds, queue, claimed, aborted, latched, Goals!driver, used,
                            authority>>
    <2>1. StackIsTyped'
      BY <1>3, OneCall
    <2> QED
      BY <1>1, <1>3, <2>1, FlagsAreTyped, Untouched, NotOpened, TurnStepHolds DEF Goals!driver
  <1> QED
    BY <1>1, <1>2, <1>3, MoveHolds, RefuseHolds

(* The second look of the fence.                                           *)
LEMMA RoundDecided ==
  ASSUME RoundsAreMeant, RoundsInv, Goals!Decide
  PROVE  RoundsGood
  <1> DEFINE Blocks == /\ turn' = "rejected" /\ attempt' = Goals!None
                       /\ Goals!Changed("blocked") /\ armed' = FALSE /\ Goals!Call(<<Goals!Request>>)
                       /\ UNCHANGED <<folds, queue, claimed, aborted, latched, competing,
                                      asked, loop, loops, used, authority>>
             Leaves == /\ turn' = "rejected" /\ attempt' = Goals!None
                       /\ UNCHANGED <<goal, armed, folds, queue, claimed, aborted, latched,
                                      competing, needsCheckpoint, asked, loop, loops, frames,
                                      used, authority>>
  <1>1. /\ Goals!InTurn /\ ~aborted
        /\ {"emptied", "outer", "rejected", "failed"} \subseteq InTurns
    BY DEF Goals!Decide, Goals!InTurn, RoundTurns, InTurns
  <1>2. \/ \E place \in {"emptied", "outer", "rejected", "failed"} : Goals!Refuse(place)
             \/ Goals!Move(place)
        \/ Goals!Enter \/ Blocks \/ Leaves
    BY DEF Goals!Decide
  <1>3. CASE \E place \in {"emptied", "outer", "rejected", "failed"} : Goals!Refuse(place)
               \/ Goals!Move(place)
    BY <1>1, <1>3, MoveHolds, RefuseHolds
  <1>4. CASE Blocks
    <2>1. goal' \in GoalRecords /\ goal'.id = goal.id /\ needsCheckpoint' = TRUE
      <3>1. "blocked" \in GoalPhases
        BY DEF GoalPhases
      <3> QED
        BY <1>4, <3>1, BeforeStep, ChangedIsTyped
    <2>2. StackIsTyped'
      BY <1>4, OneCall
    <2> QED
      BY <1>1, <1>4, <2>1, <2>2, FlagsAreTyped, Untouched, NotOpened, TurnStepHolds
  <1>5. CASE Leaves
    <2>1. StackIsTyped'
      BY <1>5 DEF RoundsInv, RoundsAreTyped, StackIsTyped
    <2> QED
      BY <1>1, <1>5, <2>1, FlagsAreTyped, Untouched, NotOpened, TurnStepHolds
  <1> QED
    BY <1>1, <1>2, <1>3, <1>4, <1>5, EnterHolds

(* An outer listener lets the turn go on.                                  *)
LEMMA OuterDoneHolds ==
  ASSUME RoundsAreMeant, RoundsInv, Goals!OuterDone
  PROVE  RoundsGood
  BY EnterHolds DEF Goals!OuterDone, Goals!InTurn

---------------------------------------------------------------------------
(* The driver.                                                             *)

(* A step of a loop that queues nothing.                                   *)
LEMMA LoopStepHolds ==
  ASSUME RoundsInv, UNCHANGED <<folds, Goals!agent, competing, used, authority>>,
         goal' \in GoalRecords, goal'.id = goal.id, attempt' \in Attempts,
         attempt'.phase # "none" => attempt.phase # "none",
         turn = "leaving" => attempt' = attempt,
         needsCheckpoint' \in BOOLEAN, asked' \in BOOLEAN, loop' \in Runs \cup {Goals!NoRun},
         loops' \in [Runs -> {"off", "flush", "loop", "ended"}],
         StackIsTyped', armed' \in BOOLEAN, armed' => armed /\ goal'.phase = "active"
  PROVE  RoundsGood
  <1>1. GoalIsTyped'
    BY DEF RoundsInv, RoundsAreTyped, GoalIsTyped
  <1>2. AgentIsTyped' /\ turn' = turn /\ aborted' = aborted
    BY DEF RoundsInv, RoundsAreTyped, AgentIsTyped, Goals!agent
  <1>3. DriverIsTyped'
    BY DEF RoundsInv, RoundsAreTyped, DriverIsTyped
  <1>4. ArmedIsActive' /\ CancelledIsAborted'
    BY <1>2 DEF RoundsInv, ArmedIsActive, CancelledIsAborted, Goals!InTurn
  <1>5. Stops
    BY DEF Stops
  <1> QED
    BY <1>1, <1>2, <1>3, <1>4, <1>5, PartsHold

(* A loop goes on.                                                         *)
LEMMA RunsAreTyped ==
  ASSUME RoundsInv, NEW r, NEW s \in {"off", "flush", "loop", "ended"},
         loops' = [loops EXCEPT ![r] = s]
  PROVE  loops' \in [Runs -> {"off", "flush", "loop", "ended"}]
  BY DEF RoundsInv, RoundsAreTyped, DriverIsTyped

(* A pass queues a round only for a goal that somebody armed since the     *)
(* last cancellation: an idle agent has no aborted turn.                   *)
LEMMA ReserveHolds ==
  ASSUME RoundsAreMeant, RoundsInv, Goals!Ready, NEW r, NEW rest \in Seq(CallFrames),
         NEW req \in BOOLEAN,
         Goals!Reserve(r, rest, req)
  PROVE  RoundsGood
  <1> DEFINE m == [id |-> goal.id, rev |-> goal.rev, round |-> goal.started + 1]
             Blocks == /\ Goals!Changed("blocked") /\ armed' = FALSE
                       /\ frames' = <<Goals!Request>> \o rest
                       /\ UNCHANGED <<Goals!agent, attempt>>
             Drops  == /\ attempt' = Goals!None /\ needsCheckpoint' = TRUE /\ frames' = rest
                       /\ UNCHANGED <<goal, armed, Goals!agent>>
             Rests  == frames' = rest
               /\ UNCHANGED <<goal, armed, Goals!agent, attempt, needsCheckpoint>>
             Queues == /\ ~Goals!LimitReached /\ Goals!Running /\ ~Goals!Held
                       /\ Goals!Open(Append(queue, m), [Goals!None EXCEPT !.round = m,
                            !.phase = "queued"])
                       /\ frames' = rest
                       /\ UNCHANGED <<goal, armed, needsCheckpoint>>
  <1>1. /\ loops' = [loops EXCEPT ![r] = "loop"] /\ asked' = (req \/ Goals!Held)
        /\ UNCHANGED <<folds, competing, loop, used, authority>>
        /\ Blocks \/ Drops \/ Rests \/ Queues
    BY DEF Goals!Reserve
  <1>2. /\ loops' \in [Runs -> {"off", "flush", "loop", "ended"}] /\ asked' \in BOOLEAN
        /\ loop' \in Runs \cup {Goals!NoRun} /\ turn # "leaving"
    <2>1. loop \in Runs \cup {Goals!NoRun}
      BY DEF RoundsInv, RoundsAreTyped, DriverIsTyped
    <2>2. Goals!Held \in BOOLEAN
      BY DEF Goals!Held
    <2> QED
      BY <1>1, <2>1, <2>2, RunsAreTyped DEF Goals!Ready
  <1>3. CASE Blocks
    <2>1. goal' \in GoalRecords /\ goal'.id = goal.id /\ needsCheckpoint' = TRUE
      <3>1. "blocked" \in GoalPhases
        BY DEF GoalPhases
      <3> QED
        BY <1>3, <3>1, BeforeStep, ChangedIsTyped
    <2>2. StackIsTyped'
      <3>1. <<Goals!Request>> \in Seq(CallFrames)
        BY FramesAreTyped DEF RoundsInv, RoundsAreTyped
      <3>2. <<Goals!Request>> \o rest \in Seq(CallFrames)
        BY <3>1, ConcatProperties
      <3> QED
        BY <1>3, <3>2 DEF StackIsTyped
    <2> QED
      BY <1>1, <1>2, <1>3, <2>1, <2>2, FlagsAreTyped, Untouched, NotOpened, LoopStepHolds
  <1>4. CASE Drops
    <2>1. StackIsTyped'
      BY <1>4 DEF StackIsTyped
    <2> QED
      BY <1>1, <1>2, <1>4, <2>1, FlagsAreTyped, Untouched, NotOpened, LoopStepHolds
  <1>5. CASE Rests
    <2>1. StackIsTyped'
      BY <1>5 DEF StackIsTyped
    <2> QED
      BY <1>1, <1>2, <1>5, <2>1, FlagsAreTyped, Untouched, NotOpened, LoopStepHolds
  <1>6. CASE Queues
    <2>1. m \in Goals!Rounds
      <3>1. goal.id \in Goals!Ids /\ goal.rev \in Nat /\ goal.started \in 0 .. MaxRounds
            /\ MaxRounds \in Nat
        BY BeforeStep DEF GoalRecords, RoundsAreMeant
      <3>2. goal.started + 1 \in 0 .. MaxRounds
        BY <1>6, <3>1 DEF Goals!LimitReached
      <3> QED
        BY <3>1, <3>2 DEF Goals!Rounds
    <2> DEFINE att == [Goals!None EXCEPT !.round = m, !.phase = "queued"]
               q == Append(queue, m)
    <2>2. att \in Attempts
      BY <2>1, PromptIsRound, QueuedIsTyped
    <2>3. q \in Seq(Goals!Rounds) /\ q # <<>>
      BY <2>1, AppendProperties DEF RoundsInv, RoundsAreTyped, AgentIsTyped
    <2>4. Goals!Open(q, att)
      BY <1>6
    <2> HIDE DEF att, q, m
    <2>5. AgentIsTyped' /\ attempt' \in Attempts
      BY <2>2, <2>3, <2>4, OpenIsTyped
    <2>6. authority
      BY <1>6 DEF Goals!Ready, Goals!Running, Goals!InTurn, RoundsInv, CancelledIsAborted
    <2>7. GoalIsTyped' /\ ArmedIsActive'
      BY <1>1, <1>6, GoalKept
    <2>8. DriverIsTyped'
      BY <1>1, <1>2, <1>6, <2>5 DEF RoundsInv, RoundsAreTyped, DriverIsTyped
    <2>9. StackIsTyped'
      BY <1>6 DEF StackIsTyped
    <2>10. CancelledIsAborted' /\ Stops
      BY <1>1, <2>6 DEF CancelledIsAborted, Stops
    <2> QED
      BY <2>5, <2>7, <2>8, <2>9, <2>10, PartsHold
  <1> QED
    BY <1>1, <1>3, <1>4, <1>5, <1>6

(* A pass of a loop, up to its flush.                                      *)
LEMMA PassHolds ==
  ASSUME RoundsAreMeant, RoundsInv, NEW r, NEW rest \in Seq(CallFrames), Goals!Drive(r, rest)
  PROVE  RoundsGood
  <1>1. CASE Goals!Ready /\ ~needsCheckpoint /\ Goals!Reserve(r, rest, FALSE)
    BY <1>1, ReserveHolds
  <1>2. CASE /\ loops' = [loops EXCEPT ![r] = IF Goals!Ready THEN "flush" ELSE "loop"]
             /\ needsCheckpoint' = (needsCheckpoint /\ ~Goals!Ready)
             /\ asked' = FALSE /\ frames' = rest
             /\ UNCHANGED <<goal, armed, folds, Goals!agent, attempt, competing, loop, used,
                            authority>>
    <2>1. (IF Goals!Ready THEN "flush" ELSE "loop") \in {"off", "flush", "loop", "ended"}
      OBVIOUS
    <2>2. loops' \in [Runs -> {"off", "flush", "loop", "ended"}]
      BY <1>2, <2>1, RunsAreTyped
    <2>3. StackIsTyped'
      BY <1>2 DEF StackIsTyped
    <2>4. needsCheckpoint' \in BOOLEAN
      BY <1>2
    <2>5. loop' \in Runs \cup {Goals!NoRun}
      BY <1>2 DEF RoundsInv, RoundsAreTyped, DriverIsTyped
    <2> QED
      BY <1>2, <2>2, <2>3, <2>4, <2>5, FlagsAreTyped, Untouched, NotOpened, LoopStepHolds
  <1> QED
    BY <1>1, <1>2 DEF Goals!Drive

(* The synchronous calls.                                                  *)
LEMMA SyncHolds ==
  ASSUME RoundsAreMeant, RoundsInv, Goals!Sync
  PROVE  RoundsGood
  <1>1. frames # <<>>
    BY DEF Goals!Sync, Goals!RequestDrive, Goals!AssignRun, Goals!WakeAgain, Goals!Calling
  <1>2. Head(frames) \in CallFrames /\ Goals!Back \in Seq(CallFrames)
    BY <1>1, FramesAreTyped DEF RoundsInv, RoundsAreTyped
  <1>3. loop \in Runs \cup {Goals!NoRun} /\ loops \in [Runs -> {"off", "flush", "loop", "ended"}]
        /\ asked \in BOOLEAN
    BY DEF RoundsInv, RoundsAreTyped, DriverIsTyped
  <1>4. CASE Goals!RequestDrive
    <2>1. CASE loop # Goals!NoRun
      <3>1. /\ asked' = TRUE /\ frames' = Goals!Back
            /\ UNCHANGED <<goal, armed, folds, Goals!agent, attempt, competing, needsCheckpoint, loop,
                           loops, used, authority>>
        BY <1>4, <2>1 DEF Goals!RequestDrive
      <3>2. StackIsTyped'
        BY <1>2, <3>1 DEF StackIsTyped
      <3> QED
        BY <1>3, <3>1, <3>2, FlagsAreTyped, Untouched, NotOpened, LoopStepHolds
    <2>2. CASE loop = Goals!NoRun
      <3> DEFINE off == {r \in Runs : loops[r] = "off"}
                 r == CHOOSE r \in off : TRUE
      <3>1. off # {} /\ Goals!Drive(r, <<Goals!Assign(r)>> \o Goals!Back)
        BY <1>4, <2>2 DEF Goals!RequestDrive
      <3>2. r \in Runs
        BY <3>1
      <3> HIDE DEF r
      <3>3. <<Goals!Assign(r)>> \in Seq(CallFrames)
        BY <3>2, FramesAreTyped DEF RoundsInv, RoundsAreTyped
      <3>4. <<Goals!Assign(r)>> \o Goals!Back \in Seq(CallFrames)
        BY <1>2, <3>3, ConcatProperties
      <3> QED
        BY <3>1, <3>4, PassHolds
    <2> QED
      BY <2>1, <2>2
  <1>5. CASE Goals!AssignRun
    <2>1. /\ loop' = Head(frames).run /\ frames' = Goals!Back
          /\ UNCHANGED <<goal, armed, folds, Goals!agent, attempt, competing, needsCheckpoint,
                         asked, loops, used, authority>>
      BY <1>5 DEF Goals!AssignRun
    <2>2. loop' \in Runs \cup {Goals!NoRun}
      BY <1>2, <2>1 DEF CallFrames
    <2>3. StackIsTyped'
      BY <1>2, <2>1 DEF StackIsTyped
    <2> QED
      BY <1>3, <2>1, <2>2, <2>3, FlagsAreTyped, Untouched, NotOpened, LoopStepHolds
  <1>6. CASE Goals!WakeAgain
    <2>1. /\ frames' = Goals!Back
          /\ UNCHANGED <<goal, armed, folds, competing, needsCheckpoint, asked, loop, loops,
                         used, authority>>
          /\ \/ turn = "idle" /\ queue # <<>> /\ Goals!Open(queue, attempt)
             \/ UNCHANGED <<Goals!agent, attempt>>
      BY <1>6 DEF Goals!WakeAgain
    <2>2. StackIsTyped'
      BY <1>2, <2>1 DEF StackIsTyped
    <2>3. CASE UNCHANGED <<Goals!agent, attempt>>
      BY <1>3, <2>1, <2>2, <2>3, FlagsAreTyped, Untouched, NotOpened, LoopStepHolds
    <2>4. CASE turn = "idle" /\ queue # <<>> /\ Goals!Open(queue, attempt)
      <3>1. /\ AgentIsTyped' /\ attempt' \in Attempts
            /\ attempt'.phase = "none" <=> attempt.phase = "none"
        BY <2>4, BeforeStep, OpenIsTyped DEF RoundsInv, RoundsAreTyped, AgentIsTyped
      <3>2. GoalIsTyped' /\ ArmedIsActive'
        BY <2>1, GoalKept
      <3>3. DriverIsTyped'
        BY <2>1, <3>1 DEF RoundsInv, RoundsAreTyped, DriverIsTyped
      <3>4. CancelledIsAborted' /\ Stops
        BY <2>1, <2>4, <3>1 DEF RoundsInv, CancelledIsAborted, Goals!InTurn, Stops
      <3> QED
        BY <2>2, <3>1, <3>2, <3>3, <3>4, PartsHold
    <2> QED
      BY <2>1, <2>3, <2>4
  <1> QED
    BY <1>4, <1>5, <1>6 DEF Goals!Sync

(* What a loop does in a job of its own.                                   *)
LEMMA LoopHolds ==
  ASSUME RoundsAreMeant, RoundsInv, NEW r \in Runs,
         Goals!LoopAgain(r) \/ Goals!Flushed(r) \/ Goals!Retire(r)
  PROVE  RoundsGood
  <1>1. <<>> \in Seq(CallFrames) /\ asked \in BOOLEAN /\ loop \in Runs \cup {Goals!NoRun}
    BY DEF RoundsInv, RoundsAreTyped, DriverIsTyped
  <1>2. CASE Goals!LoopAgain(r)
    <2>1. CASE asked
      BY <1>1, <1>2, <2>1, PassHolds DEF Goals!LoopAgain
    <2>2. CASE ~asked
      <3>1. /\ loops' = [loops EXCEPT ![r] = "ended"]
            /\ UNCHANGED <<goal, armed, folds, Goals!agent, attempt, competing, needsCheckpoint,
                           asked, loop, frames, used, authority>>
        BY <1>2, <2>2 DEF Goals!LoopAgain
      <3>2. StackIsTyped' /\ loops' \in [Runs -> {"off", "flush", "loop", "ended"}]
        BY <3>1, RunsAreTyped DEF RoundsInv, RoundsAreTyped, StackIsTyped
      <3> QED
        BY <1>1, <3>1, <3>2, FlagsAreTyped, Untouched, NotOpened, LoopStepHolds
    <2> QED
      BY <2>1, <2>2
  <1>3. CASE Goals!Flushed(r)
    <2>1. CASE Goals!Ready /\ ~needsCheckpoint /\ Goals!Reserve(r, <<>>, asked)
      BY <1>1, <2>1, ReserveHolds
    <2>2. CASE /\ loops' = [loops EXCEPT ![r] = "loop"] /\ (armed' = armed \/ armed' = FALSE)
               /\ UNCHANGED <<goal, folds, Goals!agent, attempt, competing, needsCheckpoint,
                              asked, loop, frames, used, authority>>
      <3>1. StackIsTyped' /\ loops' \in [Runs -> {"off", "flush", "loop", "ended"}]
        BY <2>2, RunsAreTyped DEF RoundsInv, RoundsAreTyped, StackIsTyped
      <3> QED
        BY <1>1, <2>2, <3>1, FlagsAreTyped, Untouched, NotOpened, LoopStepHolds
    <2> QED
      BY <1>3, <2>1, <2>2 DEF Goals!Flushed
  <1>4. CASE Goals!Retire(r)
    <2>1. /\ loops' = [loops EXCEPT ![r] = "off"] /\ loop' = Goals!NoRun
               /\ frames' = Goals!RequestedSince
          /\ UNCHANGED <<goal, armed, folds, Goals!agent, attempt, competing, needsCheckpoint,
                         asked, used, authority>>
      BY <1>4 DEF Goals!Retire
    <2>2. Goals!RequestedSince \in Seq(CallFrames)
      <3>1. Goals!Request \in CallFrames
        BY FramesAreTyped DEF RoundsInv, RoundsAreTyped
      <3> QED
        BY <1>1, <3>1 DEF Goals!RequestedSince
    <2>3. StackIsTyped' /\ loops' \in [Runs -> {"off", "flush", "loop", "ended"}]
      BY <2>1, <2>2, RunsAreTyped DEF StackIsTyped
    <2> QED
      BY <1>1, <2>1, <2>3, FlagsAreTyped, Untouched, NotOpened, LoopStepHolds
  <1> QED
    BY <1>2, <1>3, <1>4

---------------------------------------------------------------------------
(* Every step.                                                             *)

(* Every step keeps the invariant, and queues a round only on authority.   *)
LEMMA RoundsStep ==
  ASSUME RoundsAreMeant, RoundsInv, Goals!Next
  PROVE  RoundsGood
  <1>1. CASE \E keep \in BOOLEAN : Goals!Cancel(keep)
    BY <1>1, CancelHolds
  <1>2. CASE \E r \in Runs : Goals!LoopAgain(r) \/ Goals!Flushed(r) \/ Goals!Retire(r)
    BY <1>2, LoopHolds
  <1>3. CASE Goals!Create \/ Goals!Edit \/ Goals!Resume \/ Goals!Pause \/ Goals!Complete \/ Goals!Clear
    BY <1>3, CreateHolds, EditHolds, ResumeHolds, StoppedHolds
  <1>4. CASE \/ Goals!SendPrompt \/ Goals!Aborted \/ Goals!Finish
             \/ Goals!NextTurn \/ Goals!GoIdle
    BY <1>4, SendPromptHolds, EndsHold, NextTurnHolds, GoIdleHolds
  <1>5. CASE Goals!Check \/ Goals!Decide \/ Goals!OuterDone \/ Goals!Sync
    BY <1>5, CheckHolds, RoundDecided, OuterDoneHolds, SyncHolds
  <1> QED
    BY <1>1, <1>2, <1>3, <1>4, <1>5 DEF Goals!Next

(* So does a step that changes nothing.                                    *)
LEMMA RoundsStutter ==
  ASSUME RoundsInv, UNCHANGED Goals!vars
  PROVE  RoundsGood
  <1>1. UNCHANGED <<goal, armed, folds, queue, turn, claimed, aborted, latched, attempt, competing,
                    needsCheckpoint, asked, loop, loops, frames, used, authority>>
    BY DEF Goals!vars, Goals!agent, Goals!driver
  <1>2. GoalIsTyped' /\ ArmedIsActive'
    BY <1>1, GoalKept
  <1>3. AgentIsTyped' /\ DriverIsTyped' /\ StackIsTyped'
    BY <1>1 DEF RoundsInv, RoundsAreTyped, AgentIsTyped, DriverIsTyped, StackIsTyped
  <1>4. CancelledIsAborted' /\ Stops
    BY <1>1 DEF RoundsInv, CancelledIsAborted, Goals!InTurn, Stops
  <1> QED
    BY <1>2, <1>3, <1>4, PartsHold

(* The state is typed, an armed goal is active, and what a cancellation    *)
(* has not yet disarmed has an aborted turn, or a round to be cancelled at *)
(* the idle status: the inductive invariant.                               *)
THEOREM RoundsInductive ==
  ASSUME RoundsAreMeant PROVE Goals!Spec => []RoundsInv
  <1>1. RoundsInv /\ [Goals!Next]_(Goals!vars) => RoundsInv'
    BY RoundsStep, RoundsStutter DEF RoundsGood
  <1>2. Goals!Init => RoundsInv
    BY RoundsInit
  <1> QED
    BY <1>1, <1>2, PTL DEF Goals!Spec

(* After an open turn is cancelled no round is queued until a person or    *)
(* a tool arms the goal again.                                             *)
THEOREM RoundsStop ==
  ASSUME RoundsAreMeant PROVE Goals!Spec => Goals!CancelStops
  <1>1. RoundsInv /\ [Goals!Next]_(Goals!vars) => [attempt.phase = "none"
          /\ attempt'.phase # "none" => authority]_(Goals!vars)
    BY RoundsStep DEF RoundsGood, Stops
  <1> QED
    BY <1>1, RoundsInductive, PTL DEF Goals!Spec, Goals!CancelStops

---------------------------------------------------------------------------
(* Durable reminders.                                                      *)

(* Rules are made of instants and intervals, and the bounds are bounds.    *)
RemindersAreMeant ==
  /\ Rules \subseteq [delay : Nat, at : Nat, every : Nat] /\ Horizon \in Nat
  /\ MaxCalls \in Nat /\ MaxFails \in Nat /\ MaxLives \in Nat /\ MaxBack \in Nat

(* What a log is made of.                                                  *)
Record  == [id : Nat, every : Nat, time : Nat]
Item    == [id : Nat, occurrence : Nat]
Entries == [op : {"create"}, id : Nat, every : Nat, time : Nat]
             \cup [op : {"delete"}, id : Nat]
             \cup [op : {"remind"}, id : {0}, items : SUBSET Item]
             \cup [op : {"dispatch"}, id : Nat, time : Nat]

(* The schedule counts as everyone does.                                   *)
LEMMA CountIs == \A S : Reminders!Cardinality(S) = Cardinality(S)
  BY DEF Reminders!Cardinality, Cardinality

(* A set of numbers that is not empty has a least one.                     *)
LEMMA LeastIs ==
  ASSUME NEW S, S # {}, S \subseteq Nat
  PROVE  \E x \in S : \A y \in S : x <= y
  <1> DEFINE R == OpToRel(<, Nat)
  <1>1. IsWellFoundedOn(R, Nat)
    BY NatLessThanWellFounded
  <1>2. \A x, y \in Nat : x < y => <<x, y>> \in R
    BY DEF OpToRel
  <1> HIDE DEF R
  <1>3. PICK x \in S : \A y \in S : ~(<<y, x>> \in R)
    BY <1>1, WFMin
  <1>4. ASSUME NEW y \in S PROVE x <= y
    <2>1. x \in Nat /\ y \in Nat
      OBVIOUS
    <2>2. ~(y < x)
      BY <2>1, <1>2, <1>3
    <2> QED
      BY <2>1, <2>2
  <1> QED
    BY <1>3, <1>4

---------------------------------------------------------------------------
(* The fold, event by event.                                               *)

(* The states on the way through the first m events.                       *)
FoldTrace(s, l, m) == s = [n \in 0 .. m |-> IF n = 0 THEN Reminders!Nothing
                        ELSE Reminders!Apply(s[n - 1], l[n])]

(* Every log has a trace of its fold.                                      *)
LEMMA TraceExists ==
  ASSUME NEW l, NEW m \in Nat
  PROVE  \E s : FoldTrace(s, l, m)
  <1> DEFINE Bad == {k \in Nat : ~\E s : FoldTrace(s, l, k)}
  <1>1. SUFFICES ASSUME Bad # {} PROVE FALSE
    OBVIOUS
  <1>2. PICK k \in Bad : \A y \in Bad : k <= y
    BY <1>1, LeastIs
  <1>3. k \in Nat /\ ~\E s : FoldTrace(s, l, k)
    BY <1>2
  <1>4. CASE k = 0
    <2>1. PICK s : s = [n \in 0 .. 0 |-> Reminders!Nothing]
      OBVIOUS
    <2>2. \A n \in 0 .. 0 : n = 0
      OBVIOUS
    <2>3. s = [n \in 0 .. 0 |-> IF n = 0 THEN Reminders!Nothing ELSE Reminders!Apply(s[n - 1], l[n])]
      BY <2>1, <2>2
    <2> QED
      BY <1>3, <1>4, <2>3 DEF FoldTrace
  <1>5. CASE k # 0
    <2>1. k - 1 \in Nat /\ ~(k <= k - 1)
      BY <1>3, <1>5
    <2>2. k - 1 \notin Bad
      BY <1>2, <2>1
    <2>3. PICK s : FoldTrace(s, l, k - 1)
      BY <2>1, <2>2
    <2>4. s = [n \in 0 .. k - 1 |-> IF n = 0 THEN Reminders!Nothing
            ELSE Reminders!Apply(s[n - 1], l[n])]
      BY <2>3 DEF FoldTrace
    <2>5. PICK t : t = [n \in 0 .. k |-> IF n = k THEN Reminders!Apply(s[k - 1], l[k]) ELSE s[n]]
      OBVIOUS
    <2>6. \A n \in 0 .. k : n = k \/ (n \in 0 .. k - 1 /\ n # k)
      BY <1>3
    <2>7. ASSUME NEW n \in 0 .. k - 1 PROVE t[n] = s[n]
      <3>1. n \in 0 .. k /\ n # k
        BY <1>3, <2>1
      <3> QED
        BY <2>5, <3>1
    <2>8. ASSUME NEW n \in 0 .. k
          PROVE  t[n] = IF n = 0 THEN Reminders!Nothing ELSE Reminders!Apply(t[n - 1], l[n])
      <3>1. CASE n = k
        <4>1. k - 1 \in 0 .. k - 1
          BY <2>1
        <4>2. t[k] = Reminders!Apply(s[k - 1], l[k])
          BY <2>5, <3>1
        <4> QED
          BY <1>5, <2>7, <3>1, <4>1, <4>2
      <3>2. CASE n # k
        <4>1. n \in 0 .. k - 1
          BY <2>6, <3>2
        <4>2. t[n] = IF n = 0 THEN Reminders!Nothing ELSE Reminders!Apply(s[n - 1], l[n])
          BY <2>4, <2>7, <4>1
        <4>3. CASE n # 0
          <5>1. n - 1 \in 0 .. k - 1
            BY <2>1, <4>1, <4>3
          <5> QED
            BY <2>7, <4>2, <4>3, <5>1
        <4> QED
          BY <4>2, <4>3
      <3> QED
        BY <3>1, <3>2
    <2>9. t = [n \in 0 .. k |-> t[n]]
      BY <2>5
    <2>10. t = [n \in 0 .. k |-> IF n = 0 THEN Reminders!Nothing ELSE Reminders!Apply(t[n - 1], l[n])]
      BY <2>8, <2>9
    <2> QED
      BY <1>3, <2>10 DEF FoldTrace
  <1> QED
    BY <1>4, <1>5

(* Two of them agree as far as their logs do.                              *)
LEMMA TracesAgree ==
  ASSUME NEW s, NEW t, NEW l, NEW u, NEW m \in Nat, NEW k \in Nat, m <= k,
         FoldTrace(s, l, m), FoldTrace(t, u, k), \A i \in 1 .. m : l[i] = u[i]
  PROVE  s[m] = t[m]
  <1> DEFINE Bad == {i \in Nat : i \in 0 .. m /\ s[i] # t[i]}
  <1>1. ASSUME Bad # {} PROVE FALSE
    <2>1. PICK i \in Bad : \A y \in Bad : i <= y
      BY <1>1, LeastIs
    <2>2. i \in Nat /\ i \in 0 .. m /\ i \in 0 .. k /\ s[i] # t[i]
      BY <2>1
    <2>3. /\ s[i] = IF i = 0 THEN Reminders!Nothing ELSE Reminders!Apply(s[i - 1], l[i])
          /\ t[i] = IF i = 0 THEN Reminders!Nothing ELSE Reminders!Apply(t[i - 1], u[i])
      BY <2>2 DEF FoldTrace
    <2>4. i # 0
      BY <2>2, <2>3
    <2>5. i - 1 \in Nat /\ i - 1 \in 0 .. m /\ ~(i <= i - 1) /\ i \in 1 .. m
      BY <2>2, <2>4
    <2>6. i - 1 \notin Bad
      BY <2>1, <2>5
    <2>7. s[i - 1] = t[i - 1] /\ l[i] = u[i]
      BY <2>5, <2>6
    <2> QED
      BY <2>2, <2>3, <2>4, <2>7
  <1>2. m \in 0 .. m
    OBVIOUS
  <1> QED
    BY <1>1, <1>2

(* The fold is where it ends.                                              *)
LEMMA FoldIs ==
  ASSUME NEW l, Len(l) \in Nat, NEW s, FoldTrace(s, l, Len(l))
  PROVE  Reminders!Fold(l) = s[Len(l)]
  <1> DEFINE T(t) == t = [n \in 0 .. Len(l) |-> IF n = 0 THEN Reminders!Nothing
    ELSE Reminders!Apply(t[n - 1], l[n])]
  <1>1. PICK c : c = CHOOSE t : T(t)
    OBVIOUS
  <1>2. T(s)
    BY DEF FoldTrace
  <1>3. T(c)
    BY <1>1, <1>2
  <1>4. FoldTrace(c, l, Len(l))
    BY <1>3 DEF FoldTrace
  <1>5. s[Len(l)] = c[Len(l)]
    <2>1. Len(l) <= Len(l) /\ \A i \in 1 .. Len(l) : l[i] = l[i]
      OBVIOUS
    <2> HIDE DEF T
    <2> QED
      BY <1>4, <2>1, TracesAgree
  <1>6. Reminders!Fold(l) = c[Len(l)]
    BY <1>1 DEF Reminders!Fold
  <1> QED
    BY <1>5, <1>6

(* An empty log folds to nothing.                                          *)
LEMMA FoldEmpty == Reminders!Fold(<<>>) = Reminders!Nothing
  <1>1. Len(<<>>) = 0 /\ 0 \in Nat
    OBVIOUS
  <1>2. PICK s : FoldTrace(s, <<>>, 0)
    BY TraceExists
  <1>3. Reminders!Fold(<<>>) = s[0]
    BY <1>1, <1>2, FoldIs
  <1>4. 0 \in 0 .. 0
    OBVIOUS
  <1> QED
    BY <1>2, <1>3, <1>4 DEF FoldTrace

(* One event more is applied.                                              *)
LEMMA FoldAppend ==
  ASSUME NEW S, NEW l \in Seq(S), NEW e \in S
  PROVE  Reminders!Fold(Append(l, e)) = Reminders!Apply(Reminders!Fold(l), e)
  <1> DEFINE u == Append(l, e)
  <1>1. /\ Len(l) \in Nat /\ Len(u) = Len(l) + 1 /\ u[Len(l) + 1] = e
        /\ \A i \in 1 .. Len(l) : u[i] = l[i]
    BY AppendProperties, LenProperties
  <1> HIDE DEF u
  <1>2. Len(u) \in Nat /\ Len(l) <= Len(u)
    BY <1>1
  <1>3. PICK s : FoldTrace(s, l, Len(l))
    BY <1>1, TraceExists
  <1>4. PICK t : FoldTrace(t, u, Len(u))
    BY <1>2, TraceExists
  <1>5. Reminders!Fold(l) = s[Len(l)] /\ Reminders!Fold(u) = t[Len(u)]
    BY <1>1, <1>2, <1>3, <1>4, FoldIs
  <1>6. s[Len(l)] = t[Len(l)]
    <2>1. \A i \in 1 .. Len(l) : l[i] = u[i]
      BY <1>1
    <2> QED
      BY <1>1, <1>2, <1>3, <1>4, <2>1, TracesAgree
  <1>7. Len(u) \in 0 .. Len(u) /\ Len(u) # 0 /\ Len(u) - 1 = Len(l)
    BY <1>1
  <1>8. t[Len(u)] = Reminders!Apply(t[Len(u) - 1], u[Len(u)])
    BY <1>4, <1>7 DEF FoldTrace
  <1> QED
    BY <1>1, <1>5, <1>6, <1>7, <1>8 DEF u

---------------------------------------------------------------------------
(* What a log is folded to.                                                *)

(* Ids are numbered as they come, and a record is the only one of its id.  *)
Folded(f) ==
  /\ f \in [ok : BOOLEAN, seen : SUBSET Nat, active : SUBSET Record] /\ f.ok = TRUE
  /\ \E k \in Nat : f.seen = 1 .. k
  /\ \A r \in f.active : r.id \in f.seen
  /\ \A r, q \in f.active : r.id = q.id => r = q

(* What may come next.                                                     *)
Fits(f, e) ==
  /\ e.op = "create" => e.id = Cardinality(f.seen) + 1
  /\ e.op = "delete" => \E r \in f.active : r.id = e.id
  /\ e.op = "remind" => \A it \in e.items : it.id \in f.seen
  /\ e.op = "dispatch" => \E r \in f.active : r.id = e.id /\ (r.every # 0 => r.time <= e.time)

(* The kinds of an entry.                                                  *)
LEMMA EntryIs ==
  ASSUME NEW e \in Entries
  PROVE  \/ e.op = "create" /\ e.id \in Nat /\ e.every \in Nat /\ e.time \in Nat
         \/ e.op = "delete" /\ e.id \in Nat
         \/ e.op = "remind" /\ e.items \subseteq Item
         \/ e.op = "dispatch" /\ e.id \in Nat /\ e.time \in Nat
  <1>1. CASE e \in [op : {"create"}, id : Nat, every : Nat, time : Nat]
    BY <1>1
  <1>2. CASE e \in [op : {"delete"}, id : Nat]
    BY <1>2
  <1>3. CASE e \in [op : {"remind"}, id : {0}, items : SUBSET Item]
    BY <1>3
  <1>4. CASE e \in [op : {"dispatch"}, id : Nat, time : Nat]
    BY <1>4
  <1> QED
    BY <1>1, <1>2, <1>3, <1>4 DEF Entries

(* A repeating record stays the same but for its target.                   *)
LEMMA DispatchedIs ==
  ASSUME RemindersAreMeant, NEW r \in Record, NEW at, NEW d \in Reminders!Dispatched(r, at)
  PROVE  /\ d \in Record /\ d.id = r.id /\ d.every = r.every /\ r.every # 0
         /\ d.time = Reminders!Occurrence(r, at).next
  <1>1. r.every # 0
    BY DEF Reminders!Dispatched
  <1>2. PICK n \in {Reminders!Occurrence(r, at).next} \cap 0 .. Horizon : d = [r EXCEPT !.time = n]
    BY <1>1 DEF Reminders!Dispatched
  <1>3. n \in Nat /\ n = Reminders!Occurrence(r, at).next
    BY <1>2 DEF RemindersAreMeant
  <1>4. d = [id |-> r.id, every |-> r.every, time |-> n]
    BY <1>2 DEF Record
  <1>5. r.id \in Nat /\ r.every \in Nat
    BY DEF Record
  <1> QED
    BY <1>1, <1>3, <1>4, <1>5 DEF Record

(* What fits is folded, and ids are never forgotten.                       *)
LEMMA ApplyIsFolded ==
  ASSUME RemindersAreMeant, NEW f, Folded(f), NEW e \in Entries, Fits(f, e)
  PROVE  Folded(Reminders!Apply(f, e)) /\ f.seen \subseteq Reminders!Apply(f, e).seen
  <1> DEFINE of == {r \in f.active : r.id = e.id}
  <1>1. /\ f \in [ok : BOOLEAN, seen : SUBSET Nat, active : SUBSET Record] /\ f.ok = TRUE
        /\ \E k \in Nat : f.seen = 1 .. k
        /\ \A r \in f.active : r.id \in f.seen
        /\ \A r, q \in f.active : r.id = q.id => r = q
    BY DEF Folded
  <1>2. f = [ok |-> TRUE, seen |-> f.seen, active |-> f.active]
        /\ f.seen \subseteq Nat /\ f.active \subseteq Record
    BY <1>1
  <1>3. CASE e.op = "remind"
    <2>1. Reminders!Apply(f, e) = f
      BY <1>3 DEF Reminders!Apply
    <2> QED
      BY <2>1
  <1>4. CASE e.op = "create"
    <2>1. e.id \in Nat /\ e.every \in Nat /\ e.time \in Nat
      BY <1>4, EntryIs
    <2>2. PICK k \in Nat : f.seen = 1 .. k
      BY <1>1
    <2>3. Cardinality(f.seen) = k
      BY <2>2, FS_Interval
    <2>4. e.id = k + 1 /\ e.id \notin f.seen /\ f.seen \cup {e.id} = 1 .. k + 1
      BY <1>4, <2>2, <2>3 DEF Fits
    <2> DEFINE new == [id |-> e.id, every |-> e.every, time |-> e.time]
               g == [ok |-> TRUE, seen |-> f.seen \cup {e.id}, active |-> f.active \cup {new}]
    <2>5. Reminders!Apply(f, e) = [ok |-> f.ok /\ e.id \notin f.seen, seen |-> f.seen \cup {e.id},
                         active |-> f.active \cup {new}]
      BY <1>4 DEF Reminders!Apply
    <2>6. (f.ok /\ e.id \notin f.seen) = TRUE
      BY <1>1, <2>4
    <2>7. Reminders!Apply(f, e) = g
      BY <2>5, <2>6
    <2>8. new \in Record /\ new.id = e.id
      BY <2>1 DEF Record
    <2> HIDE DEF new
    <2>9. g \in [ok : BOOLEAN, seen : SUBSET Nat, active : SUBSET Record] /\ g.ok = TRUE
          /\ g.seen = f.seen \cup {e.id} /\ g.active = f.active \cup {new}
      BY <1>2, <2>1, <2>8
    <2> HIDE DEF g
    <2>10. \E n \in Nat : g.seen = 1 .. n
      <3>1. k + 1 \in Nat /\ g.seen = 1 .. k + 1
        BY <2>4, <2>9
      <3> QED
        BY <3>1
    <2>11. \A r \in g.active : r.id \in g.seen
      BY <1>1, <2>8, <2>9
    <2>12. \A r, q \in g.active : r.id = q.id => r = q
      BY <1>1, <2>4, <2>8, <2>9
    <2> QED
      BY <2>7, <2>9, <2>10, <2>11, <2>12 DEF Folded
  <1>5. ASSUME NEW ok, NEW act, Reminders!Apply(f, e) = [f EXCEPT !.ok = ok, !.active = act],
               ok = TRUE,
               act \subseteq Record, \A r \in act : r.id \in f.seen,
               \A r, q \in act : r.id = q.id => r = q
        PROVE  Folded(Reminders!Apply(f, e)) /\ f.seen \subseteq Reminders!Apply(f, e).seen
    <2>1. Reminders!Apply(f, e) = [ok |-> TRUE, seen |-> f.seen, active |-> act]
      BY <1>2, <1>5
    <2> QED
      BY <1>1, <1>2, <1>5, <2>1 DEF Folded
  <1>6. CASE e.op = "delete"
    <2> DEFINE fine == f.ok /\ of # {}
               act == f.active \ of
    <2>1. Reminders!Apply(f, e) = [f EXCEPT !.ok = fine, !.active = act]
      BY <1>6 DEF Reminders!Apply
    <2>2. fine = TRUE
      BY <1>1, <1>6 DEF Fits
    <2>3. act \subseteq f.active
      OBVIOUS
    <2> HIDE DEF fine, act, of
    <2>4. act \subseteq Record /\ (\A r \in act : r.id \in f.seen)
          /\ \A r, q \in act : r.id = q.id => r = q
      BY <1>1, <1>2, <2>3
    <2> QED
      BY <1>5, <2>1, <2>2, <2>4
  <1>7. CASE e.op = "dispatch"
    <2> DEFINE moved == UNION {Reminders!Dispatched(r, e.time) : r \in of}
               fine == f.ok /\ of # {} /\ \A r \in of : r.every # 0 => r.time <= e.time
               act == (f.active \ of) \cup moved
    <2>1. Reminders!Apply(f, e) = [f EXCEPT !.ok = fine, !.active = act]
      BY <1>7 DEF Reminders!Apply
    <2>2. PICK r0 \in f.active : r0.id = e.id /\ (r0.every # 0 => r0.time <= e.time)
      BY <1>7 DEF Fits
    <2>3. of = {r0}
      BY <1>1, <2>2
    <2>4. fine = TRUE
      BY <1>1, <2>2, <2>3
    <2>5. ASSUME NEW d \in moved
          PROVE  d \in Record /\ d.id = e.id /\ d.time = Reminders!Occurrence(r0, e.time).next
                 /\ d.every = r0.every
      <3>1. r0 \in Record /\ d \in Reminders!Dispatched(r0, e.time)
        BY <1>2, <2>3
      <3> QED
        BY <2>2, <3>1, DispatchedIs
    <2>6. ASSUME NEW d \in moved, NEW c \in moved PROVE d = c
      <3>1. d \in Record /\ c \in Record /\ d.id = c.id /\ d.time = c.time /\ d.every = c.every
        BY <2>5
      <3> QED
        BY <3>1 DEF Record
    <2>7. \A r \in f.active \ of : r.id # e.id
      OBVIOUS
    <2>8. e.id \in f.seen
      BY <1>1, <2>2
    <2> HIDE DEF moved, fine, of
    <2>9. act \subseteq Record /\ \A r \in act : r.id \in f.seen
      BY <1>1, <1>2, <2>5, <2>8
    <2>10. \A r, q \in act : r.id = q.id => r = q
      BY <1>1, <2>5, <2>6, <2>7
    <2> HIDE DEF act
    <2> QED
      BY <1>5, <2>1, <2>4, <2>9, <2>10
  <1> QED
    BY <1>3, <1>4, <1>6, <1>7, EntryIs

---------------------------------------------------------------------------
(* Logs.                                                                   *)

\* What the first n events are folded to.
FoldedTo(l, n) == Reminders!Fold(SubSeq(l, 1, n))

Retires(r, at) ==
  [id |-> r.id, occurrence |-> IF r.every = 0 THEN r.time ELSE Reminders!Occurrence(r, at).occurrence]

\* The first n events have a reminder of it.
RemindedOf(l, n, item) == \E j \in 1 .. n : l[j].op = "remind" /\ item \in l[j].items

(* Every prefix folds, and knows the ids that it reminds of; what an event *)
(* retires was reminded of.                                                *)
PrefixIsFolded(l, n) ==
  /\ Folded(FoldedTo(l, n))
  /\ \A j \in 1 .. n : l[j].op = "remind" => \A it \in l[j].items : it.id \in FoldedTo(l, n).seen
RetiresReminded(l, n) ==
  l[n].op = "dispatch" =>
    \A r \in FoldedTo(l, n - 1).active : r.id = l[n].id => RemindedOf(l, n - 1, Retires(r, l[n].time))
IsLog(l) ==
  /\ l \in Seq(Entries)
  /\ \A n \in 0 .. Len(l) : PrefixIsFolded(l, n)
  /\ \A n \in 1 .. Len(l) : RetiresReminded(l, n)

(* A part of a log that is there in both is folded alike.                  *)
LEMMA PartIs ==
  ASSUME NEW l \in Seq(Entries), NEW n \in 0 .. Len(l)
  PROVE  /\ SubSeq(l, 1, n) \in Seq(Entries) /\ Len(SubSeq(l, 1, n)) = n
         /\ \A i \in 1 .. n : SubSeq(l, 1, n)[i] = l[i]
  <1>1. Len(l) \in Nat /\ n \in Nat /\ n <= Len(l) /\ n \in Int /\ 1 \in Int
    BY LenProperties
  <1>2. \A i \in 1 .. n : l[i] \in Entries
    BY <1>1, ElementOfSeq
  <1>3. /\ SubSeq(l, 1, n) \in Seq(Entries)
        /\ Len(SubSeq(l, 1, n)) = IF 1 <= n THEN n - 1 + 1 ELSE 0
        /\ \A i \in 1 .. n - 1 + 1 : SubSeq(l, 1, n)[i] = l[1 + i - 1]
    BY <1>1, <1>2, SubSeqProperties
  <1>4. Len(SubSeq(l, 1, n)) = n
    BY <1>1, <1>3
  <1>5. ASSUME NEW i \in 1 .. n PROVE SubSeq(l, 1, n)[i] = l[i]
    <2>1. i \in 1 .. n - 1 + 1 /\ 1 + i - 1 = i
      BY <1>1
    <2> QED
      BY <1>3, <2>1
  <1> QED
    BY <1>3, <1>4, <1>5

(* The fold of a prefix that both logs have.                               *)
LEMMA StateKept ==
  ASSUME NEW l \in Seq(Entries), NEW u \in Seq(Entries), NEW n \in 0 .. Len(l),
         n <= Len(u), \A i \in 1 .. n : u[i] = l[i]
  PROVE  FoldedTo(u, n) = FoldedTo(l, n)
  <1>1. Len(l) \in Nat /\ Len(u) \in Nat /\ n \in 0 .. Len(u)
    BY LenProperties
  <1>2. /\ SubSeq(l, 1, n) \in Seq(Entries) /\ Len(SubSeq(l, 1, n)) = n
        /\ \A i \in 1 .. n : SubSeq(l, 1, n)[i] = l[i]
    BY PartIs
  <1>3. /\ SubSeq(u, 1, n) \in Seq(Entries) /\ Len(SubSeq(u, 1, n)) = n
        /\ \A i \in 1 .. n : SubSeq(u, 1, n)[i] = u[i]
    BY <1>1, PartIs
  <1>4. SubSeq(u, 1, n) = SubSeq(l, 1, n)
    BY <1>2, <1>3, SeqEqual
  <1> QED
    BY <1>4 DEF FoldedTo

(* The fold of the whole log.                                              *)
LEMMA StateFull ==
  ASSUME NEW l \in Seq(Entries)
  PROVE  FoldedTo(l, Len(l)) = Reminders!Fold(l)
  BY SubSeqFull DEF FoldedTo

(* What one log knows of its events, another with these events knows too.  *)
LEMMA PrefixKept ==
  ASSUME NEW l \in Seq(Entries), NEW u \in Seq(Entries), NEW n \in 0 .. Len(l),
         n <= Len(u), \A i \in 1 .. n : u[i] = l[i]
  PROVE  /\ PrefixIsFolded(l, n) => PrefixIsFolded(u, n)
         /\ n # 0 /\ RetiresReminded(l, n) => RetiresReminded(u, n)
  <1>1. Len(l) \in Nat /\ Len(u) \in Nat /\ n \in Nat /\ n <= Len(l)
    BY LenProperties
  <1>2. FoldedTo(u, n) = FoldedTo(l, n)
    BY StateKept
  <1>3. PrefixIsFolded(l, n) => PrefixIsFolded(u, n)
    BY <1>2 DEF PrefixIsFolded
  <1>4. ASSUME n # 0, RetiresReminded(l, n) PROVE RetiresReminded(u, n)
    <2>1. n - 1 \in 0 .. Len(l) /\ n - 1 <= Len(u) /\ (\A i \in 1 .. n - 1 : i \in 1 .. n)
          /\ n \in 1 .. n
      BY <1>1, <1>4
    <2>2. \A i \in 1 .. n - 1 : u[i] = l[i]
      BY <2>1
    <2>3. FoldedTo(u, n - 1) = FoldedTo(l, n - 1)
      BY <2>1, <2>2, StateKept
    <2>4. u[n] = l[n]
      BY <2>1
    <2>5. \A item : RemindedOf(l, n - 1, item) => RemindedOf(u, n - 1, item)
      BY <2>2 DEF RemindedOf
    <2> QED
      BY <1>4, <2>3, <2>4, <2>5 DEF RetiresReminded
  <1> QED
    BY <1>3, <1>4

(* A beginning of a log is one.                                            *)
LEMMA LogPrefix ==
  ASSUME NEW l, IsLog(l), NEW k \in 0 .. Len(l)
  PROVE  IsLog(SubSeq(l, 1, k))
  <1> DEFINE u == SubSeq(l, 1, k)
  <1>1. l \in Seq(Entries) /\ Len(l) \in Nat /\ k \in Nat /\ k <= Len(l)
    BY LenProperties DEF IsLog
  <1>2. u \in Seq(Entries) /\ Len(u) = k /\ \A i \in 1 .. k : u[i] = l[i]
    BY <1>1, PartIs
  <1> HIDE DEF u
  <1>3. ASSUME NEW n \in 0 .. k
        PROVE  PrefixIsFolded(u, n) /\ (n # 0 => RetiresReminded(u, n))
    <2>1. n \in 0 .. Len(l) /\ n <= Len(u) /\ (\A i \in 1 .. n : i \in 1 .. k)
          /\ (n # 0 => n \in 1 .. Len(l))
      BY <1>1, <1>2
    <2>2. \A i \in 1 .. n : u[i] = l[i]
      BY <1>2, <2>1
    <2>3. PrefixIsFolded(l, n) /\ (n # 0 => RetiresReminded(l, n))
      BY <2>1 DEF IsLog
    <2> QED
      BY <1>1, <1>2, <2>1, <2>2, <2>3, PrefixKept
  <1>4. \A n \in 1 .. k : n \in 0 .. k /\ n # 0
    BY <1>1
  <1>5. IsLog(u)
    BY <1>2, <1>3, <1>4 DEF IsLog
  <1> QED
    BY <1>5 DEF u

(* The empty log is one, and a log with an event that fits.                *)
LEMMA LogEmpty == IsLog(<<>>) /\ Reminders!Fold(<<>>) = Reminders!Nothing
  <1>1. <<>> \in Seq(Entries) /\ Len(<<>>) = 0
    BY EmptySeq
  <1>2. FoldedTo(<<>>, 0) = Reminders!Nothing
    BY <1>1, FoldEmpty, StateFull
  <1>3. Folded(Reminders!Nothing)
    <2>1. Reminders!Nothing \in [ok : BOOLEAN, seen : SUBSET Nat, active : SUBSET Record]
          /\ Reminders!Nothing.ok = TRUE /\ Reminders!Nothing.seen = {}
               /\ Reminders!Nothing.active = {}
      BY DEF Reminders!Nothing
    <2>2. {} = 1 .. 0 /\ 0 \in Nat
      OBVIOUS
    <2> QED
      BY <2>1, <2>2 DEF Folded
  <1>4. ASSUME NEW n \in 0 .. 0 PROVE PrefixIsFolded(<<>>, n)
    <2>1. n = 0 /\ \A j \in 1 .. 0 : FALSE
      OBVIOUS
    <2> QED
      BY <1>2, <1>3, <2>1 DEF PrefixIsFolded
  <1>5. \A n \in 1 .. 0 : FALSE
    OBVIOUS
  <1> QED
    BY <1>1, <1>4, <1>5, FoldEmpty DEF IsLog

(* An entry that fits keeps the log sound.                                 *)
LEMMA LogAppend ==
  ASSUME RemindersAreMeant, NEW l, IsLog(l), NEW e \in Entries, Fits(Reminders!Fold(l), e),
         e.op = "dispatch" =>
           \A r \in Reminders!Fold(l).active : r.id = e.id => RemindedOf(l, Len(l), Retires(r, e.time))
  PROVE  /\ IsLog(Append(l, e)) /\ Reminders!Fold(Append(l, e)) = Reminders!Apply(Reminders!Fold(l), e)
         /\ Reminders!Fold(l).seen \subseteq Reminders!Fold(Append(l, e)).seen
         /\ Folded(Reminders!Fold(l)) /\ Folded(Reminders!Fold(Append(l, e)))
  <1> DEFINE u == Append(l, e)
             k == Len(l)
  <1>1. l \in Seq(Entries) /\ k \in Nat
    BY LenProperties DEF IsLog
  <1>2. /\ u \in Seq(Entries) /\ Len(u) = k + 1 /\ u[k + 1] = e
        /\ \A i \in 1 .. k : u[i] = l[i]
    BY <1>1, AppendProperties
  <1>3. Reminders!Fold(u) = Reminders!Apply(Reminders!Fold(l), e)
    BY <1>1, FoldAppend
  <1>4. FoldedTo(l, k) = Reminders!Fold(l) /\ FoldedTo(u, k + 1) = Reminders!Fold(u)
    BY <1>1, <1>2, StateFull
  <1>5. PrefixIsFolded(l, k)
    <2>1. k \in 0 .. k
      BY <1>1
    <2> QED
      BY <2>1 DEF IsLog
  <1>6. Folded(Reminders!Fold(l))
    BY <1>4, <1>5 DEF PrefixIsFolded
  <1>7. Folded(Reminders!Fold(u)) /\ Reminders!Fold(l).seen \subseteq Reminders!Fold(u).seen
    BY <1>3, <1>6, ApplyIsFolded
  <1> HIDE DEF u, k
  <1>8. ASSUME NEW n \in 0 .. k
        PROVE  PrefixIsFolded(u, n) /\ (n # 0 => RetiresReminded(u, n))
    <2>1. n <= k + 1 /\ n <= Len(u) /\ (\A i \in 1 .. n : i \in 1 .. k) /\ (n # 0 => n \in 1 .. k)
      BY <1>1, <1>2
    <2>2. \A i \in 1 .. n : u[i] = l[i]
      BY <1>2, <2>1
    <2>3. n \in 0 .. Len(l) /\ PrefixIsFolded(l, n) /\ (n # 0 => RetiresReminded(l, n))
      BY <2>1 DEF IsLog, k
    <2> QED
      BY <1>1, <1>2, <2>1, <2>2, <2>3, PrefixKept
  <1>9. PrefixIsFolded(u, k + 1)
    <2>1. ASSUME NEW j \in 1 .. k + 1, u[j].op = "remind", NEW it \in u[j].items
          PROVE  it.id \in Reminders!Fold(u).seen
      <3>1. CASE j = k + 1
        <4>1. it.id \in Reminders!Fold(l).seen
          BY <1>2, <2>1, <3>1 DEF Fits
        <4> QED
          BY <1>7, <4>1
      <3>2. CASE j # k + 1
        <4>1. j \in 1 .. k
          BY <1>1, <3>2
        <4>2. it.id \in Reminders!Fold(l).seen
          BY <1>2, <1>4, <1>5, <2>1, <4>1 DEF PrefixIsFolded
        <4> QED
          BY <1>7, <4>2
      <3> QED
        BY <3>1, <3>2
    <2> QED
      BY <1>4, <1>7, <2>1 DEF PrefixIsFolded
  <1>10. RetiresReminded(u, k + 1)
    <2>1. k + 1 - 1 = k /\ k \in 0 .. Len(l) /\ k <= Len(u) /\ \A i \in 1 .. k : u[i] = l[i]
      BY <1>1, <1>2 DEF k
    <2>2. FoldedTo(u, k) = Reminders!Fold(l)
      BY <1>1, <1>2, <1>4, <2>1, StateKept
    <2>3. \A item : RemindedOf(l, k, item) => RemindedOf(u, k, item)
      BY <1>2 DEF RemindedOf
    <2> QED
      BY <1>2, <2>1, <2>2, <2>3 DEF RetiresReminded, k
  <1>11. \A n \in 0 .. k + 1 : n = k + 1 \/ n \in 0 .. k
    BY <1>1
  <1>12. \A n \in 1 .. k + 1 : n = k + 1 \/ (n \in 0 .. k /\ n # 0)
    BY <1>1
  <1>13. IsLog(u)
    BY <1>2, <1>8, <1>9, <1>10, <1>11, <1>12 DEF IsLog
  <1> QED
    BY <1>3, <1>6, <1>7, <1>13 DEF u

(* What the run checks of a log.                                           *)
LEMMA LogIsSound ==
  ASSUME IsLog(log)
  PROVE  Reminders!FoldsClean /\ Reminders!RemindedFirst /\ Folded(Reminders!Fold(log))
  <1>1. log \in Seq(Entries) /\ Len(log) \in Nat /\ DOMAIN log = 1 .. Len(log)
    BY LenProperties DEF IsLog
  <1>2. Folded(Reminders!Fold(log))
    <2>1. Len(log) \in 0 .. Len(log)
      BY <1>1
    <2> QED
      BY <1>1, <2>1, StateFull DEF IsLog, PrefixIsFolded
  <1>3. Reminders!FoldsClean
    BY <1>2 DEF Reminders!FoldsClean, Folded
  <1>4. Reminders!RemindedFirst
    <2>1. ASSUME NEW i \in DOMAIN log, log[i].op = "dispatch",
                 NEW r \in FoldedTo(log, i - 1).active, r.id = log[i].id
          PROVE  RemindedOf(log, i - 1, Retires(r, log[i].time))
      BY <1>1, <2>1 DEF IsLog, RetiresReminded
    <2> QED
      BY <2>1 DEF Reminders!RemindedFirst, FoldedTo, RemindedOf, Retires
  <1> QED
    BY <1>2, <1>3, <1>4

---------------------------------------------------------------------------
(* What is due, and what an admission appends for it.                      *)

(* A due record has an occurrence, no later than what comes next.          *)
LEMMA OccurrenceIs ==
  ASSUME NEW r \in Record, NEW at \in Nat, r.time <= at, r.every # 0
  PROVE  /\ Reminders!Occurrence(r, at).occurrence \in Nat
              /\ r.time <= Reminders!Occurrence(r, at).occurrence
         /\ Reminders!Occurrence(r, at).next \in Nat
         /\ Reminders!Occurrence(r, at).occurrence < Reminders!Occurrence(r, at).next
  <1>1. r.time \in Nat /\ r.every \in Nat /\ r.every > 0
    BY DEF Record
  <1>2. at - r.time \in Nat
    BY <1>1
  <1> DEFINE q == (at - r.time) \div r.every
  <1>3. q \in Nat
    BY <1>1, <1>2, Z3
  <1>4. /\ Reminders!Occurrence(r, at).occurrence = r.time + q * r.every
        /\ Reminders!Occurrence(r, at).next = r.time + q * r.every + r.every
    BY DEF Reminders!Occurrence
  <1> HIDE DEF q
  <1>5. q * r.every \in Nat
    BY <1>1, <1>3
  <1> QED
    BY <1>1, <1>4, <1>5

(* Finitely many are active: each has an id of its own.                    *)
LEMMA ActiveIsFinite ==
  ASSUME NEW f, Folded(f)
  PROVE  IsFiniteSet(f.active)
  <1>1. PICK k \in Nat : f.seen = 1 .. k
    BY DEF Folded
  <1>2. IsFiniteSet(f.seen)
    BY <1>1, FS_Interval
  <1> DEFINE g == [r \in f.active |-> r.id]
  <1>3. g \in [f.active -> f.seen]
    BY DEF Folded
  <1>4. \A r, q \in f.active : g[r] = g[q] => r = q
    BY DEF Folded
  <1>5. g \in Injection(f.active, f.seen)
    BY <1>3, <1>4 DEF Injection, IsInjective
  <1> QED
    BY <1>2, <1>5, FS_Injection DEF ExistsInjection

(* An admission: what is due is selected, reminded of in one message, and  *)
(* dispatched one by one.                                                  *)
LEMMA SelectedIs ==
  ASSUME Folded(Reminders!Fold(log)), now \in Nat
  PROVE  /\ Reminders!Selected \subseteq Reminders!Active /\ Reminders!Active \subseteq Record
         /\ \A r \in Reminders!Selected : r.time <= now
         /\ IsFiniteSet(Reminders!Selected) /\ Cardinality(Reminders!Selected) \in Nat
  <1>1. Reminders!Selected \subseteq Reminders!Due /\ Reminders!Due \subseteq Reminders!Active
    BY DEF Reminders!Selected, Reminders!Due
  <1>2. \A r \in Reminders!Due : r.time <= now
    BY DEF Reminders!Due
  <1>3. IsFiniteSet(Reminders!Active) /\ Reminders!Active \subseteq Record
    BY ActiveIsFinite DEF Reminders!Active, Folded
  <1>4. IsFiniteSet(Reminders!Selected)
    BY <1>1, <1>3, FS_Subset
  <1> QED
    BY <1>1, <1>2, <1>3, <1>4, FS_CardinalityType

(* What an admission is made of.                                           *)
LEMMA AdmissionIs ==
  ASSUME Folded(Reminders!Fold(log)), now \in Nat,
         NEW all \in Reminders!Admissions(Reminders!Selected)
  PROVE  \E s : LET n == Cardinality(Reminders!Selected) IN
           /\ n \in Nat /\ s \in [1 .. n -> Reminders!Selected]
                /\ {s[i] : i \in 1 .. n} = Reminders!Selected
           /\ \A i, j \in 1 .. n : s[i].id = s[j].id => i = j
           /\ all \in Seq(Entries) /\ Len(all) = n + 1 /\ all[1] = Reminders!Remind(Reminders!Selected)
           /\ \A i \in 1 .. n : all[i + 1] = Reminders!Dispatch(s[i])
  <1> DEFINE n == Cardinality(Reminders!Selected)
  <1>1. /\ Reminders!Selected \subseteq Reminders!Active /\ Reminders!Active \subseteq Record
        /\ \A r \in Reminders!Selected : r.time <= now
        /\ n \in Nat
    BY SelectedIs
  <1>2. PICK s \in Reminders!InOrder(Reminders!Selected) :
          all = <<Reminders!Remind(Reminders!Selected)>> \o [i \in DOMAIN s |-> Reminders!Dispatch(s[i])]
    BY DEF Reminders!Admissions
  <1>3. /\ s \in [1 .. n -> Reminders!Selected] /\ {s[i] : i \in DOMAIN s} = Reminders!Selected
        /\ \A i, j \in DOMAIN s : i < j => Reminders!Before(s[i], s[j])
    BY <1>2, CountIs DEF Reminders!InOrder
  <1>4. DOMAIN s = 1 .. n /\ \A i \in 1 .. n : s[i] \in Reminders!Selected
    BY <1>3
  <1> DEFINE ds == [i \in 1 .. n |-> Reminders!Dispatch(s[i])]
  <1>5. all = <<Reminders!Remind(Reminders!Selected)>> \o ds
    BY <1>2, <1>4
  <1> HIDE DEF n
  <1>6. ASSUME NEW i \in 1 .. n PROVE Reminders!Dispatch(s[i]) \in Entries
    <2>1. s[i].id \in Nat
      BY <1>1, <1>4 DEF Record
    <2>2. Reminders!Dispatch(s[i]) \in [op : {"dispatch"}, id : Nat, time : Nat]
      BY <2>1 DEF Reminders!Dispatch
    <2> QED
      BY <2>2 DEF Entries
  <1>7. Reminders!Remind(Reminders!Selected) \in Entries
    <2>1. ASSUME NEW r \in Reminders!Selected
          PROVE  [id |-> r.id, occurrence |-> IF r.every = 0 THEN r.time
                                              ELSE Reminders!Occurrence(r, now).occurrence] \in Item
      <3>1. r \in Record /\ r.id \in Nat /\ r.time \in Nat /\ r.time <= now
        BY <1>1 DEF Record
      <3>2. r.every # 0 => Reminders!Occurrence(r, now).occurrence \in Nat
        BY <3>1, OccurrenceIs
      <3> QED
        BY <3>1, <3>2 DEF Item
    <2>2. Reminders!Items(Reminders!Selected) \subseteq Item
      BY <2>1 DEF Reminders!Items
    <2>3. Reminders!Remind(Reminders!Selected) \in [op : {"remind"}, id : {0}, items : SUBSET Item]
      BY <2>2 DEF Reminders!Remind
    <2> QED
      BY <2>3 DEF Entries
  <1>8. ds \in Seq(Entries) /\ Len(ds) = n /\ \A i \in 1 .. n : ds[i] = Reminders!Dispatch(s[i])
    <2>1. ds \in [1 .. n -> Entries]
      BY <1>6
    <2> QED
      BY <1>1, <2>1, SeqDef, LenProperties
  <1>9. <<Reminders!Remind(Reminders!Selected)>> \in Seq(Entries)
          /\ Len(<<Reminders!Remind(Reminders!Selected)>>) = 1
        /\ <<Reminders!Remind(Reminders!Selected)>>[1] = Reminders!Remind(Reminders!Selected)
    BY <1>7
  <1> DEFINE rs == <<Reminders!Remind(Reminders!Selected)>>
  <1> HIDE DEF ds, rs
  <1>10. /\ rs \o ds \in Seq(Entries) /\ Len(rs \o ds) = 1 + n
         /\ \A i \in 1 .. 1 + n : (rs \o ds)[i] = IF i <= 1 THEN rs[i] ELSE ds[i - 1]
    BY <1>8, <1>9, ConcatProperties DEF rs
  <1>11. all \in Seq(Entries) /\ Len(all) = n + 1 /\ all[1] = Reminders!Remind(Reminders!Selected)
    BY <1>1, <1>5, <1>9, <1>10 DEF rs
  <1>12. ASSUME NEW i \in 1 .. n PROVE all[i + 1] = Reminders!Dispatch(s[i])
    <2>1. i + 1 \in 1 .. 1 + n /\ ~(i + 1 <= 1) /\ i + 1 - 1 = i
      BY <1>1
    <2> QED
      BY <1>5, <1>8, <1>10, <2>1 DEF rs
  <1>13. ASSUME NEW i \in 1 .. n, NEW j \in 1 .. n, s[i].id = s[j].id PROVE i = j
    <2>1. s[i] = s[j] /\ s[i] \in Record
      BY <1>1, <1>4, <1>13 DEF Folded, Reminders!Active
    <2>2. ~Reminders!Before(s[i], s[i])
      BY <2>1 DEF Reminders!Before, Record
    <2>3. ~(i < j) /\ ~(j < i)
      BY <1>3, <1>4, <2>1, <2>2
    <2> QED
      BY <1>1, <2>3
  <1> QED
    BY <1>1, <1>3, <1>4, <1>11, <1>12, <1>13 DEF n

(* A log grows event by event.                                             *)
LEMMA PartGrows ==
  ASSUME NEW S, NEW l \in Seq(S), NEW a \in Seq(S), NEW k \in 0 .. Len(a)
  PROVE  /\ l \o SubSeq(a, 1, 0) = l /\ l \o SubSeq(a, 1, Len(a)) = l \o a
         /\ l \o SubSeq(a, 1, k) \in Seq(S) /\ Len(l \o SubSeq(a, 1, k)) = Len(l) + k
         /\ \A i \in 1 .. Len(l) : (l \o SubSeq(a, 1, k))[i] = l[i]
         /\ \A i \in 1 .. k : (l \o SubSeq(a, 1, k))[Len(l) + i] = a[i]
         /\ k # 0 => l \o SubSeq(a, 1, k) = Append(l \o SubSeq(a, 1, k - 1), a[k])
  <1>1. Len(l) \in Nat /\ Len(a) \in Nat /\ 0 \in 0 .. Len(a) /\ k \in Nat
    BY LenProperties
  <1>2. ASSUME NEW m \in 0 .. Len(a)
        PROVE  SubSeq(a, 1, m) \in Seq(S) /\ Len(SubSeq(a, 1, m)) = m
               /\ \A i \in 1 .. m : SubSeq(a, 1, m)[i] = a[i]
    <2>1. m \in Nat /\ m <= Len(a) /\ m \in Int /\ 1 \in Int
      BY <1>1
    <2>2. \A i \in 1 .. m : a[i] \in S
      BY <2>1, ElementOfSeq
    <2>3. /\ SubSeq(a, 1, m) \in Seq(S)
          /\ Len(SubSeq(a, 1, m)) = IF 1 <= m THEN m - 1 + 1 ELSE 0
          /\ \A i \in 1 .. m - 1 + 1 : SubSeq(a, 1, m)[i] = a[1 + i - 1]
      BY <2>1, <2>2, SubSeqProperties
    <2>4. Len(SubSeq(a, 1, m)) = m
      BY <2>1, <2>3
    <2>5. ASSUME NEW i \in 1 .. m PROVE SubSeq(a, 1, m)[i] = a[i]
      <3>1. i \in 1 .. m - 1 + 1 /\ 1 + i - 1 = i
        BY <2>1
      <3> QED
        BY <2>3, <3>1
    <2> QED
      BY <2>3, <2>4, <2>5
  <1> DEFINE v(m) == l \o SubSeq(a, 1, m)
  <1>3. ASSUME NEW m \in 0 .. Len(a)
        PROVE  /\ v(m) \in Seq(S) /\ Len(v(m)) = Len(l) + m
               /\ \A i \in 1 .. Len(l) : v(m)[i] = l[i]
               /\ \A i \in 1 .. m : v(m)[Len(l) + i] = a[i]
    <2> DEFINE b == SubSeq(a, 1, m)
    <2>1. b \in Seq(S) /\ Len(b) = m /\ m \in Nat /\ \A i \in 1 .. m : b[i] = a[i]
      BY <1>1, <1>2
    <2> HIDE DEF b
    <2>2. /\ l \o b \in Seq(S) /\ Len(l \o b) = Len(l) + m
          /\ \A i \in 1 .. Len(l) + m : (l \o b)[i] = IF i <= Len(l) THEN l[i] ELSE b[i - Len(l)]
      BY <2>1, ConcatProperties
    <2>3. \A i \in 1 .. Len(l) : i \in 1 .. Len(l) + m /\ i <= Len(l)
      BY <1>1, <2>1
    <2>4. \A i \in 1 .. m : Len(l) + i \in 1 .. Len(l) + m /\ ~(Len(l) + i <= Len(l))
                            /\ Len(l) + i - Len(l) = i
      BY <1>1, <2>1
    <2> QED
      BY <2>1, <2>2, <2>3, <2>4 DEF b
  <1>4. SubSeq(a, 1, 0) = <<>> /\ l \o <<>> = l
    BY <1>1, <1>2, ConcatEmptySeq, EmptySeq
  <1>5. SubSeq(a, 1, Len(a)) = a
    BY SubSeqFull
  <1>6. ASSUME k # 0 PROVE v(k) = Append(v(k - 1), a[k])
    <2>1. k - 1 \in 0 .. Len(a) /\ k \in 1 .. Len(a) /\ k \in 1 .. k
      BY <1>1, <1>6
    <2>2. a[k] \in S
      BY <2>1, ElementOfSeq
    <2> DEFINE w == v(k - 1)
               u == v(k)
    <2>3. /\ w \in Seq(S) /\ Len(w) = Len(l) + (k - 1)
          /\ \A i \in 1 .. Len(l) : w[i] = l[i]
          /\ \A i \in 1 .. k - 1 : w[Len(l) + i] = a[i]
      BY <1>3, <2>1
    <2>4. /\ u \in Seq(S) /\ Len(u) = Len(l) + k
          /\ \A i \in 1 .. Len(l) : u[i] = l[i]
          /\ \A i \in 1 .. k : u[Len(l) + i] = a[i]
      BY <1>3
    <2> HIDE DEF w, u, v
    <2>5. /\ Append(w, a[k]) \in Seq(S) /\ Len(Append(w, a[k])) = Len(w) + 1
          /\ Append(w, a[k])[Len(w) + 1] = a[k]
          /\ \A i \in 1 .. Len(w) : Append(w, a[k])[i] = w[i]
      BY <2>2, <2>3, AppendProperties
    <2>6. ASSUME NEW i \in 1 .. Len(u) PROVE u[i] = Append(w, a[k])[i]
      <3>1. i \in 1 .. Len(l) + k
        BY <2>4
      <3>2. CASE i <= Len(l)
        <4>1. i \in 1 .. Len(l) /\ i \in 1 .. Len(w)
          BY <1>1, <2>1, <2>3, <3>1, <3>2
        <4> QED
          BY <2>3, <2>4, <2>5, <4>1
      <3>3. CASE i = Len(l) + k
        <4>1. i = Len(w) + 1 /\ u[i] = a[k]
          BY <1>1, <2>1, <2>3, <2>4, <3>3
        <4> QED
          BY <2>5, <4>1
      <3>4. CASE ~(i <= Len(l)) /\ i # Len(l) + k
        <4> DEFINE j == i - Len(l)
        <4>1. j \in 1 .. k - 1 /\ j \in 1 .. k /\ i = Len(l) + j /\ i \in 1 .. Len(w)
          BY <1>1, <2>3, <3>1, <3>4
        <4> HIDE DEF j
        <4>2. u[i] = a[j] /\ w[i] = a[j]
          BY <2>3, <2>4, <4>1
        <4> QED
          BY <2>5, <4>1, <4>2
      <3> QED
        BY <3>2, <3>3, <3>4
    <2>7. Len(u) = Len(Append(w, a[k]))
      BY <1>1, <2>3, <2>4, <2>5
    <2>8. u = Append(w, a[k])
      BY <2>4, <2>5, <2>6, <2>7, SeqEqual
    <2> QED
      BY <2>8 DEF u, w
  <1> QED
    BY <1>3, <1>4, <1>5, <1>6

(* An admission of s, as far as its first k dispatches, is in v.           *)
Partly(s, n, k, v) ==
  /\ IsLog(v) /\ Reminders!Fold(v).seen = Reminders!Fold(log).seen
  /\ \A j \in k + 1 .. n : s[j] \in Reminders!Fold(v).active
  /\ \A q \in Reminders!Fold(v).active :
       \/ q \in Reminders!Active /\ \A j \in 1 .. k : q.id # s[j].id
       \/ \E j \in 1 .. k : q \in Reminders!Dispatched(s[j], now)

(* What a dispatch does to a fold that has its record.                     *)
LEMMA DispatchApplies ==
  ASSUME NEW f, Folded(f), NEW r \in f.active, r.time <= now, now \in Nat
  PROVE  /\ Fits(f, Reminders!Dispatch(r)) /\ Reminders!Apply(f, Reminders!Dispatch(r)).seen = f.seen
         /\ Reminders!Apply(f, Reminders!Dispatch(r)).active = {q \in f.active : q.id # r.id}
              \cup Reminders!Dispatched(r, now)
         /\ Retires(r, Reminders!Dispatch(r).time) = Retires(r, now)
  <1> DEFINE e == Reminders!Dispatch(r)
             of == {q \in f.active : q.id = e.id}
  <1>1. e.op = "dispatch" /\ e.id = r.id /\ e.time = IF r.every = 0 THEN 0 ELSE now
    BY DEF Reminders!Dispatch
  <1>2. /\ f \in [ok : BOOLEAN, seen : SUBSET Nat, active : SUBSET Record]
        /\ \A p, q \in f.active : p.id = q.id => p = q
    BY DEF Folded
  <1> HIDE DEF e
  <1>3. Fits(f, e)
    BY <1>1 DEF Fits
  <1>4. of = {r}
    BY <1>1, <1>2
  <1>5. Reminders!Dispatched(r, e.time) = Reminders!Dispatched(r, now)
    BY <1>1 DEF Reminders!Dispatched
  <1>6. UNION {Reminders!Dispatched(q, e.time) : q \in of} = Reminders!Dispatched(r, now)
    BY <1>4, <1>5
  <1>7. f.active \ of = {q \in f.active : q.id # r.id}
    BY <1>1
  <1> DEFINE fine == f.ok /\ of # {} /\ \A q \in of : q.every # 0 => q.time <= e.time
             act == (f.active \ of) \cup UNION {Reminders!Dispatched(q, e.time) : q \in of}
  <1>8. Reminders!Apply(f, e) = [f EXCEPT !.ok = fine, !.active = act]
    BY <1>1 DEF Reminders!Apply
  <1> HIDE DEF fine
  <1>9. Reminders!Apply(f, e).seen = f.seen /\ Reminders!Apply(f, e).active = act
    <2> HIDE DEF act
    <2> QED
      BY <1>2, <1>8
  <1>10. Retires(r, e.time) = Retires(r, now)
    BY <1>1 DEF Retires
  <1> QED
    BY <1>3, <1>6, <1>7, <1>9, <1>10 DEF e

(* However far an admission gets, the log stays one.                       *)
LEMMA AdmissionAppends ==
  ASSUME RemindersAreMeant, IsLog(log), now \in Nat,
         NEW all \in Reminders!Admissions(Reminders!Selected),
         NEW k \in 1 .. Len(all)
  PROVE  /\ IsLog(log \o SubSeq(all, 1, k))
         /\ Reminders!Fold(log \o SubSeq(all, 1, k)).seen = Reminders!Fold(log).seen
         /\ k = Len(all) =>
              \A q \in Reminders!Fold(log \o all).active :
                \/ q \in Reminders!Active /\ \A r \in Reminders!Selected : q.id # r.id
                \/ \E r \in Reminders!Selected : q \in Reminders!Dispatched(r, now)
  <1> DEFINE n == Cardinality(Reminders!Selected)
             v(m) == log \o SubSeq(all, 1, m)
  <1>1. log \in Seq(Entries) /\ Len(log) \in Nat
    BY LenProperties DEF IsLog
  <1>2. Folded(Reminders!Fold(log))
    BY LogIsSound
  <1>3. /\ Reminders!Selected \subseteq Reminders!Active /\ Reminders!Active \subseteq Record
        /\ \A r \in Reminders!Selected : r.time <= now
    BY <1>2, SelectedIs
  <1>4. PICK s :
           /\ n \in Nat /\ s \in [1 .. n -> Reminders!Selected]
                /\ {s[i] : i \in 1 .. n} = Reminders!Selected
           /\ \A i, j \in 1 .. n : s[i].id = s[j].id => i = j
           /\ all \in Seq(Entries) /\ Len(all) = n + 1 /\ all[1] = Reminders!Remind(Reminders!Selected)
           /\ \A i \in 1 .. n : all[i + 1] = Reminders!Dispatch(s[i])
    BY <1>2, AdmissionIs
  <1>5. n \in Nat /\ \A i \in 1 .. n : s[i] \in Reminders!Selected
    BY <1>4
  <1>6. v(0) = log
    <2>1. 0 \in 0 .. Len(all)
      BY <1>4
    <2> QED
      BY <1>1, <1>4, <2>1, PartGrows, SMTT(30)
  <1> HIDE DEF n
  <1>7. ASSUME NEW m \in 1 .. n + 1
        PROVE  /\ v(m) = Append(v(m - 1), all[m]) /\ v(m) \in Seq(Entries)
               /\ Len(v(m)) = Len(log) + m
               /\ \A i \in 1 .. m : v(m)[Len(log) + i] = all[i]
    <2>1. m \in 0 .. Len(all) /\ m # 0
      BY <1>4, <1>5
    <2>2. log \in Seq(Entries) /\ all \in Seq(Entries)
      BY <1>1, <1>4
    <2>3. /\ log \o SubSeq(all, 1, m) \in Seq(Entries)
          /\ Len(log \o SubSeq(all, 1, m)) = Len(log) + m
          /\ \A i \in 1 .. m : (log \o SubSeq(all, 1, m))[Len(log) + i] = all[i]
      BY <2>1, <2>2, PartGrows, SMTT(30)
    <2>4. log \o SubSeq(all, 1, m) = Append(log \o SubSeq(all, 1, m - 1), all[m])
      BY <2>1, <2>2, PartGrows, SMTT(30)
    <2> QED
      BY <2>3, <2>4
  <1>8. /\ Reminders!Remind(Reminders!Selected) \in Entries
             /\ Fits(Reminders!Fold(log), Reminders!Remind(Reminders!Selected))
        /\ Reminders!Remind(Reminders!Selected).op = "remind"
        /\ \A r \in Reminders!Selected : Retires(r, now) \in Reminders!Remind(Reminders!Selected).items
    <2>1. 1 \in 1 .. Len(all)
      BY <1>4, <1>5
    <2>2. Reminders!Remind(Reminders!Selected) \in Entries
      BY <1>4, <2>1, ElementOfSeq
    <2>3. Reminders!Remind(Reminders!Selected).op = "remind"
            /\ Reminders!Remind(Reminders!Selected).items = Reminders!Items(Reminders!Selected)
      BY DEF Reminders!Remind
    <2>4. \A it \in Reminders!Items(Reminders!Selected) : \E r \in Reminders!Selected : it.id = r.id
      BY DEF Reminders!Items
    <2>5. \A r \in Reminders!Selected : r.id \in Reminders!Fold(log).seen
      BY <1>2, <1>3 DEF Folded, Reminders!Active
    <2>6. \A r \in Reminders!Selected : Retires(r, now) \in Reminders!Items(Reminders!Selected)
      BY DEF Reminders!Items, Retires
    <2> QED
      BY <2>2, <2>3, <2>4, <2>5, <2>6 DEF Fits
  <1>9. Partly(s, n, 0, v(1))
    <2>1. 1 \in 1 .. n + 1 /\ 1 - 1 = 0
      BY <1>5
    <2>2. v(1) = Append(log, Reminders!Remind(Reminders!Selected))
      BY <1>4, <1>6, <1>7, <2>1
    <2>3. IsLog(v(1)) /\ Reminders!Fold(v(1)) = Reminders!Apply(Reminders!Fold(log),
            Reminders!Remind(Reminders!Selected))
      BY <1>8, <2>2, LogAppend
    <2>4. Reminders!Fold(v(1)) = Reminders!Fold(log)
      BY <1>8, <2>3 DEF Reminders!Apply
    <2>5. \A j \in 0 + 1 .. n : s[j] \in Reminders!Fold(v(1)).active
      BY <1>3, <1>5, <2>4 DEF Reminders!Active
    <2>6. \A q \in Reminders!Fold(v(1)).active : q \in Reminders!Active
            /\ \A j \in 1 .. 0 : q.id # s[j].id
      BY <2>4 DEF Reminders!Active
    <2> HIDE DEF v
    <2> QED
      BY <2>3, <2>4, <2>5, <2>6 DEF Partly
  <1> HIDE DEF v
  <1>10. ASSUME NEW m \in Nat, m < n, Partly(s, n, m, v(m + 1))
         PROVE  Partly(s, n, m + 1, v(m + 2))
    <2> DEFINE w == v(m + 1)
               u == v(m + 2)
               r == s[m + 1]
    <2>1. m + 1 \in 1 .. n /\ m + 2 \in 1 .. n + 1 /\ m + 1 \in 1 .. n + 1 /\ m + 2 - 1 = m + 1
          /\ m + 1 \in m + 1 .. n /\ m + 1 + 1 = m + 2 /\ 1 \in 1 .. m + 1
      BY <1>5, <1>10
    <2>2. u = Append(w, Reminders!Dispatch(r)) /\ Reminders!Dispatch(r) \in Entries
      <3>1. u = Append(v(m + 2 - 1), all[m + 2])
        BY <1>7, <2>1 DEF u
      <3>2. u = Append(w, all[m + 2])
        BY <2>1, <3>1 DEF w
      <3>3. all[m + 1 + 1] = Reminders!Dispatch(r)
        BY <1>4, <2>1 DEF r
      <3>4. all[m + 2] = Reminders!Dispatch(r)
        BY <2>1, <3>3
      <3>5. m + 2 \in 1 .. Len(all)
        BY <1>4, <2>1
      <3>6. all[m + 2] \in Entries
        BY <1>4, <3>5, ElementOfSeq
      <3> QED
        BY <3>2, <3>4, <3>6
    <2>3. w \in Seq(Entries) /\ Len(w) = Len(log) + (m + 1) /\ w[Len(log) + 1] = all[1]
      BY <1>7, <2>1
    <2>4. IsLog(w) /\ Reminders!Fold(w).seen = Reminders!Fold(log).seen
            /\ r \in Reminders!Fold(w).active
          /\ (\A j \in m + 1 .. n : s[j] \in Reminders!Fold(w).active)
          /\ \A q \in Reminders!Fold(w).active :
               \/ q \in Reminders!Active /\ \A j \in 1 .. m : q.id # s[j].id
               \/ \E j \in 1 .. m : q \in Reminders!Dispatched(s[j], now)
      BY <1>10, <2>1 DEF Partly
    <2>5. r \in Reminders!Selected /\ r.time <= now
      BY <1>3, <1>5, <2>1
    <2> HIDE DEF w, u, r
    <2>6. Folded(Reminders!Fold(w))
      <3>1. Len(w) \in Nat /\ Len(w) \in 0 .. Len(w)
        BY <2>3, LenProperties
      <3> QED
        BY <2>3, <2>4, <3>1, StateFull DEF IsLog, PrefixIsFolded
    <2>7. /\ Fits(Reminders!Fold(w), Reminders!Dispatch(r))
               /\ Reminders!Apply(Reminders!Fold(w),
                    Reminders!Dispatch(r)).seen = Reminders!Fold(w).seen
          /\ Reminders!Apply(Reminders!Fold(w), Reminders!Dispatch(r)).active =
               {q \in Reminders!Fold(w).active : q.id # r.id} \cup Reminders!Dispatched(r, now)
          /\ Retires(r, Reminders!Dispatch(r).time) = Retires(r, now)
      BY <2>4, <2>5, <2>6, DispatchApplies
    <2>8. ASSUME NEW q \in Reminders!Fold(w).active, q.id = Reminders!Dispatch(r).id
          PROVE  RemindedOf(w, Len(w), Retires(q, Reminders!Dispatch(r).time))
      <3>1. Reminders!Dispatch(r).id = r.id
        BY DEF Reminders!Dispatch
      <3>2. q = r
        BY <2>4, <2>6, <2>8, <3>1 DEF Folded
      <3>3. Len(log) + 1 \in 1 .. Len(w)
        BY <1>1, <2>3
      <3>4. w[Len(log) + 1].op = "remind" /\ Retires(r, now) \in w[Len(log) + 1].items
        BY <1>4, <1>8, <2>3, <2>5
      <3> QED
        BY <2>7, <3>2, <3>3, <3>4 DEF RemindedOf
    <2>9. IsLog(u) /\ Reminders!Fold(u) = Reminders!Apply(Reminders!Fold(w), Reminders!Dispatch(r))
      BY <2>2, <2>4, <2>7, <2>8, LogAppend
    <2>10. Reminders!Fold(u).seen = Reminders!Fold(log).seen
           /\ Reminders!Fold(u).active = {q \in Reminders!Fold(w).active : q.id # r.id}
                \cup Reminders!Dispatched(r, now)
      BY <2>4, <2>7, <2>9
    <2>11. ASSUME NEW j \in m + 1 + 1 .. n PROVE s[j] \in Reminders!Fold(u).active
      <3>1. j \in m + 1 .. n /\ j \in 1 .. n /\ j # m + 1
        BY <1>5, <2>1
      <3>2. s[j].id # r.id
        BY <1>4, <2>1, <3>1 DEF r
      <3> QED
        BY <2>4, <2>10, <3>1, <3>2
    <2>12. ASSUME NEW q \in Reminders!Fold(u).active
           PROVE  \/ q \in Reminders!Active /\ \A j \in 1 .. m + 1 : q.id # s[j].id
                  \/ \E j \in 1 .. m + 1 : q \in Reminders!Dispatched(s[j], now)
      <3>1. \A j \in 1 .. m + 1 : j = m + 1 \/ j \in 1 .. m
        OBVIOUS
      <3>2. (\A j \in 1 .. m : j \in 1 .. m + 1) /\ m + 1 \in 1 .. m + 1
        OBVIOUS
      <3>3. CASE q \in Reminders!Dispatched(r, now)
        BY <3>2, <3>3 DEF r
      <3>4. CASE q \in Reminders!Fold(w).active /\ q.id # r.id
        <4>1. CASE q \in Reminders!Active /\ \A j \in 1 .. m : q.id # s[j].id
          BY <3>1, <3>4, <4>1 DEF r
        <4>2. CASE \E j \in 1 .. m : q \in Reminders!Dispatched(s[j], now)
          BY <3>2, <4>2
        <4> QED
          BY <2>4, <3>4, <4>1, <4>2
      <3> QED
        BY <2>10, <3>3, <3>4
    <2>13. Partly(s, n, m + 1, u)
      BY <2>9, <2>10, <2>11, <2>12 DEF Partly
    <2> QED
      BY <2>13 DEF u
  <1>11. ASSUME NEW m \in 0 .. n PROVE Partly(s, n, m, v(m + 1))
    <2> DEFINE Bad == {i \in Nat : i \in 0 .. n /\ ~Partly(s, n, i, v(i + 1))}
    <2>1. ASSUME Bad # {} PROVE FALSE
      <3>1. PICK i \in Bad : \A y \in Bad : i <= y
        BY <2>1, LeastIs
      <3>2. i \in Nat /\ i \in 0 .. n /\ ~Partly(s, n, i, v(i + 1))
        BY <3>1
      <3>3. i # 0
        BY <1>9, <3>2
      <3>4. i - 1 \in Nat /\ i - 1 \in 0 .. n /\ ~(i <= i - 1) /\ i - 1 < n /\ i - 1 + 1 = i
            /\ i - 1 + 2 = i + 1
        BY <1>5, <3>2, <3>3
      <3>5. i - 1 \notin Bad
        BY <3>1, <3>4
      <3>6. Partly(s, n, i - 1, v(i - 1 + 1))
        BY <3>4, <3>5
      <3>7. Partly(s, n, i - 1 + 1, v(i - 1 + 2))
        BY <1>10, <3>4, <3>6
      <3> QED
        BY <3>2, <3>4, <3>7
    <2> QED
      BY <1>5, <2>1
  <1>12. k - 1 \in 0 .. n /\ k - 1 + 1 = k
    BY <1>4, <1>5
  <1>13. Partly(s, n, k - 1, v(k))
    BY <1>11, <1>12
  <1>14. IsLog(v(k)) /\ Reminders!Fold(v(k)).seen = Reminders!Fold(log).seen
    BY <1>13 DEF Partly
  <1>15. ASSUME k = Len(all), NEW q \in Reminders!Fold(log \o all).active
         PROVE  \/ q \in Reminders!Active /\ \A r \in Reminders!Selected : q.id # r.id
                \/ \E r \in Reminders!Selected : q \in Reminders!Dispatched(r, now)
    <2>1. k - 1 = n
      BY <1>4, <1>5, <1>15
    <2>2. v(k) = log \o all
      <3>1. k \in 0 .. Len(all)
        BY <1>4, <1>5
      <3>2. log \in Seq(Entries) /\ all \in Seq(Entries)
        BY <1>1, <1>4
      <3>3. log \o SubSeq(all, 1, Len(all)) = log \o all
        BY <3>1, <3>2, PartGrows, SMTT(30)
      <3> QED
        BY <1>15, <3>3 DEF v
    <2>3. \/ q \in Reminders!Active /\ \A j \in 1 .. n : q.id # s[j].id
          \/ \E j \in 1 .. n : q \in Reminders!Dispatched(s[j], now)
      BY <1>13, <1>15, <2>1, <2>2 DEF Partly
    <2>4. \A r \in Reminders!Selected : \E j \in 1 .. n : r = s[j]
      BY <1>4
    <2> QED
      BY <1>5, <2>3, <2>4
  <1> QED
    BY <1>14, <1>15 DEF v

---------------------------------------------------------------------------
(* How often a log reminds of an occurrence.                               *)

Reminds(l, item) == {j \in 1 .. Len(l) : l[j].op = "remind" /\ item \in l[j].items}
Count(l, item)   == Cardinality(Reminds(l, item))

(* At most as often as the agent lived, and not yet in this life of what   *)
(* an active record still has before it.                                   *)
OncePerLife(l, lives) == \A item \in Item : Count(l, item) <= lives
NotYet(l, lives) ==
  \A r \in Reminders!Fold(l).active : \A o \in Nat :
    o >= r.time => Count(l, [id |-> r.id, occurrence |-> o]) <= lives - 1

(* An item is in finitely many reminders.                                  *)
LEMMA CountIsNumber ==
  ASSUME NEW l \in Seq(Entries), NEW item
  PROVE  IsFiniteSet(Reminds(l, item)) /\ Count(l, item) \in Nat
  <1>1. Len(l) \in Nat /\ 1 \in Int
    BY LenProperties
  <1>2. IsFiniteSet(1 .. Len(l))
    BY <1>1, FS_Interval
  <1>3. IsFiniteSet(Reminds(l, item))
    BY <1>2, FS_Subset DEF Reminds
  <1> QED
    BY <1>3, FS_CardinalityType DEF Count

(* A beginning reminds no more often, and another event that is not a      *)
(* reminder of it does not either.                                         *)
LEMMA CountOfPart ==
  ASSUME NEW l \in Seq(Entries), NEW k \in 0 .. Len(l), NEW item
  PROVE  Count(SubSeq(l, 1, k), item) <= Count(l, item)
  <1>1. /\ SubSeq(l, 1, k) \in Seq(Entries) /\ Len(SubSeq(l, 1, k)) = k
        /\ \A i \in 1 .. k : SubSeq(l, 1, k)[i] = l[i]
    BY PartIs
  <1>2. \A i \in 1 .. k : i \in 1 .. Len(l)
    BY LenProperties
  <1>3. Reminds(SubSeq(l, 1, k), item) \subseteq Reminds(l, item)
    BY <1>1, <1>2 DEF Reminds
  <1> QED
    BY <1>3, CountIsNumber, FS_Subset DEF Count

(* An entry that does not remind of an item does not count.                *)
LEMMA CountOfOther ==
  ASSUME NEW l \in Seq(Entries), NEW u \in Seq(Entries), NEW item, Len(l) <= Len(u),
         \A i \in 1 .. Len(l) : u[i] = l[i],
         \A i \in 1 .. Len(u) : i > Len(l) /\ u[i].op = "remind" => item \notin u[i].items
  PROVE  Count(u, item) = Count(l, item)
  <1>1. Len(l) \in Nat /\ Len(u) \in Nat
    BY LenProperties
  <1>2. \A i \in 1 .. Len(u) : i > Len(l) \/ i \in 1 .. Len(l)
    BY <1>1
  <1>3. \A i \in 1 .. Len(l) : i \in 1 .. Len(u)
    BY <1>1
  <1>4. Reminds(u, item) = Reminds(l, item)
    BY <1>2, <1>3 DEF Reminds
  <1> QED
    BY <1>4 DEF Count

(* One reminder more counts once.                                          *)
LEMMA CountOfOne ==
  ASSUME NEW l \in Seq(Entries), NEW u \in Seq(Entries), NEW item, Len(l) < Len(u),
         \A i \in 1 .. Len(l) : u[i] = l[i],
         \A i \in 1 .. Len(u) : i > Len(l) + 1 => u[i].op # "remind"
  PROVE  Count(u, item) <= Count(l, item) + 1
  <1>1. Len(l) \in Nat /\ Len(u) \in Nat
    BY LenProperties
  <1> DEFINE S == Reminds(l, item) \cup {Len(l) + 1}
  <1>2. \A i \in 1 .. Len(u) : i > Len(l) + 1 \/ i = Len(l) + 1 \/ i \in 1 .. Len(l)
    BY <1>1
  <1>3. Reminds(u, item) \subseteq S
    BY <1>2 DEF Reminds
  <1>4. Len(l) + 1 \notin Reminds(l, item)
    BY <1>1 DEF Reminds
  <1>5. IsFiniteSet(S) /\ Cardinality(S) = Count(l, item) + 1
    BY <1>4, CountIsNumber, FS_AddElement DEF Count
  <1> HIDE DEF S
  <1>6. Cardinality(Reminds(u, item)) <= Cardinality(S)
    BY <1>3, <1>5, FS_Subset
  <1> QED
    BY <1>5, <1>6 DEF Count

(* Of an id that is not known there is no reminder.                        *)
LEMMA CountOfUnknown ==
  ASSUME NEW l, IsLog(l), NEW item, item.id \notin Reminders!Fold(l).seen
  PROVE  Count(l, item) = 0
  <1>1. l \in Seq(Entries) /\ Len(l) \in Nat /\ Len(l) \in 0 .. Len(l)
    BY LenProperties DEF IsLog
  <1>2. PrefixIsFolded(l, Len(l)) /\ FoldedTo(l, Len(l)) = Reminders!Fold(l)
    BY <1>1, StateFull DEF IsLog
  <1>3. Reminds(l, item) = {}
    BY <1>2 DEF Reminds, PrefixIsFolded
  <1> QED
    BY <1>3, FS_EmptySet DEF Count

(* An admission reminds once of what it selects, and what stays active has *)
(* nothing but later occurrences.                                          *)
LEMMA AdmissionReminds ==
  ASSUME RemindersAreMeant, IsLog(log), now \in Nat,
         NEW all \in Reminders!Admissions(Reminders!Selected),
         NEW k \in 1 .. Len(all), NEW lives \in Nat,
         OncePerLife(log, lives), NotYet(log, lives)
  PROVE  /\ OncePerLife(log \o SubSeq(all, 1, k), lives)
         /\ k = Len(all) => NotYet(log \o all, lives)
  <1> DEFINE v == log \o SubSeq(all, 1, k)
             n == Cardinality(Reminders!Selected)
  <1>1. log \in Seq(Entries) /\ Len(log) \in Nat
    BY LenProperties DEF IsLog
  <1>2. Folded(Reminders!Fold(log))
    BY LogIsSound
  <1>3. /\ Reminders!Selected \subseteq Reminders!Active /\ Reminders!Active \subseteq Record
        /\ \A r \in Reminders!Selected : r.time <= now
    BY <1>2, SelectedIs
  <1>4. PICK s :
           /\ n \in Nat /\ s \in [1 .. n -> Reminders!Selected]
                /\ {s[i] : i \in 1 .. n} = Reminders!Selected
           /\ \A i, j \in 1 .. n : s[i].id = s[j].id => i = j
           /\ all \in Seq(Entries) /\ Len(all) = n + 1 /\ all[1] = Reminders!Remind(Reminders!Selected)
           /\ \A i \in 1 .. n : all[i + 1] = Reminders!Dispatch(s[i])
    BY <1>2, AdmissionIs
  <1>5. n \in Nat /\ Len(all) = n + 1 /\ k \in Nat /\ k >= 1 /\ k <= n + 1 /\ k \in 0 .. Len(all)
    BY <1>4
  <1> HIDE DEF n
  <1>6. v \in Seq(Entries) /\ Len(v) = Len(log) + k
        /\ (\A i \in 1 .. Len(log) : v[i] = log[i])
        /\ \A i \in 1 .. k : v[Len(log) + i] = all[i]
    <2>1. all \in Seq(Entries)
      BY <1>4
    <2> QED
      BY <1>1, <1>5, <2>1, PartGrows, SMTT(30)
  <1> HIDE DEF v
  <1>7. ASSUME NEW i \in 1 .. Len(v), i > Len(log) + 1 PROVE v[i].op # "remind"
    <2> DEFINE j == i - Len(log)
    <2>1. j \in 1 .. k /\ i = Len(log) + j /\ j - 1 \in 1 .. n /\ j - 1 + 1 = j
      BY <1>1, <1>5, <1>6, <1>7
    <2> HIDE DEF j
    <2>2. v[i] = all[j] /\ all[j] = Reminders!Dispatch(s[j - 1])
      BY <1>4, <1>6, <2>1
    <2> QED
      BY <2>2 DEF Reminders!Dispatch
  <1>8. v[Len(log) + 1] = Reminders!Remind(Reminders!Selected)
    <2>1. 1 \in 1 .. k
      BY <1>5
    <2> QED
      BY <1>4, <1>6, <2>1
  <1>9. Reminders!Remind(Reminders!Selected).items = Reminders!Items(Reminders!Selected)
    BY DEF Reminders!Remind
  <1>10. ASSUME NEW item, item \notin Reminders!Items(Reminders!Selected)
         PROVE Count(v, item) = Count(log, item)
    <2>1. ASSUME NEW i \in 1 .. Len(v), i > Len(log), v[i].op = "remind"
          PROVE  item \notin v[i].items
      <3>1. i = Len(log) + 1
        BY <1>1, <1>6, <1>7, <2>1
      <3> QED
        BY <1>8, <1>9, <1>10, <3>1
    <2>2. Len(log) <= Len(v)
      BY <1>1, <1>5, <1>6
    <2> QED
      BY <1>1, <1>6, <2>1, <2>2, CountOfOther
  <1>11. ASSUME NEW item PROVE Count(v, item) <= Count(log, item) + 1
    <2>1. Len(log) < Len(v)
      BY <1>1, <1>5, <1>6
    <2> QED
      BY <1>1, <1>6, <1>7, <2>1, CountOfOne
  <1>12. ASSUME NEW r \in Reminders!Selected
         PROVE  /\ r \in Record /\ r \in Reminders!Fold(log).active /\ r.time \in Nat /\ r.time <= now
                /\ r.every # 0 =>
                     /\ Reminders!Occurrence(r, now).occurrence \in Nat
                     /\ r.time <= Reminders!Occurrence(r, now).occurrence
                     /\ Reminders!Occurrence(r, now).occurrence < Reminders!Occurrence(r, now).next
    <2>1. r \in Record /\ r \in Reminders!Fold(log).active /\ r.time \in Nat /\ r.time <= now
      BY <1>3 DEF Reminders!Active, Record
    <2> QED
      BY <2>1, OccurrenceIs
  <1>13. ASSUME NEW item \in Reminders!Items(Reminders!Selected)
         PROVE  \E r \in Reminders!Selected : \E o \in Nat :
                  /\ item = [id |-> r.id, occurrence |-> o] /\ o >= r.time
                  /\ r.every # 0 => o < Reminders!Occurrence(r, now).next
    <2>1. PICK r \in Reminders!Selected : item =
            [id |-> r.id,
             occurrence |-> IF r.every = 0 THEN r.time ELSE Reminders!Occurrence(r, now).occurrence]
      BY DEF Reminders!Items
    <2> DEFINE o == IF r.every = 0 THEN r.time ELSE Reminders!Occurrence(r, now).occurrence
    <2>2. o \in Nat /\ o >= r.time /\ (r.every # 0 => o < Reminders!Occurrence(r, now).next)
      BY <1>12
    <2>3. item = [id |-> r.id, occurrence |-> o]
      BY <2>1
    <2> HIDE DEF o
    <2> QED
      BY <2>2, <2>3
  <1>14. ASSUME NEW item \in Item PROVE Count(v, item) <= lives
    <2>1. Count(v, item) \in Nat /\ Count(log, item) \in Nat
      BY <1>1, <1>6, CountIsNumber
    <2>2. CASE item \in Reminders!Items(Reminders!Selected)
      <3>1. Count(log, item) <= lives - 1
        BY <1>12, <1>13, <2>2 DEF NotYet
      <3> QED
        BY <1>11, <2>1, <3>1
    <2>3. CASE item \notin Reminders!Items(Reminders!Selected)
      BY <1>10, <2>3 DEF OncePerLife
    <2> QED
      BY <2>2, <2>3
  <1>15. ASSUME k = Len(all) PROVE NotYet(log \o all, lives)
    <2>1. v = log \o all
      <3>1. all \in Seq(Entries)
        BY <1>4
      <3>2. log \o SubSeq(all, 1, Len(all)) = log \o all
        BY <3>1, SubSeqFull
      <3> QED
        BY <1>15, <3>2 DEF v
    <2>2. ASSUME NEW q \in Reminders!Fold(v).active, NEW o \in Nat, o >= q.time
          PROVE  Count(v, [id |-> q.id, occurrence |-> o]) <= lives - 1
      <3> DEFINE item == [id |-> q.id, occurrence |-> o]
      <3>1. item.id = q.id /\ item.occurrence = o
        OBVIOUS
      <3>2. SUFFICES item \notin Reminders!Items(Reminders!Selected) /\ Count(log, item) <= lives - 1
        BY <1>10
      <3> HIDE DEF item
      <3>3. \/ q \in Reminders!Active /\ \A r \in Reminders!Selected : q.id # r.id
            \/ \E r \in Reminders!Selected : q \in Reminders!Dispatched(r, now)
        BY <1>15, <2>1, <2>2, AdmissionAppends
      <3>4. CASE q \in Reminders!Active /\ \A r \in Reminders!Selected : q.id # r.id
        <4>1. item \notin Reminders!Items(Reminders!Selected)
          <5>1. ASSUME item \in Reminders!Items(Reminders!Selected) PROVE FALSE
            <6>1. PICK r \in Reminders!Selected, p \in Nat : item = [id |-> r.id, occurrence |-> p]
              BY <1>13, <5>1
            <6> QED
              BY <3>1, <3>4, <6>1
          <5> QED
            BY <5>1
        <4>2. Count(log, item) <= lives - 1
          BY <2>2, <3>4 DEF NotYet, Reminders!Active, item
        <4> QED
          BY <4>1, <4>2
      <3>5. ASSUME NEW r \in Reminders!Selected, q \in Reminders!Dispatched(r, now)
            PROVE  item \notin Reminders!Items(Reminders!Selected) /\ Count(log, item) <= lives - 1
        <4>1. q.id = r.id /\ r.every # 0 /\ q.time = Reminders!Occurrence(r, now).next
                /\ q.time \in Nat
          <5>1. q \in Record
            BY <1>12, <3>5, DispatchedIs
          <5> QED
            BY <1>12, <3>5, <5>1, DispatchedIs DEF Record
        <4>2. item \notin Reminders!Items(Reminders!Selected)
          <5>1. ASSUME item \in Reminders!Items(Reminders!Selected) PROVE FALSE
            <6>1. PICK p \in Reminders!Selected, a \in Nat :
                     /\ item = [id |-> p.id, occurrence |-> a]
                     /\ p.every # 0 => a < Reminders!Occurrence(p, now).next
              BY <1>13, <5>1
            <6>2. p.id = r.id /\ a = o
              BY <3>1, <4>1, <6>1
            <6>3. p = r
              BY <1>2, <1>12, <6>2 DEF Folded
            <6>4. o < q.time
              BY <4>1, <6>1, <6>2, <6>3
            <6> QED
              BY <2>2, <4>1, <6>4
          <5> QED
            BY <5>1
        <4>3. o >= r.time
          <5>1. r.time \in Nat /\ Reminders!Occurrence(r, now).occurrence \in Nat
                /\ r.time <= Reminders!Occurrence(r, now).occurrence
                /\ Reminders!Occurrence(r, now).occurrence < Reminders!Occurrence(r, now).next
            BY <1>12, <4>1
          <5> QED
            BY <2>2, <4>1, <5>1
        <4>4. Count(log, item) <= lives - 1
          BY <1>12, <4>1, <4>3 DEF NotYet, item
        <4> QED
          BY <4>2, <4>4
      <3> QED
        BY <3>3, <3>4, <3>5
    <2>3. NotYet(v, lives)
      BY <2>2 DEF NotYet
    <2> QED
      BY <2>1, <2>3
  <1> QED
    BY <1>14, <1>15 DEF OncePerLife, v

---------------------------------------------------------------------------
(* What calls append, and what a crash leaves.                             *)

Jobs == [op : {"drive"}] \cup [op : {"create"}, rule : Rules] \cup [op : {"delete"}, id : Nat]
          \cup [op : {"list"}]

(* An event that is no reminder and lets nothing earlier become active     *)
(* leaves the counts as they are.                                          *)
LEMMA CountsStay ==
  ASSUME NEW l, IsLog(l), NEW e \in Entries, e.op # "remind", NEW lives \in Nat, lives >= 1,
         OncePerLife(l, lives), NotYet(l, lives),
         \A q \in Reminders!Fold(Append(l, e)).active : q \in Reminders!Fold(l).active
           \/ q.id \notin Reminders!Fold(l).seen
  PROVE  OncePerLife(Append(l, e), lives) /\ NotYet(Append(l, e), lives)
  <1> DEFINE u == Append(l, e)
  <1>1. l \in Seq(Entries) /\ Len(l) \in Nat
    BY LenProperties DEF IsLog
  <1>2. /\ u \in Seq(Entries) /\ Len(u) = Len(l) + 1 /\ u[Len(l) + 1] = e
        /\ \A i \in 1 .. Len(l) : u[i] = l[i]
    BY <1>1, AppendProperties
  <1> HIDE DEF u
  <1>3. ASSUME NEW item PROVE Count(u, item) = Count(l, item)
    <2>1. \A i \in 1 .. Len(u) : i > Len(l) => i = Len(l) + 1
      BY <1>1, <1>2
    <2>2. \A i \in 1 .. Len(u) : i > Len(l) /\ u[i].op = "remind" => item \notin u[i].items
      BY <1>2, <2>1
    <2>3. Len(l) <= Len(u)
      BY <1>1, <1>2
    <2> QED
      BY <1>1, <1>2, <2>2, <2>3, CountOfOther
  <1>4. OncePerLife(u, lives)
    BY <1>3 DEF OncePerLife
  <1>5. ASSUME NEW q \in Reminders!Fold(u).active, NEW o \in Nat, o >= q.time
        PROVE  Count(u, [id |-> q.id, occurrence |-> o]) <= lives - 1
    <2> DEFINE item == [id |-> q.id, occurrence |-> o]
    <2>1. CASE q \in Reminders!Fold(l).active
      BY <1>3, <1>5, <2>1 DEF NotYet
    <2>2. CASE q.id \notin Reminders!Fold(l).seen
      <3>1. item.id \notin Reminders!Fold(l).seen
        BY <2>2
      <3> HIDE DEF item
      <3>2. Count(l, item) = 0
        BY <3>1, CountOfUnknown
      <3>3. Count(u, item) <= lives - 1
        BY <1>3, <3>2
      <3> QED
        BY <3>3 DEF item
    <2> QED
      BY <1>5, <2>1, <2>2 DEF u
  <1>6. NotYet(u, lives)
    BY <1>5 DEF NotYet
  <1> QED
    BY <1>4, <1>6 DEF u

(* What a call appends fits, and reminds of nothing.                       *)
LEMMA ChangeAppends ==
  ASSUME RemindersAreMeant, IsLog(log), now \in Nat, NEW lives \in Nat, lives >= 1,
         OncePerLife(log, lives), NEW call \in Jobs, NEW e \in Reminders!Changes(call)
  PROVE  /\ IsLog(Append(log, e)) /\ e.op \in {"create", "delete"} /\ e.id \in Nat
         /\ NotYet(log, lives) =>
              OncePerLife(Append(log, e), lives) /\ NotYet(Append(log, e), lives)
         /\ OncePerLife(Append(log, e), lives)
  <1>1. log \in Seq(Entries) /\ Len(log) \in Nat
    BY LenProperties DEF IsLog
  <1>2. Folded(Reminders!Fold(log))
    BY LogIsSound
  <1>3. PICK k \in Nat : Reminders!Fold(log).seen = 1 .. k
    BY <1>2 DEF Folded
  <1>4. /\ e \in Entries /\ e.op \in {"create", "delete"} /\ e.id \in Nat
             /\ Fits(Reminders!Fold(log), e)
        /\ \A q \in Reminders!Apply(Reminders!Fold(log), e).active :
             q \in Reminders!Fold(log).active \/ q.id \notin Reminders!Fold(log).seen
    <2> DEFINE f == Reminders!Fold(log)
               of == {r \in f.active : r.id = e.id}
    <2>1. CASE call.op = "create"
      <3>1. call.rule \in Rules
        BY <2>1 DEF Jobs
      <3>2. call.rule.every \in Nat
        BY <3>1 DEF RemindersAreMeant
      <3>3. PICK t \in {Reminders!Target(call.rule)} \cap now + 1 .. Horizon :
              e = [op |-> "create", id |-> Reminders!FreshId, every |-> call.rule.every, time |-> t]
        BY <2>1 DEF Reminders!Changes
      <3>4. t \in Nat
        BY <3>3 DEF RemindersAreMeant
      <3>5. Reminders!FreshId = k + 1
        <4>1. Cardinality(1 .. k) = k
          BY FS_Interval
        <4> QED
          BY <1>3, <4>1, CountIs DEF Reminders!FreshId
      <3>6. e \in [op : {"create"}, id : Nat, every : Nat, time : Nat]
        BY <3>2, <3>3, <3>4, <3>5
      <3>7. e \in Entries /\ e.op = "create" /\ e.id = Reminders!FreshId /\ e.id \in Nat
              /\ e.id \notin f.seen
        BY <1>3, <3>3, <3>5, <3>6 DEF Entries
      <3>8. Fits(f, e)
        BY <3>7, CountIs DEF Fits, Reminders!FreshId
      <3> DEFINE fine == f.ok /\ e.id \notin f.seen
                 new == [id |-> e.id, every |-> e.every, time |-> e.time]
      <3>9. Reminders!Apply(f, e) = [ok |-> fine, seen |-> f.seen
              \cup {e.id}, active |-> f.active \cup {new}]
        BY <3>7 DEF Reminders!Apply
      <3>10. new.id = e.id
        OBVIOUS
      <3> HIDE DEF f, new, fine
      <3>11. Reminders!Apply(f, e).active = f.active \cup {new}
        BY <3>9
      <3>12. \A q \in Reminders!Apply(f, e).active : q \in f.active \/ q.id \notin f.seen
        BY <3>7, <3>10, <3>11
      <3> QED
        BY <3>7, <3>8, <3>12 DEF f
    <2>2. CASE call.op = "delete"
      <3>1. PICK r \in Reminders!Active : e = [op |-> "delete", id |-> r.id]
        BY <2>2 DEF Reminders!Changes
      <3>2. r.id \in Nat /\ r \in f.active
        BY <1>2, <3>1 DEF Folded, Reminders!Active, Record
      <3>3. e \in [op : {"delete"}, id : Nat]
        BY <3>1, <3>2
      <3>4. e \in Entries /\ e.op = "delete" /\ e.id = r.id /\ Fits(f, e)
        BY <3>1, <3>2, <3>3 DEF Entries, Fits
      <3> DEFINE fine == f.ok /\ of # {}
                 act == f.active \ of
      <3>5. Reminders!Apply(f, e) = [f EXCEPT !.ok = fine, !.active = act]
        BY <3>4 DEF Reminders!Apply
      <3>6. act \subseteq f.active /\ f \in [ok : BOOLEAN, seen : SUBSET Nat, active : SUBSET Record]
        BY <1>2 DEF Folded
      <3> HIDE DEF fine, act, f
      <3>7. Reminders!Apply(f, e).active = act
        BY <3>5, <3>6
      <3> QED
        BY <3>2, <3>4, <3>6, <3>7 DEF f
    <2> QED
      BY <2>1, <2>2 DEF Reminders!Changes
  <1>5. IsLog(Append(log, e))
          /\ Reminders!Fold(Append(log, e)) = Reminders!Apply(Reminders!Fold(log), e)
    BY <1>4, LogAppend
  <1>6. ASSUME NotYet(log, lives)
        PROVE  OncePerLife(Append(log, e), lives) /\ NotYet(Append(log, e), lives)
    BY <1>4, <1>5, <1>6, CountsStay
  <1>7. OncePerLife(Append(log, e), lives)
    <2>1. /\ Append(log, e) \in Seq(Entries) /\ Len(Append(log, e)) = Len(log) + 1
          /\ Append(log, e)[Len(log) + 1] = e
          /\ \A i \in 1 .. Len(log) : Append(log, e)[i] = log[i]
      BY <1>1, <1>4, AppendProperties
    <2> DEFINE u == Append(log, e)
    <2> HIDE DEF u
    <2>2. \A i \in 1 .. Len(u) : i > Len(log) => i = Len(log) + 1
      BY <1>1, <2>1 DEF u
    <2>3. u[Len(log) + 1].op # "remind" /\ Len(log) <= Len(u)
      BY <1>1, <1>4, <2>1 DEF u
    <2>4. \A item : Count(u, item) = Count(log, item)
      BY <1>1, <2>1, <2>2, <2>3, CountOfOther DEF u
    <2> QED
      BY <2>4 DEF OncePerLife, u
  <1> QED
    BY <1>4, <1>5, <1>6, <1>7

(* A crash leaves a prefix to a life that has reminded of nothing yet.     *)
LEMMA PrefixReminds ==
  ASSUME NEW l, IsLog(l), NEW k \in 0 .. Len(l), NEW lives \in Nat, OncePerLife(l, lives)
  PROVE  /\ IsLog(SubSeq(l, 1, k)) /\ OncePerLife(SubSeq(l, 1, k), lives + 1)
         /\ NotYet(SubSeq(l, 1, k), lives + 1)
  <1> DEFINE u == SubSeq(l, 1, k)
  <1>1. IsLog(u)
    BY LogPrefix
  <1>2. l \in Seq(Entries) /\ u \in Seq(Entries)
    BY <1>1 DEF IsLog
  <1>3. ASSUME NEW item \in Item PROVE Count(u, item) <= lives
    <2>1. Count(u, item) <= Count(l, item) /\ Count(l, item) <= lives
      BY <1>2, CountOfPart DEF OncePerLife
    <2>2. Count(u, item) \in Nat /\ Count(l, item) \in Nat
      BY <1>2, CountIsNumber
    <2> QED
      BY <2>1, <2>2
  <1> HIDE DEF u
  <1>4. OncePerLife(u, lives + 1)
    <2>1. ASSUME NEW item \in Item PROVE Count(u, item) <= lives + 1
      <3>1. Count(u, item) \in Nat
        BY <1>2, CountIsNumber
      <3> QED
        BY <1>3, <3>1
    <2> QED
      BY <2>1 DEF OncePerLife
  <1>5. NotYet(u, lives + 1)
    <2>1. Folded(Reminders!Fold(u))
      <3>1. Len(u) \in Nat /\ Len(u) \in 0 .. Len(u)
        BY <1>2, LenProperties
      <3> QED
        BY <1>1, <1>2, <3>1, StateFull DEF IsLog, PrefixIsFolded
    <2>2. ASSUME NEW q \in Reminders!Fold(u).active, NEW o \in Nat
          PROVE  Count(u, [id |-> q.id, occurrence |-> o]) <= lives + 1 - 1
      <3>1. q.id \in Nat
        BY <2>1 DEF Folded, Record
      <3>2. [id |-> q.id, occurrence |-> o] \in Item
        BY <3>1 DEF Item
      <3>3. lives + 1 - 1 = lives
        OBVIOUS
      <3> QED
        BY <1>3, <3>2, <3>3
    <2> QED
      BY <2>2 DEF NotYet
  <1> QED
    BY <1>1, <1>4, <1>5 DEF u

---------------------------------------------------------------------------
(* The agent's queue.                                                      *)

HasDrive(c) == \E i \in DOMAIN c : c[i] = Reminders!DriveJob

\* At most one drive is queued, and it is that of a run that goes on.
Queued(c, r) ==
  /\ c \in Seq(Jobs) /\ r \in {"no", "going", "retiring"}
  /\ \A i, j \in DOMAIN c : c[i] = Reminders!DriveJob /\ c[j] = Reminders!DriveJob => i = j
  /\ r = "going" <=> HasDrive(c)

(* A drive is a job.                                                       *)
LEMMA DriveIsJob == Reminders!DriveJob \in Jobs
  BY DEF Reminders!DriveJob, Jobs

(* The head leaves, and a job joins.                                       *)
LEMMA TailIsQueued ==
  ASSUME NEW c, NEW r, Queued(c, r), c # <<>>
  PROVE  /\ Head(c) \in Jobs
         /\ Head(c) = Reminders!DriveJob => /\ ~HasDrive(Tail(c)) /\ Queued(Tail(c), "no")
                                  /\ Queued(Tail(c), "retiring")
         /\ Head(c) # Reminders!DriveJob => Queued(Tail(c), r) /\ (HasDrive(Tail(c)) <=> HasDrive(c))
  <1>1. c \in Seq(Jobs) /\ Len(c) \in Nat /\ DOMAIN c = 1 .. Len(c)
          /\ r \in {"no", "going", "retiring"}
        /\ (\A i, j \in DOMAIN c : c[i] = Reminders!DriveJob /\ c[j] = Reminders!DriveJob => i = j)
        /\ (r = "going" <=> HasDrive(c))
    BY LenProperties DEF Queued
  <1> DEFINE t == Tail(c)
  <1>2. /\ Head(c) \in Jobs /\ Head(c) = c[1] /\ t \in Seq(Jobs) /\ Len(t) = Len(c) - 1
        /\ \A i \in 1 .. Len(t) : t[i] = c[i + 1]
    BY <1>1, HeadTailProperties
  <1>3. Len(c) # 0 /\ Len(c) >= 1
    BY <1>1, EmptySeq
  <1> HIDE DEF t
  <1>4. Len(t) \in Nat /\ DOMAIN t = 1 .. Len(t)
    BY <1>2, LenProperties
  <1>5. \A i \in 1 .. Len(t) : i + 1 \in 1 .. Len(c) /\ i + 1 # 1
    BY <1>1, <1>2, <1>4
  <1>6. \A i, j \in DOMAIN t : t[i] = Reminders!DriveJob /\ t[j] = Reminders!DriveJob => i = j
    <2>1. ASSUME NEW i \in 1 .. Len(t), NEW j \in 1 .. Len(t), t[i] = Reminders!DriveJob,
                 t[j] = Reminders!DriveJob
          PROVE  i = j
      <3>1. c[i + 1] = Reminders!DriveJob /\ c[j + 1] = Reminders!DriveJob
        BY <1>2, <2>1
      <3>2. i + 1 = j + 1
        BY <1>1, <1>5, <3>1
      <3> QED
        BY <1>4, <3>2
    <2> QED
      BY <1>4, <2>1
  <1>7. 1 \in 1 .. Len(c)
    BY <1>1, <1>3
  <1>8. ASSUME Head(c) = Reminders!DriveJob PROVE ~HasDrive(t)
    BY <1>1, <1>2, <1>4, <1>5, <1>7, <1>8 DEF HasDrive
  <1>9. ASSUME Head(c) # Reminders!DriveJob PROVE HasDrive(t) <=> HasDrive(c)
    <2>1. HasDrive(t) => HasDrive(c)
      BY <1>1, <1>2, <1>4, <1>5 DEF HasDrive
    <2>2. ASSUME HasDrive(c) PROVE HasDrive(t)
      <3>1. PICK i \in 1 .. Len(c) : c[i] = Reminders!DriveJob
        BY <1>1, <2>2 DEF HasDrive
      <3>2. i # 1
        BY <1>2, <1>9, <3>1
      <3>3. i - 1 \in 1 .. Len(t) /\ i - 1 + 1 = i
        BY <1>1, <1>2, <3>2
      <3> QED
        BY <1>2, <1>4, <3>1, <3>3 DEF HasDrive
    <2> QED
      BY <2>1, <2>2
  <1> QED
    BY <1>1, <1>2, <1>6, <1>8, <1>9 DEF Queued, t

(* A job is queued behind the others.                                      *)
LEMMA AppendIsQueued ==
  ASSUME NEW c, NEW r, Queued(c, r), NEW x \in Jobs, x = Reminders!DriveJob => ~HasDrive(c)
  PROVE  /\ Append(c, x) # <<>> /\ (c # <<>> => Head(Append(c, x)) = Head(c))
         /\ x = Reminders!DriveJob => Queued(Append(c, x), "going")
         /\ x # Reminders!DriveJob => Queued(Append(c, x), r)
              /\ (HasDrive(Append(c, x)) => HasDrive(c))
  <1>1. c \in Seq(Jobs) /\ Len(c) \in Nat /\ DOMAIN c = 1 .. Len(c)
          /\ r \in {"no", "going", "retiring"}
        /\ (\A i, j \in DOMAIN c : c[i] = Reminders!DriveJob /\ c[j] = Reminders!DriveJob => i = j)
        /\ (r = "going" <=> HasDrive(c))
    BY LenProperties DEF Queued
  <1> DEFINE u == Append(c, x)
  <1>2. /\ u \in Seq(Jobs) /\ Len(u) = Len(c) + 1 /\ u[Len(c) + 1] = x /\ u # <<>>
        /\ \A i \in 1 .. Len(c) : u[i] = c[i]
    BY <1>1, AppendProperties
  <1>3. c # <<>> => Head(u) = Head(c)
    <2>1. SUFFICES ASSUME c # <<>> PROVE Head(u) = Head(c)
      OBVIOUS
    <2>2. Len(c) >= 1
      BY <1>1, <2>1, EmptySeq
    <2> HIDE DEF u
    <2>3. Head(u) = u[1] /\ Head(c) = c[1] /\ 1 \in 1 .. Len(c)
      BY <1>1, <1>2, <2>1, <2>2, HeadTailProperties
    <2> QED
      BY <1>2, <2>3
  <1> HIDE DEF u
  <1>4. DOMAIN u = 1 .. Len(u) /\ Len(u) \in Nat
    BY <1>2, LenProperties
  <1>5. \A i \in 1 .. Len(u) : i = Len(c) + 1 \/ i \in 1 .. Len(c)
    BY <1>1, <1>2
  <1>6. Len(c) + 1 \in 1 .. Len(u) /\ \A i \in 1 .. Len(c) : i \in 1 .. Len(u)
    BY <1>1, <1>2
  <1>7. CASE x = Reminders!DriveJob
    <2>1. \A i \in 1 .. Len(c) : c[i] # Reminders!DriveJob
      BY <1>1, <1>7 DEF HasDrive
    <2>2. \A i, j \in DOMAIN u : u[i] = Reminders!DriveJob /\ u[j] = Reminders!DriveJob => i = j
      BY <1>2, <1>4, <1>5, <2>1
    <2>3. HasDrive(u)
      BY <1>2, <1>4, <1>6, <1>7 DEF HasDrive
    <2> QED
      BY <1>2, <1>3, <1>7, <2>2, <2>3 DEF Queued, u
  <1>8. CASE x # Reminders!DriveJob
    <2>1. \A i \in DOMAIN u : u[i] = Reminders!DriveJob => i \in DOMAIN c /\ c[i] = Reminders!DriveJob
      BY <1>1, <1>2, <1>4, <1>5, <1>8
    <2>2. \A i, j \in DOMAIN u : u[i] = Reminders!DriveJob /\ u[j] = Reminders!DriveJob => i = j
      BY <1>1, <2>1
    <2>3. HasDrive(u) <=> HasDrive(c)
      BY <1>1, <1>2, <1>4, <1>6, <2>1 DEF HasDrive
    <2> QED
      BY <1>1, <1>2, <1>3, <1>8, <2>2, <2>3 DEF Queued, u
  <1> QED
    BY <1>7, <1>8

(* A request and the end of a drive leave one run to one drive.            *)
LEMMA RequestIsQueued ==
  ASSUME NEW c, Queued(c, reminding), timer \in BOOLEAN, due \in BOOLEAN,
         Reminders!RequestDrive(c)
  PROVE  /\ Queued(chain', reminding') /\ timer' \in BOOLEAN /\ due' \in BOOLEAN
         /\ c # <<>> => chain' # <<>> /\ Head(chain') = Head(c)
         /\ faulted /\ HasDrive(chain') => HasDrive(c)
  <1>1. CASE stopping \/ faulted \/ reminding # "no"
    <2>1. chain' = c /\ reminding' = reminding /\ timer' \in BOOLEAN /\ due' \in BOOLEAN
      BY <1>1 DEF Reminders!RequestDrive, Reminders!runtime
    <2> QED
      BY <2>1
  <1>2. CASE ~stopping /\ ~faulted /\ reminding = "no"
    <2>1. chain' = Append(c, Reminders!DriveJob) /\ reminding' = "going" /\ due' = FALSE
            /\ timer' = FALSE
      BY <1>2 DEF Reminders!RequestDrive
    <2>2. ~HasDrive(c)
      BY <1>2 DEF Queued
    <2> QED
      BY <1>2, <2>1, <2>2, AppendIsQueued, DriveIsJob
  <1> QED
    BY <1>1, <1>2

(* The drive at the head is done, and perhaps another is queued.           *)
LEMMA DriveEnds ==
  ASSUME Queued(chain, reminding), chain # <<>>, Head(chain) = Reminders!DriveJob,
         due \in BOOLEAN,
         NEW again \in BOOLEAN, NEW fault \in BOOLEAN, Reminders!EndDrive(again, fault)
  PROVE  /\ Queued(chain', reminding') /\ due' \in BOOLEAN /\ stage' = "wait" /\ mark' = mark
         /\ fault => ~HasDrive(chain')
  <1>1. ~HasDrive(Tail(chain)) /\ Queued(Tail(chain), "no") /\ Queued(Tail(chain), "retiring")
    BY TailIsQueued
  <1>2. CASE again /\ ~stopping /\ ~fault
    <2>1. chain' = Append(Tail(chain), Reminders!DriveJob) /\ due' = FALSE /\ reminding' = reminding
          /\ stage' = "wait" /\ mark' = mark
      BY <1>2 DEF Reminders!EndDrive
    <2>2. reminding = "going"
      <3>1. Len(chain) >= 1 /\ 1 \in DOMAIN chain /\ Head(chain) = chain[1]
        <4>1. chain \in Seq(Jobs) /\ Len(chain) \in Nat /\ DOMAIN chain = 1 .. Len(chain)
          BY LenProperties DEF Queued
        <4>2. Len(chain) # 0
          BY <4>1, EmptySeq
        <4> QED
          BY <4>1, <4>2, HeadTailProperties
      <3> QED
        BY <3>1 DEF Queued, HasDrive
    <2>3. Queued(Append(Tail(chain), Reminders!DriveJob), "going")
      BY <1>1, AppendIsQueued, DriveIsJob
    <2> QED
      BY <1>2, <2>1, <2>2, <2>3
  <1>3. CASE ~(again /\ ~stopping /\ ~fault)
    <2>1. chain' = Tail(chain) /\ reminding' = "retiring" /\ due' = due
          /\ stage' = "wait" /\ mark' = mark
      BY <1>3 DEF Reminders!EndDrive
    <2> QED
      BY <1>1, <2>1
  <1> QED
    BY <1>2, <1>3

---------------------------------------------------------------------------
(* What every step keeps.                                                  *)

Spending == [calls : Nat, turns : Nat, fails : Nat, lives : Nat, back : Nat]

\* The log of this life: what it reminded of is retired, unless its runtime faulted.
LogIsKept ==
  /\ IsLog(log) /\ made \in Spending /\ made.lives >= 1 /\ faulted \in BOOLEAN
  /\ OncePerLife(log, made.lives) /\ (faulted \/ NotYet(log, made.lives))

TailIsStored ==
  /\ durable \in 0 .. Len(log) /\ told \subseteq [op : {"create", "delete"}, id : Nat]
  /\ Reminders!ConfirmedIsStored

FlagsAreSound ==
  /\ now \in 0 .. Horizon /\ timer \in BOOLEAN /\ due \in BOOLEAN /\ stopping \in BOOLEAN
  /\ waits \in BOOLEAN /\ doing \in {"idle", "turn", "maintenance"}

\* What the head flushes is the log, as nobody else appends; a faulted runtime has no
\* drive but the one that its maintenance ends.
QueueIsOrdered ==
  /\ Queued(chain, reminding) /\ mark \in 0 .. Len(log) /\ stage \in {"wait", "pre", "maint", "post"}
  /\ stage # "wait" => chain # <<>>
  /\ stage \in {"pre", "post"} => mark = Len(log)
  /\ stage = "maint" => Head(chain) = Reminders!DriveJob
  /\ stage = "post" /\ Head(chain) # Reminders!DriveJob =>
       Len(log) > 0 /\ log[Len(log)].op \in {"create", "delete"} /\ log[Len(log)].id \in Nat
  /\ faulted /\ HasDrive(chain) => stage = "maint"

RemindersInv == LogIsKept /\ TailIsStored /\ FlagsAreSound /\ QueueIsOrdered

RemindersGood == RemindersInv' /\ Reminders!DecidesFromStored

(* A bounded call is counted.                                              *)
LEMMA SpendingIsTyped ==
  ASSUME made \in Spending, NEW what \in {"calls", "turns", "fails", "lives", "back"},
         Reminders!Spend(what)
  PROVE  /\ made' \in Spending /\ made.lives \in Nat
         /\ made'.lives = IF what = "lives" THEN made.lives + 1 ELSE made.lives
  BY DEF Reminders!Spend, Spending

(* A step that leaves the log alone.                                       *)
LEMMA LogStays ==
  ASSUME RemindersInv, UNCHANGED <<log, durable, told, faulted>>, made' \in Spending,
         made'.lives = made.lives
  PROVE  LogIsKept' /\ TailIsStored' /\ Reminders!DecidesFromStored
  <1>1. LogIsKept' /\ TailIsStored'
    BY DEF RemindersInv, LogIsKept, TailIsStored, Reminders!ConfirmedIsStored
  <1>2. Len(log) \in Nat /\ log' = log
    BY LenProperties DEF RemindersInv, LogIsKept, IsLog
  <1>3. Reminders!DecidesFromStored
    BY <1>2 DEF Reminders!DecidesFromStored
  <1> QED
    BY <1>1, <1>3

(* Counting leaves the number of lives.                                    *)
LEMMA SpentStays ==
  ASSUME RemindersInv
  PROVE  /\ UNCHANGED made => made' \in Spending /\ made'.lives = made.lives
         /\ \A what \in {"calls", "turns", "fails", "back"} :
              Reminders!Spend(what) => made' \in Spending /\ made'.lives = made.lives
  <1>1. made \in Spending
    BY DEF RemindersInv, LogIsKept
  <1>2. ASSUME NEW what \in {"calls", "turns", "fails", "back"}, Reminders!Spend(what)
        PROVE  made' \in Spending /\ made'.lives = made.lives
    <2>1. what # "lives" /\ what \in {"calls", "turns", "fails", "lives", "back"}
      OBVIOUS
    <2> QED
      BY <1>1, <1>2, <2>1, SpendingIsTyped
  <1> QED
    BY <1>1, <1>2

(* A head that is done, and a queue that only grows.                       *)
LEMMA HeadIsDone ==
  ASSUME Queued(chain', reminding'), stage' = "wait", mark' \in 0 .. Len(log'),
         faulted' => ~HasDrive(chain')
  PROVE  QueueIsOrdered'
  BY DEF QueueIsOrdered

(* A job that is queued leaves the head.                                   *)
LEMMA QueueGrows ==
  ASSUME RemindersInv, Queued(chain', reminding'), UNCHANGED <<log, stage, mark, faulted>>,
         chain # <<>> => chain' # <<>> /\ Head(chain') = Head(chain),
         faulted /\ HasDrive(chain') => HasDrive(chain)
  PROVE  QueueIsOrdered'
  BY DEF RemindersInv, QueueIsOrdered

(* The head of the queue is its first job.                                 *)
LEMMA HeadIs ==
  ASSUME RemindersInv, chain # <<>>
  PROVE  /\ Queued(chain, reminding) /\ Head(chain) \in Jobs
         /\ Head(chain) = Reminders!DriveJob => HasDrive(chain)
  <1>1. Queued(chain, reminding)
    BY DEF RemindersInv, QueueIsOrdered
  <1>2. chain \in Seq(Jobs) /\ Len(chain) \in Nat /\ DOMAIN chain = 1 .. Len(chain)
    BY <1>1, LenProperties DEF Queued
  <1>3. Len(chain) # 0 /\ Head(chain) = chain[1] /\ Head(chain) \in Jobs
    BY <1>2, EmptySeq, HeadTailProperties
  <1>4. 1 \in DOMAIN chain
    BY <1>2, <1>3
  <1> QED
    BY <1>1, <1>3, <1>4 DEF HasDrive

---------------------------------------------------------------------------
(* The steps that leave the log alone.                                     *)

(* A drive ends.                                                           *)
LEMMA EndDriveHolds ==
  ASSUME RemindersInv, chain # <<>>, Head(chain) = Reminders!DriveJob, NEW again \in BOOLEAN,
         Reminders!EndDrive(again, faulted),
         UNCHANGED <<log, durable, told, faulted, now, stopping>>,
         made' \in Spending, made'.lives = made.lives,
         timer' \in BOOLEAN, waits' \in BOOLEAN, doing' \in {"idle", "turn", "maintenance"}
  PROVE  RemindersGood
  <1>1. LogIsKept' /\ TailIsStored' /\ Reminders!DecidesFromStored
    BY LogStays
  <1>2. Queued(chain, reminding) /\ due \in BOOLEAN /\ faulted \in BOOLEAN /\ mark \in 0 .. Len(log)
    BY DEF RemindersInv, FlagsAreSound, QueueIsOrdered, LogIsKept
  <1>3. /\ Queued(chain', reminding') /\ due' \in BOOLEAN /\ stage' = "wait" /\ mark' = mark
        /\ faulted => ~HasDrive(chain')
    BY <1>2, DriveEnds
  <1>4. QueueIsOrdered'
    BY <1>2, <1>3, HeadIsDone
  <1>5. FlagsAreSound'
    BY <1>3 DEF RemindersInv, FlagsAreSound
  <1> QED
    BY <1>1, <1>4, <1>5 DEF RemindersGood, RemindersInv

(* A call ends, and asks for a drive.                                      *)
LEMMA CallEndsHolds ==
  ASSUME RemindersInv, chain # <<>>, Head(chain) # Reminders!DriveJob, stage' = "wait",
         UNCHANGED mark,
         \/ chain' = Tail(chain) /\ UNCHANGED <<reminding, due>> /\ timer' \in BOOLEAN
         \/ Reminders!RequestDrive(Tail(chain)),
         UNCHANGED <<log, durable, faulted, now, stopping, waits, doing>>,
         TailIsStored', made' \in Spending, made'.lives = made.lives
  PROVE  RemindersGood
  <1>1. LogIsKept' /\ Reminders!DecidesFromStored
    <2>1. LogIsKept'
      BY DEF RemindersInv, LogIsKept
    <2>2. Len(log) \in Nat /\ log' = log
      BY LenProperties DEF RemindersInv, LogIsKept, IsLog
    <2> QED
      BY <2>1, <2>2 DEF Reminders!DecidesFromStored
  <1>2. /\ Queued(chain, reminding) /\ due \in BOOLEAN /\ faulted \in BOOLEAN /\ timer \in BOOLEAN
        /\ mark \in 0 .. Len(log) /\ (faulted /\ HasDrive(chain) => stage = "maint")
        /\ stage # "maint"
    BY DEF RemindersInv, FlagsAreSound, QueueIsOrdered, LogIsKept
  <1>3. Queued(Tail(chain), reminding) /\ (HasDrive(Tail(chain)) <=> HasDrive(chain))
    BY <1>2, TailIsQueued
  <1>4. /\ Queued(chain', reminding') /\ due' \in BOOLEAN /\ timer' \in BOOLEAN
        /\ faulted /\ HasDrive(chain') => HasDrive(Tail(chain))
    BY <1>2, <1>3, RequestIsQueued
  <1>5. QueueIsOrdered'
    BY <1>2, <1>3, <1>4, HeadIsDone
  <1>6. FlagsAreSound'
    BY <1>4 DEF RemindersInv, FlagsAreSound
  <1> QED
    BY <1>1, <1>5, <1>6 DEF RemindersGood, RemindersInv

(* A drive is asked for.                                                   *)
LEMMA RequestHolds ==
  ASSUME RemindersInv, Reminders!RequestDrive(chain), UNCHANGED <<log, durable, told, faulted,
         now, stopping>>,
         UNCHANGED <<stage, mark, made>>,
         waits' \in BOOLEAN, doing' \in {"idle", "turn", "maintenance"}
  PROVE  RemindersGood
  <1>1. LogIsKept' /\ TailIsStored' /\ Reminders!DecidesFromStored
    BY LogStays, SpentStays
  <1>2. Queued(chain, reminding) /\ timer \in BOOLEAN /\ due \in BOOLEAN
    BY DEF RemindersInv, QueueIsOrdered, FlagsAreSound
  <1>3. /\ Queued(chain', reminding') /\ timer' \in BOOLEAN /\ due' \in BOOLEAN
        /\ chain # <<>> => chain' # <<>> /\ Head(chain') = Head(chain)
        /\ faulted /\ HasDrive(chain') => HasDrive(chain)
    BY <1>2, RequestIsQueued
  <1>4. QueueIsOrdered'
    BY <1>3, QueueGrows
  <1>5. FlagsAreSound'
    BY <1>3 DEF RemindersInv, FlagsAreSound
  <1> QED
    BY <1>1, <1>4, <1>5 DEF RemindersGood, RemindersInv

(* The queue and what its head is at are left alone.                       *)
LEMMA QueueKept ==
  ASSUME RemindersInv, UNCHANGED <<log, durable, told, faulted, chain, stage, mark, reminding>>,
         FlagsAreSound',
         made' \in Spending, made'.lives = made.lives
  PROVE  RemindersGood
  <1>1. LogIsKept' /\ TailIsStored' /\ Reminders!DecidesFromStored
    BY LogStays
  <1>2. Queued(chain', reminding')
    BY DEF RemindersInv, QueueIsOrdered
  <1>3. QueueIsOrdered'
    BY <1>2, QueueGrows
  <1> QED
    BY <1>1, <1>3 DEF RemindersGood, RemindersInv

(* A run retires, or goes on.                                              *)
LEMMA RetireHolds ==
  ASSUME RemindersInv, Reminders!Retire
  PROVE  RemindersGood
  <1>1. /\ reminding = "retiring"
        /\ UNCHANGED <<log, durable, now, stage, mark, stopping, faulted, waits, doing, told, made>>
    BY DEF Reminders!Retire
  <1>2. LogIsKept' /\ TailIsStored' /\ Reminders!DecidesFromStored
    BY <1>1, LogStays, SpentStays
  <1>3. Queued(chain, reminding) /\ timer \in BOOLEAN /\ due \in BOOLEAN
    BY DEF RemindersInv, QueueIsOrdered, FlagsAreSound
  <1>4. ~HasDrive(chain)
    BY <1>1, <1>3 DEF Queued
  <1>5. CASE due /\ ~stopping /\ ~faulted
    <2>1. timer' = FALSE /\ due' = FALSE /\ chain' = Append(chain, Reminders!DriveJob)
            /\ reminding' = "going"
      BY <1>5 DEF Reminders!Retire
    <2>2. /\ Queued(chain', reminding') /\ chain' # <<>>
          /\ chain # <<>> => Head(chain') = Head(chain)
      BY <1>3, <1>4, <2>1, AppendIsQueued, DriveIsJob
    <2>3. QueueIsOrdered'
      BY <1>1, <1>5, <2>2, QueueGrows
    <2>4. FlagsAreSound'
      BY <1>1, <2>1 DEF RemindersInv, FlagsAreSound
    <2> QED
      BY <1>2, <2>3, <2>4 DEF RemindersGood, RemindersInv
  <1>6. CASE ~(due /\ ~stopping /\ ~faulted)
    <2>1. reminding' = "no" /\ chain' = chain /\ timer' = timer /\ due' = due
      BY <1>6 DEF Reminders!Retire
    <2>2. Queued(chain', reminding')
      BY <1>3, <1>4, <2>1 DEF Queued
    <2>3. QueueIsOrdered'
      BY <1>1, <2>1, <2>2, QueueGrows
    <2>4. FlagsAreSound'
      BY <1>1, <2>1 DEF RemindersInv, FlagsAreSound
    <2> QED
      BY <1>2, <2>3, <2>4 DEF RemindersGood, RemindersInv
  <1> QED
    BY <1>5, <1>6

(* The head begins.                                                        *)
LEMMA BeginHolds ==
  ASSUME RemindersInv, Reminders!Begin
  PROVE  RemindersGood
  <1>1. /\ chain # <<>> /\ stage = "wait" /\ timer' = (timer /\ Head(chain) # Reminders!DriveJob)
        /\ UNCHANGED <<log, durable, now, stopping, faulted, waits, doing, told, made>>
    BY DEF Reminders!Begin
  <1>2. /\ timer \in BOOLEAN /\ due \in BOOLEAN /\ waits \in BOOLEAN
        /\ doing \in {"idle", "turn", "maintenance"}
    BY DEF RemindersInv, FlagsAreSound
  <1>3. timer' \in BOOLEAN /\ made' \in Spending /\ made'.lives = made.lives
    BY <1>1, <1>2, SpentStays
  <1>4. CASE stage' = "pre" /\ mark' = Len(log) /\ UNCHANGED <<chain, reminding, due>>
    <2>1. LogIsKept' /\ TailIsStored' /\ Reminders!DecidesFromStored
      BY <1>1, <1>3, LogStays
    <2>2. ~faulted \/ ~HasDrive(chain)
      BY <1>1 DEF RemindersInv, QueueIsOrdered
    <2>3. Len(log) \in Nat /\ Len(log') = Len(log)
      BY <1>1, LenProperties DEF RemindersInv, LogIsKept, IsLog
    <2>4. Queued(chain', reminding') /\ chain' # <<>>
      BY <1>1, <1>4 DEF RemindersInv, QueueIsOrdered
    <2>5. ~(faulted' /\ HasDrive(chain'))
      BY <1>1, <1>4, <2>2
    <2>6. QueueIsOrdered'
      BY <1>4, <2>3, <2>4, <2>5 DEF QueueIsOrdered
    <2>7. FlagsAreSound'
      BY <1>1, <1>2, <1>3, <1>4 DEF RemindersInv, FlagsAreSound
    <2> QED
      BY <2>1, <2>6, <2>7 DEF RemindersGood, RemindersInv
  <1>5. CASE Head(chain) = Reminders!DriveJob /\ stopping /\ Reminders!EndDrive(due, faulted)
    BY <1>1, <1>2, <1>3, <1>5, EndDriveHolds
  <1>6. CASE Head(chain) # Reminders!DriveJob /\ chain' = Tail(chain)
               /\ UNCHANGED <<stage, mark, reminding, due>>
    <2>1. TailIsStored'
      BY <1>1, <1>3, LogStays
    <2> QED
      BY <1>1, <1>3, <1>6, <2>1, CallEndsHolds
  <1> QED
    BY <1>4, <1>5, <1>6 DEF Reminders!Begin, Reminders!Preflight

(* A flush fails.                                                          *)
LEMMA FlushFailsHolds ==
  ASSUME RemindersInv, Reminders!FlushFails
  PROVE  RemindersGood
  <1>1. /\ chain # <<>> /\ stage \in {"pre", "post"} /\ Reminders!Spend("fails")
        /\ UNCHANGED <<log, durable, now, timer, stopping, faulted, waits, doing, told>>
    BY DEF Reminders!FlushFails
  <1>2. /\ timer \in BOOLEAN /\ due \in BOOLEAN /\ waits \in BOOLEAN
        /\ doing \in {"idle", "turn", "maintenance"}
    BY DEF RemindersInv, FlagsAreSound
  <1>3. timer' \in BOOLEAN /\ made' \in Spending /\ made'.lives = made.lives
    BY <1>1, <1>2, SpentStays
  <1>4. CASE Head(chain) = Reminders!DriveJob
    <2>1. Reminders!EndDrive(due, faulted)
      BY <1>4 DEF Reminders!FlushFails
    <2> QED
      BY <1>1, <1>2, <1>3, <1>4, <2>1, EndDriveHolds
  <1>5. CASE Head(chain) # Reminders!DriveJob
    <2>1. chain' = Tail(chain) /\ stage' = "wait" /\ UNCHANGED <<mark, reminding, due>>
      BY <1>5 DEF Reminders!FlushFails
    <2>2. TailIsStored' /\ stage # "maint"
      BY <1>1, <1>3, LogStays
    <2> QED
      BY <1>1, <1>3, <1>5, <2>1, <2>2, CallEndsHolds
  <1> QED
    BY <1>4, <1>5

(* A drive has stored what it appended.                                    *)
LEMMA DriveStoredHolds ==
  ASSUME RemindersInv, Reminders!DriveStored
  PROVE  RemindersGood
  <1>1. /\ chain # <<>> /\ Head(chain) = Reminders!DriveJob /\ Reminders!EndDrive(TRUE, faulted)
        /\ timer' = (timer /\ stopping)
        /\ UNCHANGED <<log, durable, now, stopping, faulted, waits, doing, told, made>>
    BY DEF Reminders!DriveStored, Reminders!Flushed
  <1>2. /\ timer \in BOOLEAN /\ stopping \in BOOLEAN /\ waits \in BOOLEAN
        /\ doing \in {"idle", "turn", "maintenance"}
    BY DEF RemindersInv, FlagsAreSound
  <1>3. timer' \in BOOLEAN /\ made' \in Spending /\ made'.lives = made.lives
    BY <1>1, <1>2, SpentStays
  <1> QED
    BY <1>1, <1>2, <1>3, EndDriveHolds

(* A drive's maintenance ends.                                             *)
LEMMA MaintenanceEndsHolds ==
  ASSUME RemindersInv, Reminders!MaintenanceEnds
  PROVE  RemindersGood
  <1>1. /\ stage = "maint" /\ doing' = "turn"
        /\ UNCHANGED <<log, durable, now, timer, stopping, faulted, waits, told, made>>
    BY DEF Reminders!MaintenanceEnds
  <1>2. /\ timer \in BOOLEAN /\ due \in BOOLEAN /\ waits \in BOOLEAN
        /\ chain # <<>> /\ Head(chain) = Reminders!DriveJob
    BY <1>1 DEF RemindersInv, FlagsAreSound, QueueIsOrdered
  <1>3. made' \in Spending /\ made'.lives = made.lives
    BY <1>1, SpentStays
  <1>4. CASE faulted
    <2>1. Reminders!EndDrive(due, faulted)
      BY <1>4 DEF Reminders!MaintenanceEnds, Reminders!EndDrive
    <2> QED
      BY <1>1, <1>2, <1>3, <2>1, EndDriveHolds
  <1>5. CASE ~faulted
    <2>1. stage' = "post" /\ mark' = Len(log') /\ UNCHANGED <<chain, reminding, due>>
      BY <1>5 DEF Reminders!MaintenanceEnds, Reminders!Barrier
    <2>2. LogIsKept' /\ TailIsStored' /\ Reminders!DecidesFromStored
      BY <1>1, <1>3, LogStays
    <2>3. Len(log) \in Nat /\ Len(log') = Len(log)
      BY <1>1, LenProperties DEF RemindersInv, LogIsKept, IsLog
    <2>4. Queued(chain', reminding') /\ chain' # <<>> /\ Head(chain') = Reminders!DriveJob /\ ~faulted'
      BY <1>1, <1>2, <1>5, <2>1 DEF RemindersInv, QueueIsOrdered
    <2>5. QueueIsOrdered'
      BY <2>1, <2>3, <2>4 DEF QueueIsOrdered
    <2>6. FlagsAreSound'
      BY <1>1, <1>2, <2>1 DEF RemindersInv, FlagsAreSound
    <2> QED
      BY <2>2, <2>5, <2>6 DEF RemindersGood, RemindersInv
  <1> QED
    BY <1>4, <1>5

(* A call is queued.                                                       *)
LEMMA StartCallHolds ==
  ASSUME RemindersInv, NEW call \in Jobs, call # Reminders!DriveJob, Reminders!StartCall(call)
  PROVE  RemindersGood
  <1>1. /\ chain' = Append(chain, call) /\ Reminders!Spend("calls")
        /\ UNCHANGED <<log, durable, now, stage, mark, Reminders!runtime, stopping, faulted, waits,
                       doing, told>>
    BY DEF Reminders!StartCall
  <1>2. made' \in Spending /\ made'.lives = made.lives
    BY <1>1, SpentStays
  <1>3. LogIsKept' /\ TailIsStored' /\ Reminders!DecidesFromStored
    BY <1>1, <1>2, LogStays
  <1>4. reminding' = reminding /\ timer' = timer /\ due' = due
    BY <1>1 DEF Reminders!runtime
  <1>5. Queued(chain, reminding)
    BY DEF RemindersInv, QueueIsOrdered
  <1>6. /\ Queued(chain', reminding') /\ chain' # <<>> /\ (chain # <<>> => Head(chain') = Head(chain))
        /\ HasDrive(chain') => HasDrive(chain)
    BY <1>1, <1>4, <1>5, AppendIsQueued
  <1>7. QueueIsOrdered'
    BY <1>1, <1>6, QueueGrows
  <1>8. FlagsAreSound'
    BY <1>1, <1>4 DEF RemindersInv, FlagsAreSound
  <1> QED
    BY <1>3, <1>7, <1>8 DEF RemindersGood, RemindersInv

(* The user, the clock and disposal.                                       *)
LEMMA AroundHolds ==
  ASSUME RemindersAreMeant, RemindersInv,
         Reminders!UserTurn \/ Reminders!EndTurn \/ Reminders!Tick \/ Reminders!SetBack
           \/ Reminders!Dispose
  PROVE  RemindersGood
  <1>1. /\ timer \in BOOLEAN /\ due \in BOOLEAN /\ stopping \in BOOLEAN /\ waits \in BOOLEAN
        /\ doing \in {"idle", "turn", "maintenance"} /\ now \in 0 .. Horizon /\ now \in Nat
        /\ Horizon \in Nat
    BY DEF RemindersInv, FlagsAreSound, RemindersAreMeant
  <1>2. CASE Reminders!UserTurn
    <2>1. /\ doing' = "turn" /\ Reminders!Spend("turns")
          /\ UNCHANGED <<log, durable, now, Reminders!queue, Reminders!runtime, stopping, faulted,
                         waits, told>>
      BY <1>2 DEF Reminders!UserTurn
    <2>2. UNCHANGED <<chain, stage, mark, reminding, timer, due>>
      BY <2>1 DEF Reminders!queue, Reminders!runtime
    <2>3. FlagsAreSound'
      BY <1>1, <2>1, <2>2 DEF FlagsAreSound
    <2> QED
      BY <2>1, <2>2, <2>3, SpentStays, QueueKept
  <1>3. CASE Reminders!EndTurn
    <2>1. /\ doing' = "idle"
          /\ UNCHANGED <<log, durable, now, stage, mark, stopping, faulted, waits, told, made>>
          /\ Reminders!RequestDrive(chain) \/ UNCHANGED <<chain, Reminders!runtime>>
      BY <1>3 DEF Reminders!EndTurn
    <2>2. CASE Reminders!RequestDrive(chain)
      BY <1>1, <2>1, <2>2, RequestHolds
    <2>3. CASE UNCHANGED <<chain, Reminders!runtime>>
      <3>1. UNCHANGED <<reminding, timer, due>>
        BY <2>3 DEF Reminders!runtime
      <3>2. FlagsAreSound'
        BY <1>1, <2>1, <3>1 DEF FlagsAreSound
      <3> QED
        BY <2>1, <2>3, <3>1, <3>2, SpentStays, QueueKept
    <2> QED
      BY <2>1, <2>2, <2>3
  <1>4. CASE Reminders!Tick
    <2>1. /\ now' = now + 1 /\ now < Horizon
          /\ UNCHANGED <<log, durable, Reminders!queue, Reminders!runtime, stopping, faulted,
                         waits, doing, told, made>>
      BY <1>4 DEF Reminders!Tick
    <2>2. UNCHANGED <<chain, stage, mark, reminding, timer, due>>
      BY <2>1 DEF Reminders!queue, Reminders!runtime
    <2>3. now' \in 0 .. Horizon
      BY <1>1, <2>1
    <2>4. FlagsAreSound'
      BY <1>1, <2>1, <2>2, <2>3 DEF FlagsAreSound
    <2> QED
      BY <2>1, <2>2, <2>4, SpentStays, QueueKept
  <1>5. CASE Reminders!SetBack
    <2>1. /\ Reminders!Spend("back") /\ now' \in 0 .. now - 1
          /\ UNCHANGED <<log, durable, Reminders!queue, Reminders!runtime, stopping, faulted,
                         waits, doing, told>>
      BY <1>5 DEF Reminders!SetBack
    <2>2. UNCHANGED <<chain, stage, mark, reminding, timer, due>>
      BY <2>1 DEF Reminders!queue, Reminders!runtime
    <2>3. now' \in 0 .. Horizon
      BY <1>1, <2>1
    <2>4. FlagsAreSound'
      BY <1>1, <2>1, <2>2, <2>3 DEF FlagsAreSound
    <2> QED
      BY <2>1, <2>2, <2>4, SpentStays, QueueKept
  <1>6. CASE Reminders!Dispose
    <2>1. /\ stopping' = TRUE /\ due' = FALSE /\ timer' = FALSE
          /\ UNCHANGED <<log, durable, now, Reminders!queue, reminding, faulted, waits, doing,
                         told, made>>
      BY <1>6 DEF Reminders!Dispose
    <2>2. UNCHANGED <<chain, stage, mark>>
      BY <2>1 DEF Reminders!queue
    <2>3. FlagsAreSound'
      BY <1>1, <2>1 DEF FlagsAreSound
    <2> QED
      BY <2>1, <2>2, <2>3, SpentStays, QueueKept
  <1> QED
    BY <1>2, <1>3, <1>4, <1>5, <1>6

(* One more entry is stored.                                               *)
LEMMA PersistHolds ==
  ASSUME RemindersInv, Reminders!Persist
  PROVE  RemindersGood
  <1>1. /\ durable < Len(log) /\ durable' = durable + 1
        /\ UNCHANGED <<log, now, Reminders!queue, Reminders!runtime, stopping, faulted, waits,
                       doing, told, made>>
    BY DEF Reminders!Persist
  <1>2. UNCHANGED <<chain, stage, mark, reminding, timer, due>>
    BY <1>1 DEF Reminders!queue, Reminders!runtime
  <1>3. Len(log) \in Nat /\ durable \in 0 .. Len(log)
    BY LenProperties DEF RemindersInv, LogIsKept, IsLog, TailIsStored
  <1>4. durable' \in 0 .. Len(log') /\ \A i \in 1 .. durable : i \in 1 .. durable'
    BY <1>1, <1>3
  <1>5. Reminders!ConfirmedIsStored'
    <2>1. ASSUME NEW m \in told'
          PROVE \E i \in 1 .. durable' : log'[i].op = m.op /\ log'[i].id = m.id
      <3>1. m \in told /\ log' = log
        BY <1>1
      <3>2. PICK i \in 1 .. durable : log[i].op = m.op /\ log[i].id = m.id
        BY <3>1 DEF RemindersInv, TailIsStored, Reminders!ConfirmedIsStored
      <3> QED
        BY <1>4, <3>1, <3>2
    <2> QED
      BY <2>1 DEF Reminders!ConfirmedIsStored
  <1>6. TailIsStored'
    BY <1>1, <1>4, <1>5 DEF RemindersInv, TailIsStored
  <1>7. LogIsKept'
    BY <1>1 DEF RemindersInv, LogIsKept
  <1>8. Reminders!DecidesFromStored
    BY <1>1, <1>3 DEF Reminders!DecidesFromStored
  <1>9. Queued(chain', reminding')
    BY <1>2 DEF RemindersInv, QueueIsOrdered
  <1>10. QueueIsOrdered'
    BY <1>1, <1>2, <1>9, QueueGrows
  <1>11. FlagsAreSound'
    BY <1>1, <1>2 DEF RemindersInv, FlagsAreSound
  <1> QED
    BY <1>6, <1>7, <1>8, <1>10, <1>11 DEF RemindersGood, RemindersInv

---------------------------------------------------------------------------
(* The steps that change the log, and a crash.                             *)

(* Of a log that grows, what was stored still is.                          *)
LEMMA LogGrows ==
  ASSUME RemindersInv, chain # <<>>, stage = "pre", durable >= mark, log' \in Seq(Entries),
         Len(log') >= Len(log), \A i \in 1 .. Len(log) : log'[i] = log[i],
         UNCHANGED <<durable, told>>
  PROVE  TailIsStored' /\ Reminders!DecidesFromStored /\ mark \in 0 .. Len(log')
  <1>1. Len(log) \in Nat /\ Len(log') \in Nat /\ durable \in 0 .. Len(log) /\ mark = Len(log)
    BY LenProperties DEF RemindersInv, LogIsKept, IsLog, TailIsStored, QueueIsOrdered
  <1>2. durable = Len(log) /\ durable' \in 0 .. Len(log') /\ mark \in 0 .. Len(log')
    BY <1>1
  <1>3. Reminders!ConfirmedIsStored'
    <2>1. ASSUME NEW m \in told'
          PROVE \E i \in 1 .. durable' : log'[i].op = m.op /\ log'[i].id = m.id
      <3>1. m \in told /\ durable' = Len(log)
        BY <1>2
      <3>2. PICK i \in 1 .. durable : log[i].op = m.op /\ log[i].id = m.id
        BY <3>1 DEF RemindersInv, TailIsStored, Reminders!ConfirmedIsStored
      <3>3. log'[i] = log[i] /\ i \in 1 .. durable'
        BY <1>2, <3>1, <3>2
      <3> QED
        BY <3>2, <3>3
    <2> QED
      BY <2>1 DEF Reminders!ConfirmedIsStored
  <1>4. TailIsStored'
    BY <1>2, <1>3 DEF RemindersInv, TailIsStored
  <1> QED
    BY <1>2, <1>4 DEF Reminders!DecidesFromStored

(* What a claimed task appends, all of it or a part.                       *)
LEMMA ClaimHolds ==
  ASSUME RemindersAreMeant, RemindersInv, Reminders!Flushed("pre"),
         Head(chain) = Reminders!DriveJob, NEW all \in Reminders!Admissions(Reminders!Selected),
         NEW k \in 1 .. Len(all), NEW failed \in BOOLEAN,
         Reminders!Claim(SubSeq(all, 1, k), failed),
         failed \/ k = Len(all), UNCHANGED <<durable, now, stopping, told>>,
         made' \in Spending, made'.lives = made.lives
  PROVE  RemindersGood
  <1>1. /\ chain # <<>> /\ stage = "pre" /\ durable >= mark
        /\ log' = log \o SubSeq(all, 1, k) /\ doing' = "maintenance"
        /\ stage' = "maint" /\ faulted' = failed /\ timer' = (timer /\ ~failed)
        /\ UNCHANGED <<mark, chain, reminding, due, waits>>
    BY DEF Reminders!Flushed, Reminders!Claim
  <1>2. IsLog(log) /\ log \in Seq(Entries) /\ Len(log) \in Nat /\ now \in Nat
    BY LenProperties DEF RemindersInv, LogIsKept, IsLog, FlagsAreSound
  <1>3. Folded(Reminders!Fold(log))
    BY <1>2, LogIsSound
  <1>4. ~faulted
    BY <1>1, HeadIs DEF RemindersInv, QueueIsOrdered
  <1>5. made.lives \in Nat /\ OncePerLife(log, made.lives) /\ NotYet(log, made.lives)
        /\ made.lives >= 1
    BY <1>4 DEF RemindersInv, LogIsKept, Spending
  <1>6. all \in Seq(Entries)
    BY <1>2, <1>3, AdmissionIs
  <1>7. IsLog(log') /\ OncePerLife(log', made.lives)
    <2>1. IsLog(log \o SubSeq(all, 1, k))
      BY <1>2, AdmissionAppends
    <2>2. OncePerLife(log \o SubSeq(all, 1, k), made.lives)
      BY <1>2, <1>5, AdmissionReminds
    <2> QED
      BY <1>1, <2>1, <2>2
  <1>8. ~failed => NotYet(log', made.lives)
    <2>1. SUFFICES ASSUME k = Len(all) PROVE NotYet(log', made.lives)
      OBVIOUS
    <2>2. NotYet(log \o all, made.lives)
      BY <1>2, <1>5, <2>1, AdmissionReminds
    <2>3. SubSeq(all, 1, k) = all
      BY <1>6, <2>1, SubSeqFull
    <2> QED
      BY <1>1, <2>2, <2>3
  <1>9. LogIsKept'
    BY <1>1, <1>5, <1>7, <1>8 DEF LogIsKept
  <1>10. /\ log' \in Seq(Entries) /\ Len(log') >= Len(log)
         /\ \A i \in 1 .. Len(log) : log'[i] = log[i]
    <2>1. k \in 0 .. Len(all) /\ k \in Nat
      BY <1>6, LenProperties
    <2> DEFINE v == log \o SubSeq(all, 1, k)
    <2>2. v \in Seq(Entries) /\ Len(v) = Len(log) + k /\ \A i \in 1 .. Len(log) : v[i] = log[i]
      BY <1>2, <1>6, <2>1, PartGrows, SMTT(30)
    <2>3. log' = v
      BY <1>1
    <2> HIDE DEF v
    <2> QED
      BY <1>2, <2>1, <2>2, <2>3
  <1>11. TailIsStored' /\ Reminders!DecidesFromStored /\ mark \in 0 .. Len(log')
    BY <1>1, <1>10, LogGrows
  <1>12. Queued(chain', reminding')
    BY <1>1 DEF RemindersInv, QueueIsOrdered
  <1>13. QueueIsOrdered'
    BY <1>1, <1>11, <1>12 DEF QueueIsOrdered
  <1>14. FlagsAreSound'
    BY <1>1 DEF RemindersInv, FlagsAreSound
  <1> QED
    BY <1>9, <1>11, <1>13, <1>14 DEF RemindersGood, RemindersInv

(* A drive decides.                                                        *)
LEMMA RemindersDrive ==
  ASSUME RemindersAreMeant, RemindersInv, Reminders!Drive
  PROVE  RemindersGood
  <1>1. /\ Reminders!Flushed("pre") /\ Head(chain) = Reminders!DriveJob /\ chain # <<>>
        /\ UNCHANGED <<durable, now, stopping, told>>
    BY DEF Reminders!Drive, Reminders!Flushed
  <1>2. /\ timer \in BOOLEAN /\ due \in BOOLEAN /\ waits \in BOOLEAN
        /\ doing \in {"idle", "turn", "maintenance"}
    BY DEF RemindersInv, FlagsAreSound
  <1>3. CASE /\ timer' = (timer \/ (~stopping /\ Reminders!Active # {}))
             /\ Reminders!EndDrive(due, faulted) /\ UNCHANGED <<log, faulted, waits, doing, made>>
    <2>1. made' \in Spending /\ made'.lives = made.lives /\ timer' \in BOOLEAN
      BY <1>2, <1>3, SpentStays
    <2> QED
      BY <1>1, <1>2, <1>3, <2>1, EndDriveHolds
  <1>4. CASE /\ waits' = TRUE
             /\ Reminders!EndDrive(due, faulted) /\ UNCHANGED <<log, timer, faulted, doing, made>>
    <2>1. made' \in Spending /\ made'.lives = made.lives
      BY <1>4, SpentStays
    <2> QED
      BY <1>1, <1>2, <1>4, <2>1, EndDriveHolds
  <1>5. ASSUME NEW all \in Reminders!Admissions(Reminders!Selected),
               \/ Reminders!Claim(all, FALSE) /\ UNCHANGED made
               \/ /\ Reminders!MayFail /\ Reminders!Spend("fails")
                  /\ \E k \in 1 .. Len(all) - 1 : Reminders!Claim(SubSeq(all, 1, k), TRUE)
               \/ /\ Reminders!MayFail /\ Reminders!Spend("fails")
                  /\ Reminders!EndDrive(due, faulted)
                       /\ UNCHANGED <<log, timer, faulted, waits, doing>>
        PROVE  RemindersGood
    <2>1. all \in Seq(Entries) /\ Len(all) \in Nat /\ Len(all) >= 1
      <3>1. Folded(Reminders!Fold(log)) /\ now \in Nat
        BY LogIsSound DEF RemindersInv, LogIsKept, FlagsAreSound
      <3>2. Cardinality(Reminders!Selected) \in Nat /\ all \in Seq(Entries)
              /\ Len(all) = Cardinality(Reminders!Selected) + 1
        BY <3>1, AdmissionIs
      <3> QED
        BY <3>2
    <2>2. CASE Reminders!Claim(all, FALSE) /\ UNCHANGED made
      <3>1. SubSeq(all, 1, Len(all)) = all /\ Len(all) \in 1 .. Len(all)
        BY <2>1, SubSeqFull
      <3>2. Reminders!Claim(SubSeq(all, 1, Len(all)), FALSE)
        BY <2>2, <3>1
      <3>3. made' \in Spending /\ made'.lives = made.lives
        BY <2>2, SpentStays
      <3> QED
        BY <1>1, <3>1, <3>2, <3>3, ClaimHolds
    <2>3. ASSUME Reminders!Spend("fails"), NEW k \in 1 .. Len(all) - 1,
                 Reminders!Claim(SubSeq(all, 1, k), TRUE)
          PROVE  RemindersGood
      <3>1. k \in 1 .. Len(all)
        BY <2>1
      <3>2. made' \in Spending /\ made'.lives = made.lives
        BY <2>3, SpentStays
      <3> QED
        BY <1>1, <2>3, <3>1, <3>2, ClaimHolds
    <2>4. CASE /\ Reminders!MayFail /\ Reminders!Spend("fails")
               /\ Reminders!EndDrive(due, faulted) /\ UNCHANGED <<log, timer, faulted, waits, doing>>
      <3>1. made' \in Spending /\ made'.lives = made.lives
        BY <2>4, SpentStays
      <3> QED
        BY <1>1, <1>2, <2>4, <3>1, EndDriveHolds
    <2> QED
      BY <1>5, <2>2, <2>3, <2>4
  <1> QED
    BY <1>3, <1>4, <1>5 DEF Reminders!Drive

(* A call decides.                                                         *)
LEMMA CallDecided ==
  ASSUME RemindersAreMeant, RemindersInv, Reminders!Decide
  PROVE  RemindersGood
  <1>1. /\ chain # <<>> /\ stage = "pre" /\ durable >= mark /\ Head(chain) # Reminders!DriveJob
        /\ UNCHANGED <<durable, now, stopping, faulted, waits, doing, told, made>>
    BY DEF Reminders!Decide, Reminders!Flushed
  <1>2. CASE stage' = "wait" /\ Reminders!RequestDrive(Tail(chain)) /\ UNCHANGED <<log, mark>>
    <2>1. TailIsStored' /\ made' \in Spending /\ made'.lives = made.lives
      BY <1>1, <1>2, LogStays, SpentStays
    <2> QED
      BY <1>1, <1>2, <2>1, CallEndsHolds
  <1>3. ASSUME NEW e \in Reminders!Changes(Head(chain)), log' = Append(log, e), Reminders!Barrier,
               Reminders!RequestDrive(chain)
        PROVE  RemindersGood
    <2>1. IsLog(log) /\ log \in Seq(Entries) /\ Len(log) \in Nat /\ now \in Nat
          /\ made.lives \in Nat /\ made.lives >= 1 /\ OncePerLife(log, made.lives)
          /\ (faulted \/ NotYet(log, made.lives)) /\ faulted \in BOOLEAN /\ made \in Spending
      BY LenProperties DEF RemindersInv, LogIsKept, IsLog, FlagsAreSound, Spending
    <2>2. Queued(chain, reminding) /\ Head(chain) \in Jobs
      BY <1>1, HeadIs
    <2>3. /\ IsLog(log') /\ e.op \in {"create", "delete"} /\ e.id \in Nat
          /\ OncePerLife(log', made.lives)
          /\ NotYet(log, made.lives) => NotYet(log', made.lives)
      <3>1. /\ IsLog(Append(log, e)) /\ e.op \in {"create", "delete"} /\ e.id \in Nat
            /\ OncePerLife(Append(log, e), made.lives)
            /\ NotYet(log, made.lives) => NotYet(Append(log, e), made.lives)
        BY <2>1, <2>2, ChangeAppends
      <3> QED
        BY <1>3, <3>1
    <2>4. LogIsKept'
      BY <1>1, <2>1, <2>3 DEF LogIsKept
    <2>5. /\ log' \in Seq(Entries) /\ Len(log') = Len(log) + 1 /\ log'[Len(log')] = e
          /\ \A i \in 1 .. Len(log) : log'[i] = log[i]
      <3>1. e \in Entries
        <4>1. log' \in Seq(Entries)
          BY <2>3 DEF IsLog
        <4> DEFINE S == Entries \cup {e}
        <4>2. log \in Seq(S) /\ e \in S
          <5>1. \A i \in 1 .. Len(log) : log[i] \in S
            BY <2>1, ElementOfSeq
          <5> QED
            BY <2>1, <5>1, SeqDef, LenProperties
        <4>3. Len(log') = Len(log) + 1 /\ log'[Len(log) + 1] = e
          BY <1>3, <4>2, AppendProperties
        <4>4. Len(log) + 1 \in 1 .. Len(log')
          BY <2>1, <4>3
        <4> QED
          BY <4>1, <4>3, <4>4, ElementOfSeq
      <3>2. /\ Append(log, e) \in Seq(Entries) /\ Len(Append(log, e)) = Len(log) + 1
            /\ Append(log, e)[Len(log) + 1] = e
            /\ \A i \in 1 .. Len(log) : Append(log, e)[i] = log[i]
        BY <2>1, <3>1, AppendProperties
      <3> QED
        BY <1>3, <3>2
    <2>6. Len(log') >= Len(log) /\ Len(log') > 0 /\ Len(log') \in 0 .. Len(log')
      BY <2>1, <2>5
    <2>7. TailIsStored' /\ Reminders!DecidesFromStored
      BY <1>1, <2>5, <2>6, LogGrows
    <2>8. timer \in BOOLEAN /\ due \in BOOLEAN /\ (faulted /\ HasDrive(chain) => stage = "maint")
      BY DEF RemindersInv, FlagsAreSound, QueueIsOrdered
    <2>9. /\ Queued(chain', reminding') /\ timer' \in BOOLEAN /\ due' \in BOOLEAN
          /\ chain' # <<>> /\ Head(chain') = Head(chain)
          /\ faulted /\ HasDrive(chain') => HasDrive(chain)
      BY <1>1, <1>3, <2>2, <2>8, RequestIsQueued
    <2>10. stage' = "post" /\ mark' = Len(log')
      BY <1>3 DEF Reminders!Barrier
    <2>11. ~(faulted' /\ HasDrive(chain'))
      BY <1>1, <2>8, <2>9
    <2>12. log'[Len(log')].op \in {"create", "delete"} /\ log'[Len(log')].id \in Nat
      BY <2>3, <2>5
    <2>13. QueueIsOrdered'
      BY <2>6, <2>9, <2>10, <2>11, <2>12 DEF QueueIsOrdered
    <2>14. FlagsAreSound'
      BY <1>1, <2>9 DEF RemindersInv, FlagsAreSound
    <2> QED
      BY <2>4, <2>7, <2>13, <2>14 DEF RemindersGood, RemindersInv
  <1> QED
    BY <1>2, <1>3 DEF Reminders!Decide

(* A call is confirmed.                                                    *)
LEMMA ConfirmHolds ==
  ASSUME RemindersInv, Reminders!Confirm
  PROVE  RemindersGood
  <1>1. /\ chain # <<>> /\ stage = "post" /\ durable >= mark /\ Head(chain) # Reminders!DriveJob
        /\ told' = told \cup {[op |-> log[Len(log)].op, id |-> log[Len(log)].id]}
        /\ stage' = "wait" /\ Reminders!RequestDrive(Tail(chain))
        /\ UNCHANGED <<log, durable, now, mark, stopping, faulted, waits, doing, made>>
    BY DEF Reminders!Confirm, Reminders!Flushed
  <1>2. /\ Len(log) \in Nat /\ durable \in 0 .. Len(log) /\ mark = Len(log) /\ Len(log) > 0
        /\ log[Len(log)].op \in {"create", "delete"} /\ log[Len(log)].id \in Nat
    BY <1>1, LenProperties DEF RemindersInv, LogIsKept, IsLog, TailIsStored, QueueIsOrdered
  <1> DEFINE last == Len(log)
  <1>3. last \in 1 .. durable
    BY <1>1, <1>2
  <1>4. Reminders!ConfirmedIsStored'
    <2>1. ASSUME NEW m \in told'
          PROVE \E i \in 1 .. durable' : log'[i].op = m.op /\ log'[i].id = m.id
      <3>1. CASE m \in told
        BY <1>1, <3>1 DEF RemindersInv, TailIsStored, Reminders!ConfirmedIsStored
      <3>2. CASE m = [op |-> log[last].op, id |-> log[last].id]
        <4>1. m.op = log[last].op /\ m.id = log[last].id
          BY <3>2
        <4> QED
          BY <1>1, <1>3, <4>1
      <3> QED
        BY <1>1, <2>1, <3>1, <3>2
    <2> QED
      BY <2>1 DEF Reminders!ConfirmedIsStored
  <1>5. told' \subseteq [op : {"create", "delete"}, id : Nat]
    BY <1>1, <1>2 DEF RemindersInv, TailIsStored
  <1>6. TailIsStored'
    BY <1>1, <1>4, <1>5 DEF RemindersInv, TailIsStored
  <1>7. made' \in Spending /\ made'.lives = made.lives
    BY <1>1, SpentStays
  <1> QED
    BY <1>1, <1>6, <1>7, CallEndsHolds

(* The one drive of a new runtime.                                         *)
LEMMA FirstDrive == Queued(<<Reminders!DriveJob>>, "going")
    /\ Head(<<Reminders!DriveJob>>) = Reminders!DriveJob /\ <<Reminders!DriveJob>> # <<>>
  <1>1. <<Reminders!DriveJob>> \in Seq(Jobs) /\ DOMAIN <<Reminders!DriveJob>> = 1 .. 1
          /\ <<Reminders!DriveJob>>[1] = Reminders!DriveJob
    BY DriveIsJob
  <1>2. HasDrive(<<Reminders!DriveJob>>)
    BY <1>1 DEF HasDrive
  <1>3. \A i \in 1 .. 1 : i = 1
    OBVIOUS
  <1> QED
    BY <1>1, <1>2, <1>3 DEF Queued

(* A crash keeps what is stored, and begins another life.                  *)
LEMMA CrashHolds ==
  ASSUME RemindersAreMeant, RemindersInv, Reminders!Crash
  PROVE  RemindersGood
  <1>1. PICK k \in durable .. Len(log) : log' = SubSeq(log, 1, k) /\ durable' = k
    BY DEF Reminders!Crash
  <1>2. /\ Reminders!Spend("lives") /\ chain' = <<Reminders!DriveJob>> /\ stage' = "wait" /\ mark' = 0
        /\ reminding' = "going" /\ due' = FALSE /\ timer' = FALSE
        /\ stopping' = FALSE /\ faulted' = FALSE /\ waits' = FALSE /\ doing' = "idle"
        /\ UNCHANGED <<now, told>>
    BY DEF Reminders!Crash
  <1>3. /\ IsLog(log) /\ log \in Seq(Entries) /\ Len(log) \in Nat /\ durable \in 0 .. Len(log)
        /\ made \in Spending /\ made.lives \in Nat /\ OncePerLife(log, made.lives)
    BY LenProperties DEF RemindersInv, LogIsKept, IsLog, TailIsStored, Spending
  <1>4. k \in 0 .. Len(log) /\ k \in Nat /\ k <= Len(log) /\ durable <= k
    BY <1>3
  <1>5. made' \in Spending /\ made'.lives = made.lives + 1
    BY <1>2, <1>3, SpendingIsTyped
  <1>6. /\ IsLog(log') /\ OncePerLife(log', made'.lives) /\ NotYet(log', made'.lives)
    BY <1>1, <1>3, <1>4, <1>5, PrefixReminds
  <1>7. made'.lives >= 1
    BY <1>3, <1>5
  <1>8. LogIsKept'
    BY <1>2, <1>5, <1>6, <1>7 DEF LogIsKept
  <1>9. Len(log') = k /\ \A i \in 1 .. k : log'[i] = log[i]
    BY <1>1, <1>3, <1>4, PartIs
  <1>10. Reminders!ConfirmedIsStored'
    <2>1. ASSUME NEW m \in told'
          PROVE \E i \in 1 .. durable' : log'[i].op = m.op /\ log'[i].id = m.id
      <3>1. PICK i \in 1 .. durable : log[i].op = m.op /\ log[i].id = m.id
        BY <1>2, <2>1 DEF RemindersInv, TailIsStored, Reminders!ConfirmedIsStored
      <3>2. i \in 1 .. k
        BY <1>3, <1>4
      <3> QED
        BY <1>1, <1>9, <3>1, <3>2
    <2> QED
      BY <2>1 DEF Reminders!ConfirmedIsStored
  <1>11. TailIsStored'
    BY <1>1, <1>2, <1>4, <1>9, <1>10 DEF RemindersInv, TailIsStored
  <1>12. Reminders!DecidesFromStored
    BY <1>3, <1>4, <1>9 DEF Reminders!DecidesFromStored
  <1>13. 0 \in 0 .. Len(log')
    BY <1>4, <1>9
  <1>14. QueueIsOrdered'
    BY <1>2, <1>13, FirstDrive DEF QueueIsOrdered
  <1>15. FlagsAreSound'
    BY <1>2 DEF RemindersInv, FlagsAreSound
  <1> QED
    BY <1>8, <1>11, <1>12, <1>14, <1>15 DEF RemindersGood, RemindersInv

---------------------------------------------------------------------------
(* Every step, and what follows.                                           *)

(* Nothing is logged at first.                                             *)
LEMMA RemindersInit ==
  ASSUME RemindersAreMeant, Reminders!Init
  PROVE  RemindersInv
  <1>1. /\ log = <<>> /\ durable = 0 /\ now = 0 /\ timer = FALSE
        /\ chain = <<Reminders!DriveJob>> /\ stage = "wait" /\ mark = 0 /\ reminding = "going"
             /\ due = FALSE
        /\ stopping = FALSE /\ faulted = FALSE /\ waits = FALSE /\ doing = "idle" /\ told = {}
        /\ made = [calls |-> 0, turns |-> 0, fails |-> 0, lives |-> 1, back |-> 0]
    BY DEF Reminders!Init
  <1>2. IsLog(log) /\ Reminders!Fold(log).active = {} /\ Len(log) = 0
    BY <1>1, LogEmpty DEF Reminders!Nothing
  <1>3. made \in Spending /\ made.lives = 1
    BY <1>1 DEF Spending
  <1>4. NotYet(log, made.lives)
    BY <1>2 DEF NotYet
  <1>5. OncePerLife(log, made.lives)
    <2>1. ASSUME NEW item PROVE Count(log, item) = 0
      <3>1. \A i \in 1 .. 0 : FALSE
        OBVIOUS
      <3>2. Reminds(log, item) = {}
        BY <1>2, <3>1 DEF Reminds
      <3> QED
        BY <3>2, FS_EmptySet DEF Count
    <2> QED
      BY <1>3, <2>1 DEF OncePerLife
  <1>6. LogIsKept
    <2>1. made.lives >= 1
      BY <1>3
    <2>2. faulted \in BOOLEAN
      BY DEF Reminders!Init
    <2> QED
      BY <1>2, <1>3, <1>4, <1>5, <2>1, <2>2 DEF LogIsKept
  <1>7. TailIsStored
    <2>1. Reminders!ConfirmedIsStored
      BY <1>1 DEF Reminders!ConfirmedIsStored
    <2>2. durable = 0 /\ told = {}
      BY DEF Reminders!Init
    <2>3. 0 \in 0 .. 0
      OBVIOUS
    <2> QED
      BY <1>2, <2>1, <2>2, <2>3 DEF TailIsStored
  <1>8. FlagsAreSound
    <2>1. 0 \in 0 .. Horizon
      BY DEF RemindersAreMeant
    <2>2. now = 0 /\ doing = "idle"
      BY DEF Reminders!Init
    <2>3. timer \in BOOLEAN /\ due \in BOOLEAN /\ stopping \in BOOLEAN /\ waits \in BOOLEAN
      BY DEF Reminders!Init
    <2> QED
      BY <2>1, <2>2, <2>3 DEF FlagsAreSound
  <1>9. Queued(chain, reminding)
    BY <1>1, FirstDrive
  <1>10. QueueIsOrdered
    BY <1>1, <1>2, <1>9 DEF QueueIsOrdered
  <1> QED
    BY <1>6, <1>7, <1>8, <1>10 DEF RemindersInv

(* Calls are jobs.                                                         *)
LEMMA CallsAreJobs ==
  ASSUME NEW call \in Reminders!Creates \cup Reminders!Deletes \cup {Reminders!List}
  PROVE  call \in Jobs /\ call # Reminders!DriveJob
  <1>1. CASE call \in Reminders!Creates
    <2>1. PICK rule \in Rules : call = [op |-> "create", rule |-> rule]
      BY <1>1 DEF Reminders!Creates
    <2>2. call \in [op : {"create"}, rule : Rules] /\ call.op = "create"
      BY <2>1
    <2> QED
      BY <2>2 DEF Jobs, Reminders!DriveJob
  <1>2. CASE call \in Reminders!Deletes
    <2>1. PICK i \in Reminders!Ids : call = [op |-> "delete", id |-> i]
      BY <1>2 DEF Reminders!Deletes
    <2>2. i \in Nat
      BY DEF Reminders!Ids
    <2>3. call \in [op : {"delete"}, id : Nat] /\ call.op = "delete"
      BY <2>1, <2>2
    <2> QED
      BY <2>3 DEF Jobs, Reminders!DriveJob
  <1>3. CASE call = Reminders!List
    BY <1>3 DEF Reminders!List, Jobs, Reminders!DriveJob
  <1> QED
    BY <1>1, <1>2, <1>3

(* Every step keeps the invariant, and decides over a stored log.          *)
LEMMA RemindersStep ==
  ASSUME RemindersAreMeant, RemindersInv, Reminders!Next
  PROVE  RemindersGood
  <1>1. CASE Reminders!TimerFires \/ Reminders!IdleWaitEnds
    <2>1. /\ Reminders!RequestDrive(chain) /\ UNCHANGED <<log, durable, told, faulted, now, stopping>>
          /\ UNCHANGED <<stage, mark, made>>
          /\ waits' \in BOOLEAN /\ doing' \in {"idle", "turn", "maintenance"}
      BY <1>1 DEF Reminders!TimerFires, Reminders!IdleWaitEnds, RemindersInv, FlagsAreSound
    <2> QED
      BY <2>1, RequestHolds
  <1>2. ASSUME NEW call \in Reminders!Creates \cup Reminders!Deletes \cup {Reminders!List},
               Reminders!StartCall(call) PROVE RemindersGood
    BY <1>2, CallsAreJobs, StartCallHolds
  <1>3. CASE Reminders!Begin \/ Reminders!Drive \/ Reminders!MaintenanceEnds \/ Reminders!DriveStored
    BY <1>3, BeginHolds, RemindersDrive, MaintenanceEndsHolds, DriveStoredHolds
  <1>4. CASE Reminders!Decide \/ Reminders!Confirm \/ Reminders!Retire
    BY <1>4, CallDecided, ConfirmHolds, RetireHolds
  <1>5. CASE Reminders!Persist \/ Reminders!FlushFails \/ Reminders!Crash
    BY <1>5, PersistHolds, FlushFailsHolds, CrashHolds
  <1>6. CASE Reminders!UserTurn \/ Reminders!EndTurn \/ Reminders!Tick \/ Reminders!SetBack
               \/ Reminders!Dispose
    BY <1>6, AroundHolds
  <1> QED
    BY <1>1, <1>2, <1>3, <1>4, <1>5, <1>6 DEF Reminders!Next, Reminders!Runtime

(* So does a step that changes nothing.                                    *)
LEMMA RemindersStutter ==
  ASSUME RemindersInv, UNCHANGED Reminders!vars
  PROVE  RemindersGood
  <1>1. UNCHANGED <<log, durable, now, chain, stage, mark, timer, reminding, due, stopping, faulted,
                    waits, doing, told, made>>
    BY DEF Reminders!vars, Reminders!queue, Reminders!runtime
  <1>2. FlagsAreSound'
    BY <1>1 DEF RemindersInv, FlagsAreSound
  <1> QED
    BY <1>1, <1>2, SpentStays, QueueKept

(* The invariant has the types of Schedule.                                *)
LEMMA TypesHold ==
  ASSUME RemindersInv
  PROVE  Reminders!TypeOK
  <1>1. log \in Seq(Entries) /\ DOMAIN log = 1 .. Len(log) /\ Len(log) \in Nat
    BY LenProperties DEF RemindersInv, LogIsKept, IsLog
  <1>2. \A i \in DOMAIN log : log[i].op \in {"create", "delete", "remind", "dispatch"}
    <2>1. \A i \in DOMAIN log : log[i] \in Entries
      BY <1>1, ElementOfSeq
    <2> QED
      BY <2>1, EntryIs
  <1>3. Queued(chain, reminding)
    BY DEF RemindersInv, QueueIsOrdered
  <1>4. chain \in Seq(Jobs) /\ DOMAIN chain = 1 .. Len(chain) /\ Len(chain) \in Nat
    BY <1>3, LenProperties DEF Queued
  <1>5. \A i \in DOMAIN chain : chain[i].op \in {"drive", "create", "delete", "list"}
    <2>1. \A i \in DOMAIN chain : chain[i] \in Jobs
      BY <1>4, ElementOfSeq
    <2> QED
      BY <2>1 DEF Jobs
  <1>6. Cardinality({i \in DOMAIN chain : chain[i] = Reminders!DriveJob}) <= 1
    <2> DEFINE D == {i \in DOMAIN chain : chain[i] = Reminders!DriveJob}
    <2>1. \A i, j \in D : i = j
      BY <1>3 DEF Queued
    <2> HIDE DEF D
    <2>2. D = {} \/ \E i : D = {i}
      BY <2>1
    <2>3. Cardinality(D) <= 1
      <3>1. D = {} => Cardinality(D) = 0
        BY FS_EmptySet
      <3>2. \A i : D = {i} => Cardinality(D) = 1
        BY FS_Singleton
      <3> QED
        BY <2>2, <3>1, <3>2
    <2> QED
      BY <2>3 DEF D
  <1>7. (reminding = "going") = (\E i \in DOMAIN chain : chain[i] = Reminders!DriveJob)
    BY <1>3 DEF Queued, HasDrive
  <1> QED
    BY <1>2, <1>3, <1>5, <1>6, <1>7, CountIs DEF Reminders!TypeOK, RemindersInv, LogIsKept,
       TailIsStored, FlagsAreSound, QueueIsOrdered, Queued

(* Every prefix of the log is accepted by the fold, which refuses a reused *)
(* id and a deletion or a dispatch of an inactive one; calls were told     *)
(* only of what is stored, and the queue holds at most one drive, of the   *)
(* run that is going: the inductive invariant (foldScheduleEvents).        *)
THEOREM SchedulesInductive ==
  ASSUME RemindersAreMeant PROVE Reminders!Spec => []RemindersInv
  <1>1. RemindersInv /\ [Reminders!Next]_(Reminders!vars) => RemindersInv'
    BY RemindersStep, RemindersStutter DEF RemindersGood
  <1>2. Reminders!Init => RemindersInv
    BY RemindersInit
  <1> QED
    BY <1>1, <1>2, PTL DEF Reminders!Spec

(* The invariant counts reminders as Schedule does.                        *)
LEMMA RemindedOnceHolds ==
  ASSUME RemindersInv
  PROVE  Reminders!RemindedOnce
  <1>1. log \in Seq(Entries) /\ DOMAIN log = 1 .. Len(log) /\ OncePerLife(log, made.lives)
    BY LenProperties DEF RemindersInv, LogIsKept, IsLog
  <1> DEFINE batches == {i \in DOMAIN log : log[i].op = "remind"}
  <1>2. ASSUME NEW i \in batches, NEW item \in log[i].items
        PROVE  Cardinality({j \in batches : item \in log[j].items}) <= made.lives
    <2>1. log[i] \in Entries /\ log[i].op = "remind"
      BY <1>1, ElementOfSeq
    <2>2. item \in Item
      BY <2>1, EntryIs
    <2>3. {j \in batches : item \in log[j].items} = Reminds(log, item)
      BY <1>1 DEF Reminds
    <2>4. Cardinality(Reminds(log, item)) <= made.lives
      BY <1>1, <2>2 DEF OncePerLife, Count
    <2> QED
      BY <2>3, <2>4
  <1> QED
    BY <1>2, CountIs DEF Reminders!RemindedOnce

(* Whatever interleaves, fails or crashes, the fold accepts the log and so *)
(* nothing inactive was ever deleted or dispatched, reminders come         *)
(* before what retires them and once a life, and what was confirmed is     *)
(* stored.                                                                 *)
THEOREM SchedulesAreSound ==
  ASSUME RemindersAreMeant
  PROVE  Reminders!Spec => [](Reminders!TypeOK /\ Reminders!FoldsClean
           /\ Reminders!RemindedFirst /\ Reminders!RemindedOnce /\ Reminders!ConfirmedIsStored)
  <1>1. RemindersInv => Reminders!TypeOK /\ Reminders!FoldsClean /\ Reminders!RemindedFirst
          /\ Reminders!RemindedOnce /\ Reminders!ConfirmedIsStored
    BY TypesHold, LogIsSound, RemindedOnceHolds DEF RemindersInv, LogIsKept, TailIsStored
  <1> QED
    BY <1>1, SchedulesInductive, PTL

(* What a step appends follows a stored prefix.                            *)
THEOREM SchedulesDecideFromStored ==
  ASSUME RemindersAreMeant
  PROVE Reminders!Spec => [][Reminders!DecidesFromStored]_(Reminders!vars)
  <1>1. RemindersInv /\ [Reminders!Next]_(Reminders!vars) => Reminders!DecidesFromStored
    BY RemindersStep, RemindersStutter DEF RemindersGood
  <1> QED
    BY <1>1, SchedulesInductive, PTL DEF Reminders!Spec

---------------------------------------------------------------------------
(* What the run of the agent checks about its follow-ups.                  *)

(* A behaviour of MCAgent is one of GoalRounds.                            *)
LEMMA RoundsBehave == MCSpec => Goals!Spec
<1>1. MCInit => Goals!Init
  BY DEF MCInit
<1>2. [MCNext]_<<part, vars, rounds, reminders>> => [Goals!Next]_(Goals!vars)
  <2> SUFFICES ASSUME [MCNext]_<<part, vars, rounds, reminders>>
               PROVE  Goals!Next \/ UNCHANGED Goals!vars
    OBVIOUS
  <2>1. Goals!Next \/ UNCHANGED rounds
    BY DEF MCNext
  <2>2. UNCHANGED rounds => UNCHANGED Goals!vars
    BY DEF rounds, Goals!vars, Goals!agent, Goals!driver
  <2> QED
    BY <2>1, <2>2
<1> QED
  BY <1>1, <1>2, PTL DEF MCSpec, Goals!Spec

(* A behaviour of MCAgent is one of Schedule.                              *)
LEMMA RemindersBehave == MCSpec => Reminders!Spec
<1>1. MCInit => Reminders!Init
  BY DEF MCInit
<1>2. [MCNext]_<<part, vars, rounds, reminders>> => [Reminders!Next]_(Reminders!vars)
  <2> SUFFICES ASSUME [MCNext]_<<part, vars, rounds, reminders>>
               PROVE  Reminders!Next \/ UNCHANGED Reminders!vars
    OBVIOUS
  <2>1. Reminders!Next \/ UNCHANGED reminders
    BY DEF MCNext
  <2>2. UNCHANGED reminders => UNCHANGED Reminders!vars
    BY DEF reminders, Reminders!vars, Reminders!queue, Reminders!runtime
  <2> QED
    BY <2>1, <2>2
<1> QED
  BY <1>1, <1>2, PTL DEF MCSpec, Reminders!Spec

(* Both logs stay sound, in every behaviour the run of the agent looks at. *)
THEOREM FollowUpsStaySound ==
  ASSUME RoundsAreMeant, RemindersAreMeant PROVE MCSpec => []FollowUpsAreSound
<1>1. RoundsInv => Goals!TypeOK
  BY TypesAreTypeOK DEF RoundsInv
<1>2. Goals!TypeOK /\ Reminders!TypeOK /\ Reminders!FoldsClean /\ Reminders!RemindedFirst
      /\ Reminders!RemindedOnce /\ Reminders!ConfirmedIsStored => FollowUpsAreSound
  BY DEF FollowUpsAreSound
<1> QED
  BY <1>1, <1>2, RoundsInductive, SchedulesAreSound, RoundsBehave, RemindersBehave, PTL

(* After an open turn is cancelled no round is queued until a person or    *)
(* a tool arms the goal again, in every behaviour the run looks at.        *)
THEOREM CancelsStop == ASSUME RoundsAreMeant PROVE MCSpec => CancelStops
<1>1. MCSpec => Goals!CancelStops
  BY RoundsBehave, RoundsStop, PTL
<1> QED
  BY <1>1 DEF CancelStops

(* What a schedule's step appends follows a stored prefix, in every        *)
(* behaviour the run looks at.                                             *)
THEOREM RemindersDecideFromStored ==
  ASSUME RemindersAreMeant PROVE MCSpec => StepsDecideFromStored
<1>1. [Reminders!DecidesFromStored]_(Reminders!vars) => [Reminders!DecidesFromStored]_reminders
  BY DEF reminders, Reminders!vars, Reminders!queue, Reminders!runtime
<1> QED
  BY <1>1, SchedulesDecideFromStored, RemindersBehave, PTL DEF StepsDecideFromStored
=============================================================================
