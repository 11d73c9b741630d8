------------------------- MODULE ToolExecutionProofs -------------------------
(***************************************************************************)
(* Proofs about ToolExecution for any calls of a step: every question has  *)
(* one decision, a grant is never invented, never is never granted, and a *)
(* call's result says truly what its body may have done.                   *)
(***************************************************************************)
EXTENDS ToolExecution, Integers, SequenceTheorems, FiniteSetTheorems, WellFoundedInduction,
        TLAPS

---------------------------------------------------------------------------
(* The inductive invariant, in named parts.                                *)

Asks(c) == {i \in Events("asked") : log[i].call = c}

Entry == [op : {"asked"}, call : Calls]
         \cup [op : {"decided"}, call : Calls, outcome : Answers \cup {"cancelled"}]
         \cup [op : {"policy"}, policy : Policies, by : {"grant", "user"}]

(* The question a call waits for is its last one, and was not put under    *)
(* never; a prompt always belongs to a question.                           *)
QuestionsAreOpen ==
  /\ \A c \in Calls : waiting[c] # 0 =>
       /\ waiting[c] \in Asks(c)
       /\ \A k \in Asks(c) : k <= waiting[c]
       /\ PolicyAt(waiting[c]) # "never"
  /\ \A p \in prompts : p.id # 0

(* A body is invoked once by each attempt at most, never before a call is  *)
(* checked out, and a call has no result before it has been answered.      *)
AttemptsAreCounted ==
  \A c \in Calls :
    /\ ran[c] <= attempt[c]
    /\ stage[c] \in {"new", "gate", "asking", "ready", "flush"} => attempt[c] = 1 /\ ran[c] = 0
    /\ stage[c] \in {"body", "escalating"} => ran[c] > 0
    /\ stage[c] \notin {"after", "done"} => result[c] = "none"

(* Nothing that was decided lacks its question, and no grant overrules it. *)
EveryDecisionIsAsked ==
  \A j \in Events("decided") :
    \E i \in Asks(log[j].call) :
      /\ i < j /\ \A k \in Asks(log[j].call) : k < j => k <= i
      /\ log[j].outcome \in Grants => PolicyAt(i) # "never"

IInv == /\ log \in Seq(Entry) /\ TypeOK /\ QuestionsAreOpen /\ AttemptsAreCounted
        /\ AuditPaired /\ GrantIsDecided /\ EveryDecisionIsAsked
        /\ MaxAttempts = 1 => EffectsAreHonest

---------------------------------------------------------------------------
(* How a call moves: its place, result, attempt and invocations.           *)

Stages  == {"new", "gate", "asking", "ready", "after", "done"} \cup InBody
Results == Errors \cup {"none", "ok"}
Waits   == {"asking", "escalating"}
Early   == {"new", "gate", "asking", "ready", "flush"}
Ended   == {"after", "done"}
Own     == {"failed", "timeout"}

Moved(c, s, r, a, m) ==
  /\ stage' = [stage EXCEPT ![c] = s] /\ result' = [result EXCEPT ![c] = r]
  /\ attempt' = [attempt EXCEPT ![c] = a] /\ ran' = [ran EXCEPT ![c] = m]

(* A result that is honest about m invocations.                            *)
Honest(r, m) == MaxAttempts = 1 => (r = "before" => m = 0) /\ (r = "aborted" => m > 0)

Lawful(c, s, r, a, m) ==
  /\ stage[c] # "done" /\ m <= a
  /\ s \in Early => a = 1 /\ m = 0
  /\ s \in {"body", "escalating"} => m > 0
  /\ s \notin Ended => r = "none"
  /\ result[c] \in Own => r \in Own
  /\ aborted /\ s = "done" => r # "ok"
  /\ Honest(r, m)
  /\ MaxAttempts = 1 /\ m > 0 => ran[c] > 0 \/ c \in stored'

Moves(c, T) ==
  \E s \in T, r \in Results, a \in 1 .. MaxAttempts, m \in 0 .. MaxAttempts :
    Moved(c, s, r, a, m) /\ Lawful(c, s, r, a, m)

Calm == Stages \ Waits

(* What every move starts from.                                            *)
Ready == MaxAttempts \in Nat \ {0} /\ TypeOK /\ AttemptsAreCounted /\ (MaxAttempts = 1 => CodeIsHonest)

LEMMA Types ==
  ASSUME Ready, NEW c \in Calls
  PROVE  /\ stage[c] \in Stages /\ result[c] \in Results
         /\ attempt[c] \in 1 .. MaxAttempts /\ ran[c] \in 0 .. MaxAttempts
         /\ ran[c] <= attempt[c]
         /\ stage[c] \in Early => attempt[c] = 1 /\ ran[c] = 0
         /\ stage[c] \in {"body", "escalating"} => ran[c] > 0
         /\ stage[c] \notin Ended => result[c] = "none"
         /\ Honest(result[c], ran[c])
         /\ stage = [stage EXCEPT ![c] = stage[c]] /\ result = [result EXCEPT ![c] = result[c]]
         /\ attempt = [attempt EXCEPT ![c] = attempt[c]] /\ ran = [ran EXCEPT ![c] = ran[c]]
  <1>1. /\ stage[c] \in Stages /\ result[c] \in Results
        /\ attempt[c] \in 1 .. MaxAttempts /\ ran[c] \in 0 .. MaxAttempts
    BY DEF Ready, TypeOK, Stages, Results
  <1>2. /\ ran[c] <= attempt[c]
        /\ stage[c] \in Early => attempt[c] = 1 /\ ran[c] = 0
        /\ stage[c] \in {"body", "escalating"} => ran[c] > 0
        /\ stage[c] \notin Ended => result[c] = "none"
    BY DEF Ready, AttemptsAreCounted, Early, Ended
  <1>3. Honest(result[c], ran[c])
    BY DEF Ready, CodeIsHonest, Honest
  <1>4. /\ stage = [stage EXCEPT ![c] = stage[c]] /\ result = [result EXCEPT ![c] = result[c]]
        /\ attempt = [attempt EXCEPT ![c] = attempt[c]] /\ ran = [ran EXCEPT ![c] = ran[c]]
    BY DEF Ready, TypeOK
  <1> QED
    BY <1>1, <1>2, <1>3, <1>4

(* A call goes on to another stage.                                        *)
LEMMA GoMoves ==
  ASSUME Ready, NEW c \in Calls, NEW T, NEW s \in T, Goto(c, s), Keep,
         stage[c] \notin Ended, s \notin Ended,
         s \in Early => stage[c] \in Early, s \in {"body", "escalating"} => ran[c] > 0
  PROVE  Moves(c, T)
  <1>1. Moved(c, s, result[c], attempt[c], ran[c])
    BY Types DEF Goto, Keep, Moved
  <1>2. Lawful(c, s, result[c], attempt[c], ran[c])
    BY Types DEF Lawful, Ended, Own
  <1> QED
    BY <1>1, <1>2, Types DEF Moves

(* A cancelled code is honest, and keeps a call's own failure.             *)
LEMMA CodeIsLawful ==
  ASSUME Ready, NEW c \in Calls, NEW r \in Results, Honest(r, ran[c])
  PROVE  /\ Code(c, r) \in Results /\ Honest(Code(c, r), ran[c])
         /\ r \in Own => Code(c, r) = r
         /\ aborted => Code(c, r) # "ok"
  <1>1. CASE ~aborted \/ r # "ok"
    <2>1. Code(c, r) = r
      BY <1>1 DEF Code
    <2> QED
      BY <1>1, <2>1
  <1>2. CASE aborted /\ r = "ok" /\ ran[c] > 0
    <2>1. Code(c, r) = "aborted"
      BY <1>2 DEF Code
    <2> QED
      BY <1>2, <2>1 DEF Honest, Results, Errors, Own
  <1>3. CASE aborted /\ r = "ok" /\ ~(ran[c] > 0)
    <2>1. Code(c, r) = "before"
      BY <1>3 DEF Code
    <2>2. ran[c] = 0
      BY <1>3, Types DEF Ready
    <2> QED
      BY <1>3, <2>1, <2>2 DEF Honest, Results, Errors, Own
  <1> QED
    BY <1>1, <1>2, <1>3

(* A call is answered and waits for the post policy.                       *)
LEMMA AfterMoves ==
  ASSUME Ready, NEW c \in Calls, NEW r \in Results, After(c, r), Honest(r, ran[c]),
         stage[c] \notin Ended
  PROVE  Moves(c, Calm)
  <1>1. Moved(c, "after", Code(c, r), attempt[c], ran[c])
    BY Types DEF After, Goto, Moved
  <1>2. Lawful(c, "after", Code(c, r), attempt[c], ran[c])
    BY Types, CodeIsLawful DEF Lawful, Ended, Own, Early
  <1>3. "after" \in Calm
    BY DEF Calm, Stages, Waits
  <1> QED
    BY <1>1, <1>2, <1>3, Types, CodeIsLawful DEF Moves

(* A call has its result.                                                  *)
LEMMA FinalMoves ==
  ASSUME Ready, NEW c \in Calls, NEW r \in Results, Final(c, r), Honest(r, ran[c]),
         stage[c] # "done", result[c] \in Own => r \in Own, aborted => r # "ok"
  PROVE  Moves(c, Calm)
  <1>1. Moved(c, "done", r, attempt[c], ran[c])
    BY Types DEF Final, Goto, Moved
  <1>2. Lawful(c, "done", r, attempt[c], ran[c])
    BY Types DEF Lawful, Ended, Early
  <1>3. "done" \in Calm
    BY DEF Calm, Stages, Waits
  <1> QED
    BY <1>1, <1>2, <1>3, Types DEF Moves

(* The first attempt invokes the body of a stored call.                    *)
LEMMA InvokeMoves ==
  ASSUME Ready, NEW c \in Calls, Invoke(c), UNCHANGED attempt, stage[c] = "flush", c \in stored'
  PROVE  Moves(c, Calm)
  <1>1. ran[c] = 0 /\ attempt[c] = 1 /\ result[c] = "none"
    BY Types DEF Early, Ended
  <1>2. ran' = [ran EXCEPT ![c] = 1]
    BY <1>1 DEF Invoke
  <1>3. Moved(c, "body", "none", 1, 1)
    BY <1>1, <1>2, Types DEF Invoke, Goto, Moved
  <1>4. Lawful(c, "body", "none", 1, 1)
    BY <1>1 DEF Lawful, Early, Own, Honest
  <1>5. "body" \in Calm /\ 1 \in 1 .. MaxAttempts /\ 1 \in 0 .. MaxAttempts /\ "none" \in Results
    BY DEF Calm, Stages, Waits, InBody, Results, Ready
  <1> QED
    BY <1>3, <1>4, <1>5 DEF Moves

(* A wrapper retries the call.                                             *)
LEMMA RetryMoves ==
  ASSUME Ready, NEW c \in Calls, NEW r, Retry(c, r), stage[c] \in InBody
  PROVE  Moves(c, Calm)
  <1>1. /\ attempt[c] \in 1 .. MaxAttempts /\ attempt[c] < MaxAttempts /\ MaxAttempts \in Nat
        /\ ran[c] \in Nat /\ ran[c] <= attempt[c] /\ result[c] = "none"
        /\ attempt' = [attempt EXCEPT ![c] = attempt[c] + 1]
    BY Types DEF Retry, Ready, InBody, Ended
  <1>2. MaxAttempts # 1 /\ attempt[c] + 1 \in 1 .. MaxAttempts /\ stage[c] # "done"
    BY <1>1 DEF InBody
  <1>3. CASE aborted
    <2>1. Moved(c, "after", "before", attempt[c] + 1, ran[c])
      BY <1>1, <1>3, Types DEF Retry, Goto, Moved
    <2>2. Lawful(c, "after", "before", attempt[c] + 1, ran[c])
      BY <1>1, <1>2 DEF Lawful, Early, Ended, Own, Honest
    <2>3. "after" \in Calm /\ "before" \in Results
      BY DEF Calm, Stages, Waits, Results, Errors
    <2> QED
      BY <1>2, <2>1, <2>2, <2>3, Types DEF Moves
  <1>4. CASE ~aborted
    <2>1. Moved(c, "body", "none", attempt[c] + 1, ran[c] + 1)
      BY <1>1, <1>4, Types DEF Retry, Invoke, Goto, Moved
    <2>2. Lawful(c, "body", "none", attempt[c] + 1, ran[c] + 1)
      BY <1>1, <1>2 DEF Lawful, Early, Ended, Own, Honest
    <2>3. "body" \in Calm /\ "none" \in Results /\ ran[c] + 1 \in 0 .. MaxAttempts
      BY <1>1 DEF Calm, Stages, Waits, InBody, Results
    <2> QED
      BY <1>2, <2>1, <2>2, <2>3 DEF Moves
  <1> QED
    BY <1>3, <1>4

(* A wrapper's next() is answered.                                         *)
LEMMA AnsweredMoves ==
  ASSUME Ready, NEW c \in Calls, NEW r \in Results, Answered(c, r), stage[c] \in InBody,
         Honest(r, ran[c])
  PROVE  Moves(c, Calm)
  <1> DEFINE own == IF c \in timedOut /\ attempt[c] = 1 THEN "timeout" ELSE r
  <1>1. own \in Results /\ Honest(own, ran[c])
    BY DEF Results, Errors, Honest
  <1>2. After(c, own) \/ Retry(c, own)
    BY DEF Answered
  <1>3. stage[c] \notin Ended
    BY DEF InBody, Ended
  <1> HIDE DEF own
  <1> QED
    BY <1>1, <1>2, <1>3, AfterMoves, RetryMoves

(* A gate permits the call, unless a guard denies it.                      *)
LEMMA PermitMoves ==
  ASSUME Ready, NEW c \in Calls, Permit(c), stage[c] \in {"gate", "asking"}
  PROVE  Moves(c, Calm)
  <1>1. stage[c] \in Early /\ stage[c] \notin Ended /\ ran[c] = 0
    BY Types DEF Early, Ended
  <1>2. CASE After(c, "before") \/ After(c, "failed")
    <2>1. /\ Honest("before", ran[c]) /\ Honest("failed", ran[c])
          /\ "before" \in Results /\ "failed" \in Results
      BY <1>1 DEF Honest, Results, Errors
    <2> QED
      BY <1>1, <1>2, <2>1, AfterMoves
  <1>3. CASE Goto(c, "ready") /\ Keep
    <2>1. "ready" \in Calm /\ "ready" \notin Ended
      BY DEF Calm, Stages, Waits, Ended
    <2> QED
      BY <1>1, <1>3, <2>1, GoMoves
  <1> QED
    BY <1>2, <1>3 DEF Permit

(* A call goes on with the outcome of its question.                        *)
LEMMA ApplyMoves ==
  ASSUME Ready, NEW c \in Calls, NEW gate \in BOOLEAN, NEW o, Apply(c, gate, o),
         IF gate THEN stage[c] \in {"gate", "asking"} ELSE stage[c] \in {"body", "escalating"}
  PROVE  Moves(c, Calm)
  <1>1. CASE gate
    <2>1. stage[c] \in {"gate", "asking"} /\ stage[c] \notin Ended /\ ran[c] = 0
      BY <1>1, Types DEF Early, Ended
    <2>2. Permit(c) \/ After(c, "before") \/ After(c, "failed")
      BY <1>1 DEF Apply
    <2>3. /\ Honest("before", ran[c]) /\ Honest("failed", ran[c])
          /\ "before" \in Results /\ "failed" \in Results
      BY <2>1 DEF Honest, Results, Errors
    <2> QED
      BY <2>1, <2>2, <2>3, PermitMoves, AfterMoves
  <1>2. CASE ~gate
    <2>1. stage[c] \in InBody /\ stage[c] \notin Ended /\ ran[c] > 0
      BY <1>2, Types DEF InBody, Ended
    <2>2. (Goto(c, "body") /\ Keep) \/ Answered(c, "failed")
      BY <1>2 DEF Apply
    <2>3. /\ Honest("failed", ran[c]) /\ "failed" \in Results
          /\ "body" \in Calm /\ "body" \notin Ended /\ "body" \notin Early
      BY DEF Honest, Results, Errors, Calm, Stages, Waits, InBody, Ended, Early
    <2> QED
      BY <2>1, <2>2, <2>3, GoMoves, AnsweredMoves
  <1> QED
    BY <1>1, <1>2

---------------------------------------------------------------------------
(* The steps, by what they log.                                            *)

Outcomes == Answers \cup {"cancelled"}

Quiet ==
  /\ UNCHANGED <<log, waiting, prompts>>
  /\ \E c \in Calls : stage[c] \notin Waits /\ Moves(c, Calm)

Idle ==
  /\ UNCHANGED <<log, waiting, stage, result, attempt, ran>>
  /\ prompts' \subseteq prompts

(* A question that is decided at once.                                     *)
DecidesAtOnce(c, o) ==
  /\ stage[c] \notin Waits
  /\ o \in Grants => Policy # "never"
  /\ log' = log \o <<Asked(c), Decided(c, o)>>
  /\ UNCHANGED <<waiting, prompts>> /\ Moves(c, Calm)

(* A question that becomes a prompt.                                       *)
Prompts(c) ==
  /\ stage[c] \notin Waits /\ Policy # "never"
  /\ log' = log \o <<Asked(c)>>
  /\ waiting' = [waiting EXCEPT ![c] = Len(log')]
  /\ prompts' = prompts \cup {[id |-> Len(log'), call |-> c]}
  /\ Moves(c, Waits)

(* A prompt that is answered or withdrawn.                                 *)
DecidesLater(c, o, given) ==
  /\ waiting[c] # 0 /\ waiting' = [waiting EXCEPT ![c] = 0]
  /\ prompts' \subseteq prompts
  /\ given = <<Switch("always-allow", "grant"), Decided(c, "allowed-for-session")>>
     \/ (o # "allowed-for-session" /\ given = <<Decided(c, o)>>)
  /\ log' = log \o given
  /\ Moves(c, Calm)

Switches(p) ==
  /\ log' = log \o <<Switch(p, "user")>>
  /\ UNCHANGED <<waiting, prompts, stage, result, attempt, ran>>

Cases ==
  \/ Quiet \/ Idle
  \/ \E c \in Calls : \/ Prompts(c)
                      \/ \E o \in Outcomes : DecidesAtOnce(c, o)
                      \/ \E o \in Outcomes : \E given : DecidesLater(c, o, given)
  \/ \E p \in Policies : Switches(p)

(* A question asks, and is decided at once or becomes a prompt.            *)
LEMMA RequestCases ==
  ASSUME Ready, log \in Seq(Entry), NEW c \in Calls, NEW gate \in BOOLEAN, Request(c, gate),
         IF gate THEN stage[c] = "gate" ELSE stage[c] = "body"
  PROVE  Cases
  <1> DEFINE at == IF Withdrawn(c, gate) THEN {"cancelled"}
                   ELSE IF Policy = "never" THEN {"rejected"}
                   ELSE IF Policy = "always-allow" THEN {"allowed-once"}
                   ELSE {}
  <1>1. stage[c] \notin Waits /\ stage[c] \notin Ended
    BY DEF Waits, Ended
  <1>2. ASSUME NEW o \in at, log' = log \o <<Asked(c), Decided(c, o)>>, Apply(c, gate, o),
               UNCHANGED <<waiting, prompts>>
        PROVE  Cases
    <2>1. \/ o = "cancelled"
          \/ ~Withdrawn(c, gate) /\ Policy = "never" /\ o = "rejected"
          \/ ~Withdrawn(c, gate) /\ Policy # "never" /\ Policy = "always-allow" /\ o = "allowed-once"
      <3>1. CASE Withdrawn(c, gate)
        BY <3>1, <1>2
      <3>2. CASE ~Withdrawn(c, gate) /\ Policy = "never"
        BY <3>2, <1>2
      <3>3. CASE ~Withdrawn(c, gate) /\ Policy # "never" /\ Policy = "always-allow"
        BY <3>3, <1>2
      <3>4. CASE ~Withdrawn(c, gate) /\ Policy # "never" /\ Policy # "always-allow"
        BY <3>4, <1>2
      <3> QED
        BY <3>1, <3>2, <3>3, <3>4
    <2>2. o \in Outcomes /\ (o \in Grants => Policy # "never")
      BY <2>1 DEF Outcomes, Answers, Grants
    <2>3. Moves(c, Calm)
      BY <1>2, ApplyMoves
    <2>4. DecidesAtOnce(c, o)
      BY <1>1, <1>2, <2>2, <2>3 DEF DecidesAtOnce
    <2> QED
      BY <2>2, <2>4 DEF Cases
  <1>3. ASSUME at = {}, log' = Append(log, Asked(c)), waiting' = [waiting EXCEPT ![c] = Len(log')],
               prompts' = prompts \cup {[id |-> Len(log'), call |-> c]},
               Goto(c, IF gate THEN "asking" ELSE "escalating"), Keep
        PROVE  Cases
    <2>1. Policy # "never"
      <3>1. CASE Withdrawn(c, gate)
        BY <3>1, <1>3
      <3>2. CASE ~Withdrawn(c, gate) /\ Policy = "never"
        BY <3>2, <1>3
      <3> QED
        BY <3>1, <3>2
    <2>2. Moves(c, Waits)
      <3>1. CASE gate
        <4>1. /\ "asking" \in Waits /\ "asking" \notin Ended /\ stage[c] \in Early
              /\ Goto(c, "asking")
          BY <1>3, <3>1 DEF Waits, Ended, Early
        <4> QED
          BY <1>1, <1>3, <4>1, GoMoves
      <3>2. CASE ~gate
        <4>1. /\ "escalating" \in Waits /\ "escalating" \notin Ended /\ "escalating" \notin Early
              /\ Goto(c, "escalating") /\ ran[c] > 0
          BY <1>3, <3>2, Types DEF Waits, Ended, Early
        <4> QED
          BY <1>1, <1>3, <4>1, GoMoves
      <3> QED
        BY <3>1, <3>2
    <2>3. Asked(c) \in Entry
      BY DEF Asked, Entry
    <2>4. log' = log \o <<Asked(c)>>
      BY <1>3, <2>3, AppendIsConcat
    <2>5. Prompts(c)
      BY <1>1, <1>3, <2>1, <2>2, <2>4 DEF Prompts
    <2> QED
      BY <2>5 DEF Cases
  <1>4. \/ \E o \in at : /\ log' = log \o <<Asked(c), Decided(c, o)>>
                         /\ Apply(c, gate, o) /\ UNCHANGED <<waiting, prompts>>
        \/ /\ at = {} /\ log' = Append(log, Asked(c))
           /\ waiting' = [waiting EXCEPT ![c] = Len(log')]
           /\ prompts' = prompts \cup {[id |-> Len(log'), call |-> c]}
           /\ Goto(c, IF gate THEN "asking" ELSE "escalating") /\ Keep
    BY DEF Request
  <1> QED
    BY <1>2, <1>3, <1>4

(* A prompt is answered or withdrawn.                                      *)
LEMMA DecideCases ==
  ASSUME Ready, log \in Seq(Entry), NEW c \in Calls, NEW o \in Outcomes, Decide(c, o),
         waiting[c] # 0, prompts' \subseteq prompts
  PROVE  Cases
  <1> DEFINE gate == stage[c] = "asking"
  <1>1. stage[c] \in {"asking", "escalating"}
    BY DEF Ready, TypeOK
  <1>2. gate \in BOOLEAN /\ (IF gate THEN stage[c] \in {"gate", "asking"} ELSE stage[c] \in {"body", "escalating"})
    BY <1>1
  <1>3. Apply(c, gate, o) /\ waiting' = [waiting EXCEPT ![c] = 0]
    BY DEF Decide
  <1> HIDE DEF gate
  <1>4. Moves(c, Calm)
    BY <1>2, <1>3, ApplyMoves
  <1>5. Decided(c, o) \in Entry /\ Switch("always-allow", "grant") \in Entry
    BY DEF Decided, Switch, Entry, Outcomes, Answers, Grants, Policies
  <1>6. CASE o = "allowed-for-session"
    <2>1. log' = log \o <<Switch("always-allow", "grant")>> \o <<Decided(c, o)>>
      BY <1>6 DEF Decide
    <2>2. log' = log \o <<Switch("always-allow", "grant"), Decided(c, "allowed-for-session")>>
      BY <1>5, <1>6, <2>1
    <2>3. DecidesLater(c, o, <<Switch("always-allow", "grant"), Decided(c, "allowed-for-session")>>)
      BY <1>3, <1>4, <2>2 DEF DecidesLater
    <2> QED
      BY <2>3 DEF Cases
  <1>7. CASE o # "allowed-for-session"
    <2>1. log' = log \o <<>> \o <<Decided(c, o)>>
      BY <1>7 DEF Decide
    <2>2. log' = log \o <<Decided(c, o)>>
      BY <1>5, <2>1
    <2>3. DecidesLater(c, o, <<Decided(c, o)>>)
      BY <1>3, <1>4, <1>7, <2>2 DEF DecidesLater
    <2> QED
      BY <2>3 DEF Cases
  <1> QED
    BY <1>6, <1>7

LEMMA QuietCase ==
  ASSUME NEW c \in Calls, UNCHANGED <<log, waiting, prompts>>, stage[c] \notin Waits, Moves(c, Calm)
  PROVE  Cases
  BY DEF Quiet, Cases

(* Every step is one of these.                                             *)
LEMMA StepCases ==
  ASSUME Ready, log \in Seq(Entry), QuestionsAreOpen, [Next]_vars
  PROVE  Cases /\ stored \subseteq stored'
  <1>1. ASSUME NEW c \in Calls, Prepare(c) PROVE Cases /\ stored \subseteq stored'
    <2>1. /\ stage[c] = "new" /\ stage[c] \notin Waits /\ stage[c] \notin Ended /\ stage[c] \in Early
          /\ UNCHANGED <<log, waiting, prompts, stored>> /\ ran[c] = 0 /\ result[c] = "none"
      BY <1>1, Types DEF Prepare, asking, Waits, Ended, Early
    <2>2. CASE aborted
      <3>1. Final(c, "before")
        BY <1>1, <2>2 DEF Prepare
      <3>2. "before" \in Results /\ Honest("before", ran[c]) /\ result[c] \notin Own
        BY <2>1 DEF Results, Errors, Honest, Own
      <3>3. Moves(c, Calm)
        BY <2>1, <3>1, <3>2, FinalMoves
      <3> QED
        BY <2>1, <3>3, QuietCase
    <2>3. CASE ~aborted
      <3>1. Goto(c, "gate") /\ Keep /\ "gate" \in Calm /\ "gate" \notin Ended
        BY <1>1, <2>3 DEF Prepare, Calm, Stages, Waits, Ended
      <3>2. Moves(c, Calm)
        BY <2>1, <3>1, GoMoves
      <3> QED
        BY <2>1, <3>2, QuietCase
    <2> QED
      BY <2>2, <2>3
  <1>2. ASSUME NEW c \in Calls, Gate(c) PROVE Cases /\ stored \subseteq stored'
    <2>1. stage[c] = "gate" /\ stage[c] \notin Waits /\ stored' = stored /\ ran[c] = 0 /\ result[c] = "none"
      BY <1>2, Types DEF Gate, Waits, Early, Ended
    <2>2. CASE Request(c, TRUE)
      BY <2>1, <2>2, RequestCases
    <2>3. CASE (Permit(c) \/ Final(c, "failed")) /\ UNCHANGED <<log, waiting, prompts>>
      <3>1. Permit(c) => Moves(c, Calm)
        BY <2>1, PermitMoves
      <3>2. "failed" \in Results /\ Honest("failed", ran[c]) /\ result[c] \notin Own
        BY <2>1 DEF Results, Errors, Honest, Own
      <3>3. Final(c, "failed") => Moves(c, Calm)
        BY <2>1, <3>2, FinalMoves
      <3> QED
        BY <2>1, <2>3, <3>1, <3>3, QuietCase
    <2> QED
      BY <1>2, <2>2, <2>3 DEF Gate
  <1>3. ASSUME NEW c \in Calls, Dispatch(c) PROVE Cases /\ stored \subseteq stored'
    <2>1. /\ stage[c] = "ready" /\ stage[c] \notin Waits /\ stage[c] \notin Ended /\ stage[c] \in Early
          /\ UNCHANGED <<log, waiting, prompts, stored>>
      BY <1>3 DEF Dispatch, asking, Waits, Ended, Early
    <2>2. /\ "ok" \in Results /\ Honest("ok", ran[c]) /\ "flush" \in Calm /\ "flush" \notin Ended
      BY DEF Results, Honest, Calm, Stages, Waits, InBody, Ended
    <2>3. After(c, "ok") \/ (Goto(c, "flush") /\ Keep)
      BY <1>3 DEF Dispatch
    <2>4. Moves(c, Calm)
      BY <2>1, <2>2, <2>3, AfterMoves, GoMoves
    <2> QED
      BY <2>1, <2>4, QuietCase
  <1>4. ASSUME NEW c \in Calls, Checkpoint(c) PROVE Cases /\ stored \subseteq stored'
    <2>1. /\ stage[c] = "flush" /\ stage[c] \notin Waits /\ stage[c] \in InBody /\ ran[c] = 0
          /\ UNCHANGED <<log, waiting, prompts>> /\ stored' = stored \cup {c}
      BY <1>4, Types DEF Checkpoint, asking, Waits, Early, InBody
    <2>2. Honest("before", ran[c]) /\ "before" \in Results
      BY <2>1 DEF Honest, Results, Errors
    <2>3. Answered(c, "before") \/ (Invoke(c) /\ UNCHANGED attempt)
      BY <1>4 DEF Checkpoint
    <2>4. Moves(c, Calm)
      BY <2>1, <2>2, <2>3, AnsweredMoves, InvokeMoves
    <2> QED
      BY <2>1, <2>4, QuietCase
  <1>5. ASSUME NEW c \in Calls, CheckpointFails(c) PROVE Cases /\ stored \subseteq stored'
    <2>1. /\ stage[c] = "flush" /\ stage[c] \notin Waits /\ stage[c] \in InBody /\ result[c] = "none"
          /\ UNCHANGED <<log, waiting, prompts, stored>>
      BY <1>5, Types DEF CheckpointFails, asking, Waits, Ended, InBody
    <2>2. Honest("failed", ran[c]) /\ "failed" \in Results /\ result[c] \notin Own
      BY <2>1 DEF Honest, Results, Errors, Own
    <2>3. Final(c, "failed") \/ Retry(c, "failed")
      BY <1>5 DEF CheckpointFails
    <2>4. Moves(c, Calm)
      BY <2>1, <2>2, <2>3, FinalMoves, RetryMoves
    <2> QED
      BY <2>1, <2>4, QuietCase
  <1>6. ASSUME NEW c \in Calls, Settle(c) PROVE Cases /\ stored \subseteq stored'
    <2>1. /\ stage[c] = "body" /\ stage[c] \notin Waits /\ stage[c] \in InBody /\ ran[c] > 0
          /\ UNCHANGED <<log, waiting, prompts, stored>>
      BY <1>6, Types DEF Settle, asking, Waits, InBody
    <2>2. \E r \in {"ok", "failed", "aborted"} : Answered(c, r)
      BY <1>6 DEF Settle
    <2>3. ASSUME NEW r \in {"ok", "failed", "aborted"} PROVE r \in Results /\ Honest(r, ran[c])
      BY <2>1 DEF Results, Errors, Honest
    <2>4. Moves(c, Calm)
      BY <2>1, <2>2, <2>3, AnsweredMoves
    <2> QED
      BY <2>1, <2>4, QuietCase
  <1>7. ASSUME NEW c \in Calls, Withdraw(c) PROVE Cases /\ stored \subseteq stored'
    <2>1. /\ waiting[c] # 0 /\ Decide(c, "cancelled") /\ prompts' = prompts /\ stored' = stored
          /\ "cancelled" \in Outcomes
      BY <1>7 DEF Withdraw, Outcomes
    <2> QED
      BY <2>1, DecideCases
  <1>8. ASSUME NEW c \in Calls, Finalize(c) PROVE Cases /\ stored \subseteq stored'
    <2>1. /\ stage[c] = "after" /\ stage[c] \notin Waits /\ UNCHANGED <<log, waiting, prompts, stored>>
      BY <1>8 DEF Finalize, asking, Waits
    <2> PICK r \in {result[c], "failed"} : Final(c, Code(c, r))
      BY <1>8 DEF Finalize
    <2>2. r \in Results /\ Honest(r, ran[c]) /\ (result[c] \in Own => r \in Own)
      BY Types DEF Results, Errors, Honest, Own
    <2>3. /\ Code(c, r) \in Results /\ Honest(Code(c, r), ran[c])
          /\ r \in Own => Code(c, r) = r
          /\ aborted => Code(c, r) # "ok"
      BY <2>2, CodeIsLawful
    <2>4. Moves(c, Calm)
      BY <2>1, <2>2, <2>3, FinalMoves
    <2> QED
      BY <2>1, <2>4, QuietCase
  <1>9. ASSUME NEW c \in Calls, Escalate(c) PROVE Cases /\ stored \subseteq stored'
    <2>1. stage[c] = "body" /\ Request(c, FALSE) /\ stored' = stored
      BY <1>9 DEF Escalate
    <2> QED
      BY <2>1, RequestCases
  <1>10. ASSUME NEW c \in Calls, Timeout(c) PROVE Cases /\ stored \subseteq stored'
    BY <1>10 DEF Timeout, asking, Idle, Cases
  <1>11. ASSUME NEW p \in prompts, NEW o \in Answers, Answer(p, o) PROVE Cases /\ stored \subseteq stored'
    <2>1. p.call \in Calls /\ p.id # 0 /\ stored' = stored /\ prompts' \subseteq prompts /\ o \in Outcomes
      BY <1>11 DEF Ready, TypeOK, QuestionsAreOpen, Answer, Outcomes
    <2>2. CASE waiting[p.call] = p.id
      <3>1. Decide(p.call, o) /\ waiting[p.call] # 0
        BY <1>11, <2>1, <2>2 DEF Answer
      <3> QED
        BY <2>1, <3>1, DecideCases
    <2>3. CASE waiting[p.call] # p.id
      BY <1>11, <2>1, <2>3 DEF Answer, Idle, Cases
    <2> QED
      BY <2>2, <2>3
  <1>12. ASSUME NEW p \in Policies, UserSwitches(p) PROVE Cases /\ stored \subseteq stored'
    <2>1. Switch(p, "user") \in Entry
      BY DEF Switch, Entry
    <2>2. log' = log \o <<Switch(p, "user")>>
      BY <1>12, <2>1, AppendIsConcat DEF UserSwitches
    <2>3. Switches(p) /\ stored' = stored
      BY <1>12, <2>2 DEF UserSwitches, Switches
    <2> QED
      BY <2>3 DEF Cases
  <1>13. CASE Abort
    BY <1>13 DEF Abort, asking, Idle, Cases
  <1>14. CASE UNCHANGED vars
    BY <1>14 DEF vars, asking, Idle, Cases
  <1> QED
    BY <1>1, <1>2, <1>3, <1>4, <1>5, <1>6, <1>7, <1>8, <1>9, <1>10, <1>11, <1>12, <1>13, <1>14
       DEF Next, Step

---------------------------------------------------------------------------
(* The log as it grows.                                                    *)

PolicyIn(s, i) ==
  LET switched == {j \in {k \in DOMAIN s : s[k].op = "policy"} : j <= i}
  IN IF switched = {} THEN "ask" ELSE s[CHOOSE j \in switched : \A k \in switched : k <= j].policy

AsksIn(s, c) == {i \in DOMAIN s : s[i].op = "asked" /\ s[i].call = c}
DecsIn(s, c) == {i \in DOMAIN s : s[i].op = "decided" /\ s[i].call = c}

LEMMA LogReads ==
  /\ \A i : PolicyAt(i) = PolicyIn(log, i) /\ PolicyAt(i)' = PolicyIn(log', i)
  /\ \A c : Asks(c) = AsksIn(log, c) /\ Asks(c)' = AsksIn(log', c)
  /\ Policy = PolicyIn(log, Len(log))
  /\ Events("decided") = {i \in DOMAIN log : log[i].op = "decided"}
  /\ Events("decided")' = {i \in DOMAIN log' : log'[i].op = "decided"}
  <1>3. \A i : PolicyAt(i) = PolicyIn(log, i)
    BY DEF PolicyAt, PolicyIn, Events
  <1>4. \A i : PolicyAt(i)' = PolicyIn(log', i)
    BY DEF PolicyAt, PolicyIn, Events
  <1>5. \A c : Asks(c) = AsksIn(log, c) /\ Asks(c)' = AsksIn(log', c)
    BY DEF Asks, AsksIn, Events
  <1> QED
    BY <1>3, <1>4, <1>5 DEF Policy, Events

(* A set of positions that is not empty has a last one.                    *)
LEMMA LastExists ==
  ASSUME NEW n \in Nat, NEW S \in SUBSET (1 .. n), S # {}
  PROVE  \E i \in S : \A j \in S : j <= i
  <1> DEFINE T == {n - i : i \in S}
             R == OpToRel(<, Nat)
  <1>1. T \subseteq Nat /\ T # {}
    <2>1. \A i \in S : n - i \in Nat
      OBVIOUS
    <2>2. PICK i \in S : TRUE
      OBVIOUS
    <2>3. n - i \in T
      BY <2>2
    <2> QED
      BY <2>1, <2>3
  <1>2. IsWellFoundedOn(R, Nat)
    BY NatLessThanWellFounded
  <1>3. \A x, y \in Nat : x < y => <<x, y>> \in R
    BY DEF OpToRel
  <1> HIDE DEF R
  <1>4. \E x \in T : \A y \in T : ~(<<y, x>> \in R)
    <2> HIDE DEF T
    <2> QED
      BY <1>1, <1>2, WFMin
  <1>5. \E x \in T : \A y \in T : x <= y
    <2> PICK x \in T : \A y \in T : ~(<<y, x>> \in R)
      BY <1>4
    <2> HIDE DEF T
    <2>1. ASSUME NEW y \in T PROVE x <= y
      <3>1. x \in Nat /\ y \in Nat
        BY <1>1
      <3>2. <<y, x>> \notin R
        OBVIOUS
      <3>3. ~(y < x)
        BY <1>3, <3>1, <3>2
      <3> QED
        BY <3>1, <3>3
    <2> QED
      BY <2>1
  <1>6. PICK i \in S : \A y \in T : n - i <= y
    BY <1>5
  <1>7. ASSUME NEW j \in S PROVE j <= i
    BY <1>6
  <1> QED
    BY <1>6, <1>7

(* What is appended is behind what was there.                              *)
LEMMA Grown ==
  ASSUME NEW s \in Seq(Entry), NEW g \in Seq(Entry)
  PROVE  /\ s \o g \in Seq(Entry) /\ Len(s) \in Nat /\ Len(g) \in Nat
         /\ Len(s \o g) = Len(s) + Len(g)
         /\ DOMAIN s = 1 .. Len(s) /\ DOMAIN (s \o g) = 1 .. (Len(s) + Len(g))
         /\ \A i \in 1 .. Len(s) : (s \o g)[i] = s[i]
         /\ \A i \in 1 .. Len(g) : (s \o g)[Len(s) + i] = g[i]
  <1>1. /\ s \o g \in Seq(Entry) /\ Len(s) \in Nat /\ Len(g) \in Nat
        /\ Len(s \o g) = Len(s) + Len(g)
        /\ \A i \in 1 .. (Len(s) + Len(g)) : (s \o g)[i] = IF i <= Len(s) THEN s[i] ELSE g[i - Len(s)]
    BY ConcatProperties
  <1>2. DOMAIN s = 1 .. Len(s) /\ DOMAIN (s \o g) = 1 .. (Len(s) + Len(g))
    BY <1>1
  <1>3. \A i \in 1 .. Len(s) : (s \o g)[i] = s[i]
    BY <1>1
  <1>4. ASSUME NEW i \in 1 .. Len(g) PROVE (s \o g)[Len(s) + i] = g[i]
    <2>1. Len(s) + i \in 1 .. (Len(s) + Len(g)) /\ ~(Len(s) + i <= Len(s)) /\ Len(s) + i - Len(s) = i
      BY <1>1
    <2> QED
      BY <1>1, <2>1
  <1> QED
    BY <1>1, <1>2, <1>3, <1>4

(* The policy of a position is not changed by what is appended, and is the *)
(* one of a later position if nothing switches between them.               *)
LEMMA PolicyKept ==
  ASSUME NEW s \in Seq(Entry), NEW g \in Seq(Entry), NEW i \in 0 .. Len(s),
         NEW k \in i .. Len(s \o g), \A j \in (i + 1) .. k : (s \o g)[j].op # "policy"
  PROVE  PolicyIn(s \o g, k) = PolicyIn(s, i)
  <1> DEFINE t == s \o g
             old == {j \in {l \in DOMAIN s : s[l].op = "policy"} : j <= i}
             new == {j \in {l \in DOMAIN t : t[l].op = "policy"} : j <= k}
  <1>1. /\ Len(s) \in Nat /\ DOMAIN s = 1 .. Len(s) /\ Len(g) \in Nat
        /\ DOMAIN t = 1 .. (Len(s) + Len(g)) /\ Len(t) = Len(s) + Len(g)
        /\ \A j \in 1 .. Len(s) : t[j] = s[j]
    BY Grown
  <1>2. \A j \in (i + 1) .. k : t[j].op # "policy"
    OBVIOUS
  <1>3. i \in Nat /\ k \in Nat /\ i <= k /\ i <= Len(s)
    BY <1>1
  <1> HIDE DEF t
  <1>4. old = new
    <2>1. ASSUME NEW j \in old PROVE j \in new
      BY <1>1, <1>3
    <2>2. ASSUME NEW j \in new PROVE j \in old
      <3>1. j \in Nat /\ 1 <= j /\ j <= k /\ t[j].op = "policy"
        BY <1>1
      <3>2. j <= i
        BY <1>2, <1>3, <3>1
      <3> QED
        BY <1>1, <1>3, <3>1, <3>2
    <2> QED
      BY <2>1, <2>2
  <1>5. CASE old = {}
    BY <1>4, <1>5 DEF PolicyIn, t
  <1>6. CASE old # {}
    <2> DEFINE last == CHOOSE j \in old : \A l \in old : l <= j
    <2>1. old \in SUBSET (1 .. Len(s))
      BY <1>1
    <2>2. \E j \in old : \A l \in old : l <= j
      <3> HIDE DEF old
      <3> QED
        BY <1>1, <1>6, <2>1, LastExists
    <2>3. last \in old
      BY <2>2
    <2>4. PolicyIn(s, i) = s[last].policy
      BY <1>6 DEF PolicyIn
    <2>5. PolicyIn(t, k) = t[last].policy
      BY <1>4, <1>6 DEF PolicyIn
    <2> HIDE DEF last
    <2>6. t[last] = s[last]
      BY <1>1, <2>3
    <2> QED
      BY <2>4, <2>5, <2>6 DEF t
  <1> QED
    BY <1>5, <1>6

(* Questions and decisions are counted one by one.                         *)
LEMMA OneMore ==
  ASSUME NEW s \in Seq(Entry), NEW e \in Entry, NEW c \in Calls
  PROVE  /\ AsksIn(s \o <<e>>, c) = IF e.op = "asked" /\ e.call = c
                                    THEN AsksIn(s, c) \cup {Len(s) + 1} ELSE AsksIn(s, c)
         /\ Cardinality(AsksIn(s, c)) \in Nat /\ Cardinality(DecsIn(s, c)) \in Nat
         /\ Cardinality(AsksIn(s \o <<e>>, c)) =
              IF e.op = "asked" /\ e.call = c THEN Cardinality(AsksIn(s, c)) + 1
              ELSE Cardinality(AsksIn(s, c))
         /\ Cardinality(DecsIn(s \o <<e>>, c)) =
              IF e.op = "decided" /\ e.call = c THEN Cardinality(DecsIn(s, c)) + 1
              ELSE Cardinality(DecsIn(s, c))
  <1> DEFINE n == Len(s)
             t == s \o <<e>>
  <1>1. /\ n \in Nat /\ DOMAIN s = 1 .. n /\ DOMAIN t = 1 .. (n + 1) /\ t[n + 1] = e
        /\ \A i \in 1 .. n : t[i] = s[i]
    <2>1. <<e>> \in Seq(Entry) /\ Len(<<e>>) = 1 /\ <<e>>[1] = e
      OBVIOUS
    <2> QED
      BY <2>1, Grown
  <1> HIDE DEF n, t
  <1>2. n + 1 \notin AsksIn(s, c) /\ n + 1 \notin DecsIn(s, c)
    BY <1>1 DEF AsksIn, DecsIn
  <1>3. AsksIn(t, c) = IF e.op = "asked" /\ e.call = c THEN AsksIn(s, c) \cup {n + 1} ELSE AsksIn(s, c)
    BY <1>1 DEF AsksIn
  <1>4. DecsIn(t, c) = IF e.op = "decided" /\ e.call = c THEN DecsIn(s, c) \cup {n + 1} ELSE DecsIn(s, c)
    BY <1>1 DEF DecsIn
  <1>5. IsFiniteSet(1 .. n)
    BY <1>1, FS_Interval
  <1>6. AsksIn(s, c) \in SUBSET (1 .. n) /\ DecsIn(s, c) \in SUBSET (1 .. n)
    BY <1>1 DEF AsksIn, DecsIn
  <1>7. IsFiniteSet(AsksIn(s, c)) /\ IsFiniteSet(DecsIn(s, c))
    BY <1>5, <1>6, FS_Subset
  <1>8. Cardinality(AsksIn(s, c)) \in Nat /\ Cardinality(DecsIn(s, c)) \in Nat
    BY <1>7, FS_CardinalityType
  <1>9. /\ Cardinality(AsksIn(s, c) \cup {n + 1}) = Cardinality(AsksIn(s, c)) + 1
        /\ Cardinality(DecsIn(s, c) \cup {n + 1}) = Cardinality(DecsIn(s, c)) + 1
    BY <1>2, <1>7, FS_AddElement
  <1> QED
    BY <1>3, <1>4, <1>8, <1>9 DEF n, t

(* The same for an entry of each kind.                                     *)
LEMMA OneAsked ==
  ASSUME NEW s \in Seq(Entry), NEW e \in Entry, NEW c, NEW d \in Calls, e.op = "asked", e.call = c
  PROVE  /\ Cardinality(AsksIn(s \o <<e>>, d)) =
              IF d = c THEN Cardinality(AsksIn(s, d)) + 1 ELSE Cardinality(AsksIn(s, d))
         /\ Cardinality(DecsIn(s \o <<e>>, d)) = Cardinality(DecsIn(s, d))
  <1>1. e.op # "decided"
    OBVIOUS
  <1>2. CASE d = c
    <2>1. e.op = "asked" /\ e.call = d
      BY <1>2
    <2> QED
      BY <1>1, <1>2, <2>1, OneMore
  <1>3. CASE d # c
    <2>1. e.call # d
      BY <1>3
    <2> QED
      BY <1>1, <1>3, <2>1, OneMore
  <1> QED
    BY <1>2, <1>3

LEMMA OneDecided ==
  ASSUME NEW s \in Seq(Entry), NEW e \in Entry, NEW c, NEW d \in Calls, e.op = "decided", e.call = c
  PROVE  /\ AsksIn(s \o <<e>>, d) = AsksIn(s, d)
         /\ Cardinality(DecsIn(s \o <<e>>, d)) =
              IF d = c THEN Cardinality(DecsIn(s, d)) + 1 ELSE Cardinality(DecsIn(s, d))
  <1>1. e.op # "asked"
    OBVIOUS
  <1>2. CASE d = c
    <2>1. e.op = "decided" /\ e.call = d
      BY <1>2
    <2> QED
      BY <1>1, <1>2, <2>1, OneMore
  <1>3. CASE d # c
    <2>1. e.call # d
      BY <1>3
    <2> QED
      BY <1>1, <1>3, <2>1, OneMore
  <1> QED
    BY <1>2, <1>3

LEMMA OneSwitch ==
  ASSUME NEW s \in Seq(Entry), NEW e \in Entry, NEW d \in Calls, e.op = "policy"
  PROVE  /\ AsksIn(s \o <<e>>, d) = AsksIn(s, d)
         /\ Cardinality(DecsIn(s \o <<e>>, d)) = Cardinality(DecsIn(s, d))
  <1>1. e.op # "asked" /\ e.op # "decided"
    OBVIOUS
  <1> QED
    BY <1>1, OneMore

(* Two entries are appended one after the other.                           *)
LEMMA TwoMore ==
  ASSUME NEW s \in Seq(Entry), NEW e \in Entry, NEW f \in Entry
  PROVE  s \o <<e, f>> = (s \o <<e>>) \o <<f>> /\ s \o <<e>> \in Seq(Entry)
  <1>1. <<e>> \in Seq(Entry) /\ <<f>> \in Seq(Entry)
    OBVIOUS
  <1>2. <<e>> \o <<f>> = <<e, f>>
    <2> DEFINE a == <<e>> \o <<f>>
    <2>1. a \in Seq(Entry) /\ Len(a) = 2 /\ a[1] = e /\ a[2] = f
      BY <1>1, ConcatProperties
    <2>2. <<e, f>> \in Seq(Entry) /\ Len(<<e, f>>) = 2 /\ <<e, f>>[1] = e /\ <<e, f>>[2] = f
      OBVIOUS
    <2> HIDE DEF a
    <2>3. \A i \in 1 .. Len(a) : a[i] = <<e, f>>[i]
      BY <2>1, <2>2
    <2>4. a = <<e, f>>
      BY <2>1, <2>2, <2>3, SeqEqual
    <2> QED
      BY <2>4 DEF a
  <1>3. s \o <<e>> \in Seq(Entry)
    BY <1>1, ConcatProperties
  <1>4. (s \o <<e>>) \o <<f>> = s \o (<<e>> \o <<f>>)
    BY <1>1, ConcatAssociative
  <1> QED
    BY <1>2, <1>3, <1>4

---------------------------------------------------------------------------
(* What a step appends, by the entries' kinds.                             *)

NothingMore(g) == g = <<>> /\ UNCHANGED waiting

AtOnce(g, c, e, f) ==
  /\ g = <<e, f>> /\ waiting[c] = 0 /\ UNCHANGED waiting
  /\ e.op = "asked" /\ e.call = c /\ f.op = "decided" /\ f.call = c
  /\ f.outcome \in Grants => Policy # "never"

Asking(g, c, e) ==
  /\ g = <<e>> /\ e.op = "asked" /\ e.call = c
  /\ waiting[c] = 0 /\ Policy # "never" /\ waiting' = [waiting EXCEPT ![c] = Len(log) + 1]

Later(g, c, f) ==
  /\ g = <<f>> /\ f.op = "decided" /\ f.call = c
  /\ waiting[c] # 0 /\ waiting' = [waiting EXCEPT ![c] = 0]

Granting(g, c, e, f) ==
  /\ g = <<e, f>> /\ e.op = "policy" /\ f.op = "decided" /\ f.call = c
  /\ f.outcome = "allowed-for-session"
  /\ waiting[c] # 0 /\ waiting' = [waiting EXCEPT ![c] = 0]

Switching(g, e) == g = <<e>> /\ e.op = "policy" /\ e.by = "user" /\ UNCHANGED waiting

Growth(g) ==
  \/ NothingMore(g)
  \/ \E e \in Entry : Switching(g, e)
  \/ \E c \in Calls, e \in Entry, f \in Entry :
       AtOnce(g, c, e, f) \/ Asking(g, c, e) \/ Later(g, c, f) \/ Granting(g, c, e, f)

LEMMA AskedIsEntry ==
  ASSUME NEW c \in Calls
  PROVE  Asked(c) \in Entry /\ Asked(c).op = "asked" /\ Asked(c).call = c
  BY DEF Asked, Entry

LEMMA DecidedIsEntry ==
  ASSUME NEW c \in Calls, NEW o \in Outcomes
  PROVE  /\ Decided(c, o) \in Entry /\ Decided(c, o).op = "decided"
         /\ Decided(c, o).call = c /\ Decided(c, o).outcome = o
  BY DEF Decided, Entry, Outcomes

LEMMA SwitchIsEntry ==
  ASSUME NEW p \in Policies, NEW by \in {"grant", "user"}
  PROVE  Switch(p, by) \in Entry /\ Switch(p, by).op = "policy" /\ Switch(p, by).by = by
  BY DEF Switch, Entry

(* One or two entries are appended.                                        *)
LEMMA Appended ==
  ASSUME log \in Seq(Entry), TypeOK, Cases
  PROVE  \E g \in Seq(Entry) : log' = log \o g /\ Growth(g)
  <1>1. CASE Quiet \/ Idle
    <2>1. log' = log /\ waiting' = waiting
      BY <1>1 DEF Quiet, Idle
    <2>2. <<>> \in Seq(Entry) /\ log' = log \o <<>>
      BY <2>1
    <2> QED
      BY <2>1, <2>2 DEF Growth, NothingMore
  <1>2. ASSUME NEW c \in Calls, NEW o \in Outcomes, DecidesAtOnce(c, o)
        PROVE  \E g \in Seq(Entry) : log' = log \o g /\ Growth(g)
    <2> DEFINE e == Asked(c)
               f == Decided(c, o)
    <2>1. e \in Entry /\ e.op = "asked" /\ e.call = c
      BY AskedIsEntry
    <2>2. f \in Entry /\ f.op = "decided" /\ f.call = c /\ f.outcome = o
      BY DecidedIsEntry
    <2>3. /\ log' = log \o <<e, f>> /\ waiting' = waiting /\ (o \in Grants => Policy # "never")
          /\ waiting[c] = 0
      BY <1>2 DEF DecidesAtOnce, TypeOK, Waits
    <2> HIDE DEF e, f
    <2>4. AtOnce(<<e, f>>, c, e, f)
      BY <2>1, <2>2, <2>3 DEF AtOnce
    <2>5. <<e, f>> \in Seq(Entry)
      BY <2>1, <2>2
    <2> QED
      BY <2>1, <2>2, <2>3, <2>4, <2>5 DEF Growth
  <1>3. ASSUME NEW c \in Calls, Prompts(c)
        PROVE  \E g \in Seq(Entry) : log' = log \o g /\ Growth(g)
    <2> DEFINE e == Asked(c)
    <2>1. e \in Entry /\ e.op = "asked" /\ e.call = c
      BY AskedIsEntry
    <2>2. log' = log \o <<e>> /\ Policy # "never" /\ waiting' = [waiting EXCEPT ![c] = Len(log')]
      BY <1>3 DEF Prompts
    <2>3. waiting[c] = 0
      BY <1>3 DEF Prompts, TypeOK, Waits
    <2> HIDE DEF e
    <2>4. <<e>> \in Seq(Entry) /\ Len(<<e>>) = 1
      BY <2>1
    <2>5. Len(log') = Len(log) + 1
      BY <2>2, <2>4, Grown
    <2>6. Asking(<<e>>, c, e)
      BY <2>1, <2>2, <2>3, <2>5 DEF Asking
    <2> QED
      BY <2>1, <2>2, <2>4, <2>6 DEF Growth
  <1>4. ASSUME NEW c \in Calls, NEW o \in Outcomes, NEW given, DecidesLater(c, o, given)
        PROVE  \E g \in Seq(Entry) : log' = log \o g /\ Growth(g)
    <2> DEFINE e == Switch("always-allow", "grant")
               f == Decided(c, "allowed-for-session")
               h == Decided(c, o)
    <2>1. e \in Entry /\ e.op = "policy"
      BY SwitchIsEntry DEF Policies
    <2>2. f \in Entry /\ f.op = "decided" /\ f.call = c /\ f.outcome = "allowed-for-session"
      BY DecidedIsEntry DEF Outcomes, Answers, Grants
    <2>3. h \in Entry /\ h.op = "decided" /\ h.call = c
      BY DecidedIsEntry
    <2>4. /\ log' = log \o given /\ waiting[c] # 0 /\ waiting' = [waiting EXCEPT ![c] = 0]
          /\ given = <<e, f>> \/ given = <<h>>
      BY <1>4 DEF DecidesLater
    <2> HIDE DEF e, f, h
    <2>5. <<e, f>> \in Seq(Entry) /\ <<h>> \in Seq(Entry)
      BY <2>1, <2>2, <2>3
    <2>6. CASE given = <<e, f>>
      <3>1. Granting(given, c, e, f)
        BY <2>1, <2>2, <2>4, <2>6 DEF Granting
      <3> QED
        BY <2>1, <2>2, <2>4, <2>5, <2>6, <3>1 DEF Growth
    <2>7. CASE given = <<h>>
      <3>1. Later(given, c, h)
        BY <2>3, <2>4, <2>7 DEF Later
      <3> QED
        BY <2>1, <2>3, <2>4, <2>5, <2>7, <3>1 DEF Growth
    <2> QED
      BY <2>4, <2>6, <2>7
  <1>5. ASSUME NEW p \in Policies, Switches(p)
        PROVE  \E g \in Seq(Entry) : log' = log \o g /\ Growth(g)
    <2> DEFINE e == Switch(p, "user")
    <2>1. e \in Entry /\ e.op = "policy" /\ e.by = "user"
      BY SwitchIsEntry
    <2>2. log' = log \o <<e>> /\ waiting' = waiting
      BY <1>5 DEF Switches
    <2> HIDE DEF e
    <2>3. <<e>> \in Seq(Entry) /\ Switching(<<e>>, e)
      BY <2>1, <2>2 DEF Switching
    <2> QED
      BY <2>1, <2>2, <2>3 DEF Growth
  <1> QED
    BY <1>1, <1>2, <1>3, <1>4, <1>5 DEF Cases

---------------------------------------------------------------------------
(* What every step keeps.                                                  *)

(* Every question has its decision, or its call waits.                     *)
LEMMA AuditStep ==
  ASSUME log \in Seq(Entry), TypeOK, AuditPaired,
         NEW g \in Seq(Entry), log' = log \o g, Growth(g)
  PROVE  AuditPaired'
  <1> DEFINE Open(w, d) == IF w[d] # 0 THEN 1 ELSE 0
             A(d) == Cardinality(AsksIn(log, d))
             D(d) == Cardinality(DecsIn(log, d))
             A1(d) == Cardinality(AsksIn(log', d))
             D1(d) == Cardinality(DecsIn(log', d))
  <1>1. \A d \in Calls : A(d) = D(d) + Open(waiting, d)
    <2>1. \A d : /\ {i \in Events("asked") : log[i].call = d} = AsksIn(log, d)
                 /\ {i \in Events("decided") : log[i].call = d} = DecsIn(log, d)
      BY DEF Events, AsksIn, DecsIn
    <2> QED
      BY <2>1 DEF AuditPaired
  <1>2. ASSUME \A d \in Calls : A1(d) = D1(d) + Open(waiting', d) PROVE AuditPaired'
    <2>1. \A d : /\ {i \in Events("asked") : log[i].call = d}' = AsksIn(log', d)
                 /\ {i \in Events("decided") : log[i].call = d}' = DecsIn(log', d)
      BY DEF Events, AsksIn, DecsIn
    <2> QED
      BY <1>2, <2>1 DEF AuditPaired
  <1>4. \A d \in Calls : A(d) \in Nat /\ D(d) \in Nat
    <2>1. ASSUME NEW d \in Calls PROVE A(d) \in Nat /\ D(d) \in Nat
      <3>1. Asked(d) \in Entry
        BY AskedIsEntry
      <3> QED
        BY <3>1, OneMore
    <2> QED
      BY <2>1
  <1>5. waiting \in [Calls -> Nat]
    BY DEF TypeOK
  <1>6. CASE NothingMore(g)
    <2>1. log' = log /\ waiting' = waiting
      BY <1>6 DEF NothingMore
    <2> QED
      BY <1>1, <1>2, <2>1
  <1>7. ASSUME NEW c \in Calls, NEW e \in Entry, NEW f \in Entry, AtOnce(g, c, e, f)
        PROVE  AuditPaired'
    <2>1. /\ g = <<e, f>> /\ waiting' = waiting
          /\ e.op = "asked" /\ e.call = c /\ f.op = "decided" /\ f.call = c
      BY <1>7 DEF AtOnce
    <2>2. log' = (log \o <<e>>) \o <<f>> /\ log \o <<e>> \in Seq(Entry)
      BY <2>1, TwoMore
    <2>3. ASSUME NEW d \in Calls
          PROVE  A1(d) = (IF d = c THEN A(d) + 1 ELSE A(d)) /\ D1(d) = (IF d = c THEN D(d) + 1 ELSE D(d))
      <3>1. /\ Cardinality(AsksIn(log \o <<e>>, d)) = IF d = c THEN A(d) + 1 ELSE A(d)
            /\ Cardinality(DecsIn(log \o <<e>>, d)) = D(d)
        BY <2>1, OneAsked
      <3>2. /\ A1(d) = Cardinality(AsksIn(log \o <<e>>, d))
            /\ D1(d) = IF d = c THEN Cardinality(DecsIn(log \o <<e>>, d)) + 1
                       ELSE Cardinality(DecsIn(log \o <<e>>, d))
        BY <2>1, <2>2, OneDecided
      <3> QED
        BY <3>1, <3>2
    <2> HIDE DEF A, D, A1, D1
    <2>4. ASSUME NEW d \in Calls PROVE A1(d) = D1(d) + Open(waiting', d)
      BY <1>1, <1>4, <2>1, <2>3
    <2> QED
      BY <1>2, <2>4
  <1>8. ASSUME NEW c \in Calls, NEW e \in Entry, Asking(g, c, e) PROVE AuditPaired'
    <2>1. /\ log' = log \o <<e>> /\ e.op = "asked" /\ e.call = c
          /\ waiting[c] = 0 /\ waiting' = [waiting EXCEPT ![c] = Len(log) + 1]
      BY <1>8 DEF Asking
    <2>2. ASSUME NEW d \in Calls
          PROVE  A1(d) = (IF d = c THEN A(d) + 1 ELSE A(d)) /\ D1(d) = D(d)
      BY <2>1, OneAsked
    <2>3. \A d \in Calls : waiting'[d] = IF d = c THEN Len(log) + 1 ELSE waiting[d]
      BY <1>5, <2>1
    <2>4. Len(log) + 1 # 0
      OBVIOUS
    <2> HIDE DEF A, D, A1, D1
    <2>5. ASSUME NEW d \in Calls PROVE A1(d) = D1(d) + Open(waiting', d)
      BY <1>1, <1>4, <2>1, <2>2, <2>3, <2>4
    <2> QED
      BY <1>2, <2>5
  <1>9. ASSUME NEW c \in Calls, NEW f \in Entry, Later(g, c, f) PROVE AuditPaired'
    <2>1. /\ log' = log \o <<f>> /\ f.op = "decided" /\ f.call = c
          /\ waiting[c] # 0 /\ waiting' = [waiting EXCEPT ![c] = 0]
      BY <1>9 DEF Later
    <2>2. ASSUME NEW d \in Calls
          PROVE  A1(d) = A(d) /\ D1(d) = (IF d = c THEN D(d) + 1 ELSE D(d))
      BY <2>1, OneDecided
    <2>3. \A d \in Calls : waiting'[d] = IF d = c THEN 0 ELSE waiting[d]
      BY <1>5, <2>1
    <2> HIDE DEF A, D, A1, D1
    <2>5. ASSUME NEW d \in Calls PROVE A1(d) = D1(d) + Open(waiting', d)
      BY <1>1, <1>4, <2>1, <2>2, <2>3
    <2> QED
      BY <1>2, <2>5
  <1>10. ASSUME NEW c \in Calls, NEW e \in Entry, NEW f \in Entry, Granting(g, c, e, f)
         PROVE  AuditPaired'
    <2>1. /\ g = <<e, f>> /\ e.op = "policy" /\ f.op = "decided" /\ f.call = c
          /\ waiting[c] # 0 /\ waiting' = [waiting EXCEPT ![c] = 0]
      BY <1>10 DEF Granting
    <2>2. log' = (log \o <<e>>) \o <<f>> /\ log \o <<e>> \in Seq(Entry)
      BY <2>1, TwoMore
    <2>3. ASSUME NEW d \in Calls
          PROVE  A1(d) = A(d) /\ D1(d) = (IF d = c THEN D(d) + 1 ELSE D(d))
      <3>1. /\ Cardinality(AsksIn(log \o <<e>>, d)) = A(d)
            /\ Cardinality(DecsIn(log \o <<e>>, d)) = D(d)
        BY <2>1, OneSwitch
      <3>2. /\ A1(d) = Cardinality(AsksIn(log \o <<e>>, d))
            /\ D1(d) = IF d = c THEN Cardinality(DecsIn(log \o <<e>>, d)) + 1
                       ELSE Cardinality(DecsIn(log \o <<e>>, d))
        BY <2>1, <2>2, OneDecided
      <3> QED
        BY <3>1, <3>2
    <2>4. \A d \in Calls : waiting'[d] = IF d = c THEN 0 ELSE waiting[d]
      BY <1>5, <2>1
    <2> HIDE DEF A, D, A1, D1
    <2>5. ASSUME NEW d \in Calls PROVE A1(d) = D1(d) + Open(waiting', d)
      BY <1>1, <1>4, <2>1, <2>3, <2>4
    <2> QED
      BY <1>2, <2>5
  <1>11. ASSUME NEW e \in Entry, Switching(g, e) PROVE AuditPaired'
    <2>1. log' = log \o <<e>> /\ e.op = "policy" /\ waiting' = waiting
      BY <1>11 DEF Switching
    <2>2. ASSUME NEW d \in Calls PROVE A1(d) = A(d) /\ D1(d) = D(d)
      BY <2>1, OneSwitch
    <2> QED
      BY <1>1, <1>2, <2>1, <2>2
  <1> QED
    BY <1>6, <1>7, <1>8, <1>9, <1>10, <1>11 DEF Growth

(* Nothing that was there is changed by what is appended.                  *)
LEMMA Kept ==
  ASSUME NEW s \in Seq(Entry), NEW g \in Seq(Entry)
  PROVE  /\ \A c, i : i \in AsksIn(s, c) <=> i \in AsksIn(s \o g, c) /\ i <= Len(s)
         /\ \A i \in 1 .. Len(s) : PolicyIn(s \o g, i) = PolicyIn(s, i)
  <1>1. /\ Len(s) \in Nat /\ Len(g) \in Nat /\ Len(s \o g) = Len(s) + Len(g)
        /\ DOMAIN s = 1 .. Len(s) /\ DOMAIN (s \o g) = 1 .. (Len(s) + Len(g))
        /\ \A i \in 1 .. Len(s) : (s \o g)[i] = s[i]
    BY Grown
  <1>2. \A c, i : i \in AsksIn(s, c) <=> i \in AsksIn(s \o g, c) /\ i <= Len(s)
    BY <1>1 DEF AsksIn
  <1>3. ASSUME NEW i \in 1 .. Len(s) PROVE PolicyIn(s \o g, i) = PolicyIn(s, i)
    <2>1. i \in 0 .. Len(s) /\ i \in i .. Len(s \o g) /\ (i + 1) .. i = {}
      BY <1>1
    <2> QED
      BY <2>1, PolicyKept
  <1> QED
    BY <1>2, <1>3

(* The policy of a new position in front of which nothing is switched.     *)
LEMMA PolicyNext ==
  ASSUME NEW s \in Seq(Entry), NEW g \in Seq(Entry), g # <<>>, g[1].op # "policy"
  PROVE  PolicyIn(s \o g, Len(s) + 1) = PolicyIn(s, Len(s))
  <1>1. /\ Len(s) \in Nat /\ Len(g) \in Nat /\ Len(g) # 0 /\ Len(s \o g) = Len(s) + Len(g)
        /\ (s \o g)[Len(s) + 1] = g[1]
    BY Grown, EmptySeq
  <1>2. /\ Len(s) \in 0 .. Len(s) /\ Len(s) + 1 \in Len(s) .. Len(s \o g)
        /\ \A j \in (Len(s) + 1) .. (Len(s) + 1) : (s \o g)[j].op # "policy"
    BY <1>1
  <1> QED
    BY <1>2, PolicyKept

QuestionIn(s, c, w) ==
  /\ w \in AsksIn(s, c) /\ \A k \in AsksIn(s, c) : k <= w
  /\ PolicyIn(s, w) # "never"

(* A question that waits stays the last of its call.                       *)
LEMMA QuestionKept ==
  ASSUME NEW s \in Seq(Entry), NEW g \in Seq(Entry), NEW c, NEW w,
         QuestionIn(s, c, w), AsksIn(s \o g, c) = AsksIn(s, c)
  PROVE  QuestionIn(s \o g, c, w)
  <1>1. w \in 1 .. Len(s)
    BY Grown DEF QuestionIn, AsksIn
  <1> QED
    BY <1>1, Kept DEF QuestionIn

LEMMA QuestionsStep ==
  ASSUME log \in Seq(Entry), TypeOK, QuestionsAreOpen,
         NEW g \in Seq(Entry), log' = log \o g, Growth(g)
  PROVE  \A c \in Calls : waiting'[c] # 0 => QuestionIn(log', c, waiting'[c])
  <1>1. waiting \in [Calls -> Nat] /\ Len(log) \in Nat
    BY DEF TypeOK
  <1>2. \A c \in Calls : waiting[c] # 0 => QuestionIn(log, c, waiting[c])
    BY LogReads DEF QuestionsAreOpen, QuestionIn
  <1>3. SUFFICES ASSUME NEW d \in Calls, waiting'[d] # 0 PROVE QuestionIn(log', d, waiting'[d])
    OBVIOUS
  <1>4. ASSUME waiting'[d] = waiting[d], AsksIn(log', d) = AsksIn(log, d)
        PROVE  QuestionIn(log', d, waiting'[d])
    BY <1>2, <1>3, <1>4, QuestionKept
  <1>5. CASE NothingMore(g)
    <2>1. log' = log /\ waiting' = waiting
      BY <1>5 DEF NothingMore
    <2> QED
      BY <1>4, <2>1
  <1>6. ASSUME NEW e \in Entry, Switching(g, e) PROVE QuestionIn(log', d, waiting'[d])
    <2>1. g = <<e>> /\ e.op = "policy" /\ waiting' = waiting
      BY <1>6 DEF Switching
    <2>2. AsksIn(log', d) = AsksIn(log, d)
      BY <2>1, OneSwitch
    <2> QED
      BY <1>4, <2>1, <2>2
  <1>7. ASSUME NEW c \in Calls, NEW e \in Entry, NEW f \in Entry, AtOnce(g, c, e, f)
        PROVE  QuestionIn(log', d, waiting'[d])
    <2>1. /\ g = <<e, f>> /\ waiting' = waiting /\ waiting[c] = 0
          /\ e.op = "asked" /\ e.call = c /\ f.op = "decided" /\ f.call = c
      BY <1>7 DEF AtOnce
    <2>2. d # c
      BY <1>3, <2>1
    <2>3. log' = (log \o <<e>>) \o <<f>> /\ log \o <<e>> \in Seq(Entry)
      BY <2>1, TwoMore
    <2>4. AsksIn(log \o <<e>>, d) = AsksIn(log, d)
      <3>1. ~(e.op = "asked" /\ e.call = d)
        BY <2>1, <2>2
      <3> QED
        BY <3>1, OneMore
    <2>5. AsksIn(log', d) = AsksIn(log \o <<e>>, d)
      BY <2>1, <2>3, OneDecided
    <2> QED
      BY <1>4, <2>1, <2>4, <2>5
  <1>8. ASSUME NEW c \in Calls, NEW e \in Entry, Asking(g, c, e)
        PROVE  QuestionIn(log', d, waiting'[d])
    <2>1. /\ g = <<e>> /\ e.op = "asked" /\ e.call = c
          /\ Policy # "never" /\ waiting' = [waiting EXCEPT ![c] = Len(log) + 1]
      BY <1>8 DEF Asking
    <2>2. CASE d # c
      <3>1. ~(e.op = "asked" /\ e.call = d)
        BY <2>1, <2>2
      <3>2. AsksIn(log', d) = AsksIn(log, d)
        BY <2>1, <3>1, OneMore
      <3>3. waiting'[d] = waiting[d]
        BY <1>1, <2>1, <2>2
      <3> QED
        BY <1>4, <3>2, <3>3
    <2>3. CASE d = c
      <3>1. waiting'[d] = Len(log) + 1
        BY <1>1, <2>1, <2>3
      <3>2. AsksIn(log', d) = AsksIn(log, d) \cup {Len(log) + 1}
        BY <2>1, <2>3, OneMore
      <3>3. \A k \in AsksIn(log, d) : k <= Len(log)
        BY Grown DEF AsksIn
      <3>4. AsksIn(log, d) \subseteq Nat
        BY Grown DEF AsksIn
      <3>5. \A k \in AsksIn(log', d) : k <= Len(log) + 1
        BY <1>1, <3>2, <3>3, <3>4
      <3>6. g # <<>> /\ g[1].op # "policy"
        BY <2>1
      <3>7. PolicyIn(log', Len(log) + 1) # "never"
        BY <2>1, <3>6, PolicyNext, LogReads
      <3> QED
        BY <3>1, <3>2, <3>5, <3>7 DEF QuestionIn
    <2> QED
      BY <2>2, <2>3
  <1>9. ASSUME NEW c \in Calls, NEW f \in Entry, Later(g, c, f)
        PROVE  QuestionIn(log', d, waiting'[d])
    <2>1. /\ g = <<f>> /\ f.op = "decided" /\ f.call = c /\ waiting' = [waiting EXCEPT ![c] = 0]
      BY <1>9 DEF Later
    <2>2. d # c /\ waiting'[d] = waiting[d]
      BY <1>1, <1>3, <2>1
    <2>3. AsksIn(log', d) = AsksIn(log, d)
      BY <2>1, OneDecided
    <2> QED
      BY <1>4, <2>2, <2>3
  <1>10. ASSUME NEW c \in Calls, NEW e \in Entry, NEW f \in Entry, Granting(g, c, e, f)
         PROVE  QuestionIn(log', d, waiting'[d])
    <2>1. /\ g = <<e, f>> /\ e.op = "policy" /\ f.op = "decided" /\ f.call = c
          /\ waiting' = [waiting EXCEPT ![c] = 0]
      BY <1>10 DEF Granting
    <2>2. d # c /\ waiting'[d] = waiting[d]
      BY <1>1, <1>3, <2>1
    <2>3. log' = (log \o <<e>>) \o <<f>> /\ log \o <<e>> \in Seq(Entry)
      BY <2>1, TwoMore
    <2>4. AsksIn(log \o <<e>>, d) = AsksIn(log, d)
      BY <2>1, OneSwitch
    <2>5. AsksIn(log', d) = AsksIn(log \o <<e>>, d)
      BY <2>1, <2>3, OneDecided
    <2> QED
      BY <1>4, <2>2, <2>4, <2>5
  <1> QED
    BY <1>5, <1>6, <1>7, <1>8, <1>9, <1>10 DEF Growth

DecisionIn(s, j) ==
  \E i \in AsksIn(s, s[j].call) :
    /\ i < j /\ \A k \in AsksIn(s, s[j].call) : k < j => k <= i
    /\ s[j].outcome \in Grants => PolicyIn(s, i) # "never"

(* What was decided stays decided as it was.                               *)
LEMMA DecisionKept ==
  ASSUME NEW s \in Seq(Entry), NEW g \in Seq(Entry), NEW j \in 1 .. Len(s), DecisionIn(s, j)
  PROVE  DecisionIn(s \o g, j)
  <1> DEFINE t == s \o g
             c == s[j].call
  <1>1. /\ Len(s) \in Nat /\ t[j] = s[j] /\ DOMAIN t \subseteq Nat /\ DOMAIN s = 1 .. Len(s)
    BY Grown
  <1>2. PICK i \in AsksIn(s, c) :
          /\ i < j /\ \A k \in AsksIn(s, c) : k < j => k <= i
          /\ s[j].outcome \in Grants => PolicyIn(s, i) # "never"
    BY DEF DecisionIn
  <1>3. i \in AsksIn(t, c) /\ i \in 1 .. Len(s)
    BY <1>1, Kept DEF AsksIn
  <1>4. \A k \in AsksIn(t, c) : k < j => k \in AsksIn(s, c)
    <2>1. ASSUME NEW k \in AsksIn(t, c), k < j PROVE k <= Len(s)
      <3>1. k \in Nat
        BY <1>1 DEF AsksIn
      <3> QED
        BY <1>1, <2>1, <3>1
    <2> QED
      BY <2>1, Kept
  <1>5. PolicyIn(t, i) = PolicyIn(s, i)
    BY <1>3, Kept
  <1> HIDE DEF t
  <1>6. \A k \in AsksIn(t, c) : k < j => k <= i
    BY <1>2, <1>4
  <1>7. t[j].call = c /\ t[j].outcome = s[j].outcome
    BY <1>1
  <1> HIDE DEF c
  <1>8. DecisionIn(t, j)
    BY <1>2, <1>3, <1>5, <1>6, <1>7 DEF DecisionIn
  <1> QED
    BY <1>8 DEF t

(* A waiting question is the last one in front of its decision.            *)
LEMMA DecisionLater ==
  ASSUME NEW s \in Seq(Entry), NEW g \in Seq(Entry), NEW c, NEW w, QuestionIn(s, c, w),
         NEW j \in (Len(s) + 1) .. Len(s \o g), (s \o g)[j].call = c,
         AsksIn(s \o g, c) = AsksIn(s, c)
  PROVE  DecisionIn(s \o g, j)
  <1>1. w \in 1 .. Len(s) /\ Len(s) \in Nat /\ Len(s \o g) \in Nat
    BY Grown DEF QuestionIn, AsksIn
  <1>2. w < j
    BY <1>1
  <1>3. PolicyIn(s \o g, w) # "never"
    BY <1>1, Kept DEF QuestionIn
  <1> QED
    BY <1>2, <1>3 DEF DecisionIn, QuestionIn

LEMMA DecisionsStep ==
  ASSUME log \in Seq(Entry), TypeOK, QuestionsAreOpen, EveryDecisionIsAsked,
         NEW g \in Seq(Entry), log' = log \o g, Growth(g)
  PROVE  \A j \in DOMAIN log' : log'[j].op = "decided" => DecisionIn(log', j)
  <1> DEFINE n == Len(log)
  <1>1. /\ n \in Nat /\ Len(g) \in Nat /\ Len(log') = n + Len(g)
        /\ DOMAIN log = 1 .. n /\ DOMAIN log' = 1 .. (n + Len(g))
        /\ \A i \in 1 .. n : log'[i] = log[i]
        /\ \A i \in 1 .. Len(g) : log'[n + i] = g[i]
    BY Grown
  <1>2. \A j \in 1 .. n : log[j].op = "decided" => DecisionIn(log, j)
    BY <1>1, LogReads DEF EveryDecisionIsAsked, DecisionIn
  <1>3. \A c \in Calls : waiting[c] # 0 => QuestionIn(log, c, waiting[c])
    BY LogReads DEF QuestionsAreOpen, QuestionIn
  <1>4. SUFFICES ASSUME NEW j \in 1 .. (n + Len(g)), log'[j].op = "decided" PROVE DecisionIn(log', j)
    BY <1>1
  <1>5. CASE j <= n
    <2>1. j \in 1 .. n /\ log[j].op = "decided"
      BY <1>1, <1>4, <1>5
    <2> QED
      BY <1>2, <2>1, DecisionKept
  <1>6. CASE NothingMore(g)
    <2>1. g = <<>>
      BY <1>6 DEF NothingMore
    <2>2. j <= n
      BY <1>1, <2>1
    <2> QED
      BY <1>5, <2>2
  <1>7. ASSUME NEW e \in Entry, Switching(g, e), ~(j <= n) PROVE DecisionIn(log', j)
    <2>1. g = <<e>> /\ e.op = "policy"
      BY <1>7 DEF Switching
    <2>2. j = n + 1 /\ log'[n + 1] = e
      BY <1>1, <1>7, <2>1
    <2> QED
      BY <1>4, <2>1, <2>2
  <1>8. ASSUME NEW c \in Calls, NEW e \in Entry, NEW f \in Entry, AtOnce(g, c, e, f), ~(j <= n)
        PROVE  DecisionIn(log', j)
    <2>1. /\ g = <<e, f>> /\ e.op = "asked" /\ e.call = c /\ f.op = "decided" /\ f.call = c
          /\ f.outcome \in Grants => Policy # "never"
      BY <1>8 DEF AtOnce
    <2>2. Len(g) = 2 /\ g[1] = e /\ g[2] = f /\ g # <<>>
      BY <2>1
    <2>3. log'[n + 1] = e /\ log'[n + 2] = f
      BY <1>1, <2>2
    <2>4. j = n + 2
      <3>1. j = n + 1 \/ j = n + 2
        BY <1>1, <1>8, <2>2
      <3> QED
        BY <1>4, <2>1, <2>3, <3>1
    <2>5. n + 1 \in AsksIn(log', c)
      BY <1>1, <2>1, <2>2, <2>3 DEF AsksIn
    <2>6. \A k \in AsksIn(log', c) : k < j => k <= n + 1
      BY <1>1, <2>4 DEF AsksIn
    <2>7. PolicyIn(log', n + 1) = Policy
      BY <2>1, <2>2, PolicyNext, LogReads
    <2>8. n + 1 < j /\ log'[j] = f
      BY <1>1, <2>3, <2>4
    <2> HIDE DEF n
    <2> QED
      BY <2>1, <2>5, <2>6, <2>7, <2>8 DEF DecisionIn
  <1>9. ASSUME NEW c \in Calls, NEW e \in Entry, Asking(g, c, e), ~(j <= n) PROVE DecisionIn(log', j)
    <2>1. g = <<e>> /\ e.op = "asked"
      BY <1>9 DEF Asking
    <2>2. j = n + 1 /\ log'[n + 1] = e
      BY <1>1, <1>9, <2>1
    <2> QED
      BY <1>4, <2>1, <2>2
  <1>10. ASSUME NEW c \in Calls, NEW f \in Entry, Later(g, c, f), ~(j <= n) PROVE DecisionIn(log', j)
    <2>1. g = <<f>> /\ f.op = "decided" /\ f.call = c /\ waiting[c] # 0
      BY <1>10 DEF Later
    <2>2. j = n + 1 /\ log'[n + 1] = f /\ j \in (n + 1) .. Len(log')
      BY <1>1, <1>10, <2>1
    <2>3. AsksIn(log', c) = AsksIn(log, c)
      BY <2>1, OneDecided
    <2> QED
      BY <1>3, <2>1, <2>2, <2>3, DecisionLater
  <1>11. ASSUME NEW c \in Calls, NEW e \in Entry, NEW f \in Entry, Granting(g, c, e, f), ~(j <= n)
         PROVE  DecisionIn(log', j)
    <2>1. /\ g = <<e, f>> /\ e.op = "policy" /\ f.op = "decided" /\ f.call = c /\ waiting[c] # 0
      BY <1>11 DEF Granting
    <2>2. Len(g) = 2 /\ g[1] = e /\ g[2] = f
      BY <2>1
    <2>3. log'[n + 1] = e /\ log'[n + 2] = f
      BY <1>1, <2>2
    <2>4. j = n + 2 /\ j \in (n + 1) .. Len(log')
      <3>1. j = n + 1 \/ j = n + 2
        BY <1>1, <1>11, <2>2
      <3>2. j = n + 2
        BY <1>4, <2>1, <2>3, <3>1
      <3> QED
        BY <1>1, <2>2, <3>2
    <2>5. log' = (log \o <<e>>) \o <<f>> /\ log \o <<e>> \in Seq(Entry)
      BY <2>1, TwoMore
    <2>6. AsksIn(log', c) = AsksIn(log, c)
      <3>1. AsksIn(log \o <<e>>, c) = AsksIn(log, c)
        BY <2>1, OneSwitch
      <3>2. AsksIn(log', c) = AsksIn(log \o <<e>>, c)
        <4> PICK m \in Seq(Entry) : m = log \o <<e>>
          BY <2>5
        <4>1. AsksIn(m \o <<f>>, c) = AsksIn(m, c)
          BY <2>1, OneDecided
        <4> QED
          BY <2>5, <4>1
      <3> QED
        BY <3>1, <3>2
    <2>7. log'[j].call = c
      BY <2>1, <2>3, <2>4
    <2> QED
      BY <1>3, <2>1, <2>4, <2>6, <2>7, DecisionLater
  <1> QED
    BY <1>5, <1>6, <1>7, <1>8, <1>9, <1>10, <1>11 DEF Growth

(* A grant for the session stays in front of its decision.                 *)
LEMMA GrantStep ==
  ASSUME log \in Seq(Entry), GrantIsDecided, NEW g \in Seq(Entry), log' = log \o g, Growth(g)
  PROVE  GrantIsDecided'
  <1> DEFINE n == Len(log)
  <1>1. /\ n \in Nat /\ Len(g) \in Nat /\ Len(log') = n + Len(g)
        /\ DOMAIN log = 1 .. n /\ DOMAIN log' = 1 .. (n + Len(g))
        /\ \A i \in 1 .. n : log'[i] = log[i]
        /\ \A i \in 1 .. Len(g) : log'[n + i] = g[i]
    BY Grown
  <1>2. SUFFICES ASSUME NEW i \in 1 .. (n + Len(g)), log'[i].op = "policy", log'[i].by = "grant"
        PROVE  i < Len(log') /\ log'[i + 1].op = "decided" /\ log'[i + 1].outcome = "allowed-for-session"
    BY <1>1 DEF GrantIsDecided, Events
  <1>3. CASE i <= n
    <2>1. i \in 1 .. n /\ log[i].op = "policy" /\ log[i].by = "grant"
      BY <1>1, <1>2, <1>3
    <2>2. i < n /\ log[i + 1].op = "decided" /\ log[i + 1].outcome = "allowed-for-session"
      BY <1>1, <2>1 DEF GrantIsDecided, Events
    <2>3. i + 1 \in 1 .. n
      BY <1>1, <2>1, <2>2
    <2> QED
      BY <1>1, <2>2, <2>3
  <1>4. CASE NothingMore(g)
    <2>1. i <= n
      BY <1>1, <1>4 DEF NothingMore
    <2> QED
      BY <1>3, <2>1
  <1>5. ASSUME NEW e \in Entry, g = <<e>>, e.op # "policy" \/ e.by # "grant", ~(i <= n) PROVE FALSE
    <2>1. i = n + 1 /\ log'[n + 1] = e
      BY <1>1, <1>5
    <2> QED
      BY <1>2, <1>5, <2>1
  <1>6. ASSUME NEW c \in Calls, NEW e \in Entry, NEW f \in Entry, AtOnce(g, c, e, f), ~(i <= n) PROVE FALSE
    <2>1. g = <<e, f>> /\ e.op = "asked" /\ f.op = "decided"
      BY <1>6 DEF AtOnce
    <2>2. Len(g) = 2 /\ g[1] = e /\ g[2] = f
      BY <2>1
    <2>3. log'[n + 1] = e /\ log'[n + 2] = f /\ (i = n + 1 \/ i = n + 2)
      BY <1>1, <1>6, <2>2
    <2> QED
      BY <1>2, <2>1, <2>3
  <1>7. ASSUME NEW c \in Calls, NEW e \in Entry, NEW f \in Entry, Granting(g, c, e, f), ~(i <= n)
        PROVE  i < Len(log') /\ log'[i + 1].op = "decided" /\ log'[i + 1].outcome = "allowed-for-session"
    <2>1. g = <<e, f>> /\ e.op = "policy" /\ f.op = "decided" /\ f.outcome = "allowed-for-session"
      BY <1>7 DEF Granting
    <2>2. Len(g) = 2 /\ g[1] = e /\ g[2] = f
      BY <2>1
    <2>3. log'[n + 1] = e /\ log'[n + 2] = f /\ (i = n + 1 \/ i = n + 2)
      BY <1>1, <1>7, <2>2
    <2>4. i = n + 1
      BY <1>2, <2>1, <2>3
    <2>5. i + 1 = n + 2 /\ i < Len(log')
      BY <1>1, <2>2, <2>4
    <2> QED
      BY <2>1, <2>3, <2>5
  <1>8. ASSUME NEW c \in Calls, NEW e \in Entry, Asking(g, c, e) PROVE g = <<e>> /\ e.op # "policy"
    BY <1>8 DEF Asking
  <1>9. ASSUME NEW c \in Calls, NEW f \in Entry, Later(g, c, f) PROVE g = <<f>> /\ f.op # "policy"
    BY <1>9 DEF Later
  <1>10. ASSUME NEW e \in Entry, Switching(g, e) PROVE g = <<e>> /\ e.by # "grant"
    BY <1>10 DEF Switching
  <1> QED
    BY <1>3, <1>4, <1>5, <1>6, <1>7, <1>8, <1>9, <1>10 DEF Growth

---------------------------------------------------------------------------
(* What every step does to the calls.                                      *)

LEMMA StageSets == /\ Calm \subseteq Stages /\ Waits \subseteq Stages /\ Calm \cap Waits = {}
  BY DEF Calm, Waits, Stages, InBody

LEMMA CallMoves ==
  ASSUME Cases
  PROVE  UNCHANGED <<stage, result, attempt, ran>> \/ \E c \in Calls : Moves(c, Stages)
  <1>1. ASSUME NEW c \in Calls, Moves(c, Calm) \/ Moves(c, Waits) PROVE Moves(c, Stages)
    BY <1>1, StageSets DEF Moves
  <1>2. CASE Quiet
    BY <1>1, <1>2 DEF Quiet
  <1>3. CASE Idle \/ \E p \in Policies : Switches(p)
    BY <1>3 DEF Idle, Switches
  <1>4. ASSUME NEW c \in Calls, Prompts(c) PROVE Moves(c, Stages)
    BY <1>1, <1>4 DEF Prompts
  <1>5. ASSUME NEW c \in Calls, NEW o \in Outcomes, DecidesAtOnce(c, o) PROVE Moves(c, Stages)
    BY <1>1, <1>5 DEF DecidesAtOnce
  <1>6. ASSUME NEW c \in Calls, NEW o \in Outcomes, NEW given, DecidesLater(c, o, given)
        PROVE  Moves(c, Stages)
    BY <1>1, <1>6 DEF DecidesLater
  <1> QED
    BY <1>2, <1>3, <1>4, <1>5, <1>6 DEF Cases

(* A move keeps the calls' types, counts and codes, and stores first.      *)
LEMMA MoveKeeps ==
  ASSUME Ready, NEW c \in Calls, Moves(c, Stages), stored \subseteq stored'
  PROVE  /\ stage' \in [Calls -> Stages] /\ result' \in [Calls -> Results]
         /\ attempt' \in [Calls -> 1 .. MaxAttempts] /\ ran' \in [Calls -> 0 .. MaxAttempts]
         /\ AttemptsAreCounted'
         /\ MaxAttempts = 1 => CodeIsHonest'
         /\ MaxAttempts = 1 /\ StoredBeforeEffect => StoredBeforeEffect'
  <1> PICK s \in Stages, r \in Results, a \in 1 .. MaxAttempts, m \in 0 .. MaxAttempts :
        Moved(c, s, r, a, m) /\ Lawful(c, s, r, a, m)
    BY DEF Moves
  <1>1. /\ stage \in [Calls -> Stages] /\ result \in [Calls -> Results]
        /\ attempt \in [Calls -> 1 .. MaxAttempts] /\ ran \in [Calls -> 0 .. MaxAttempts]
    BY DEF Ready, TypeOK, Stages, Results
  <1>2. /\ stage' = [stage EXCEPT ![c] = s] /\ result' = [result EXCEPT ![c] = r]
        /\ attempt' = [attempt EXCEPT ![c] = a] /\ ran' = [ran EXCEPT ![c] = m]
    BY DEF Moved
  <1>3. /\ stage' \in [Calls -> Stages] /\ result' \in [Calls -> Results]
        /\ attempt' \in [Calls -> 1 .. MaxAttempts] /\ ran' \in [Calls -> 0 .. MaxAttempts]
    BY <1>1, <1>2
  <1>4. /\ stage'[c] = s /\ result'[c] = r /\ attempt'[c] = a /\ ran'[c] = m
        /\ \A d \in Calls : d # c => /\ stage'[d] = stage[d] /\ result'[d] = result[d]
                                     /\ attempt'[d] = attempt[d] /\ ran'[d] = ran[d]
    BY <1>1, <1>2
  <1>5. AttemptsAreCounted'
    <2>1. SUFFICES ASSUME NEW d \in Calls
          PROVE  /\ ran'[d] <= attempt'[d]
                 /\ stage'[d] \in Early => attempt'[d] = 1 /\ ran'[d] = 0
                 /\ stage'[d] \in {"body", "escalating"} => ran'[d] > 0
                 /\ stage'[d] \notin Ended => result'[d] = "none"
      BY DEF AttemptsAreCounted, Early, Ended
    <2>2. CASE d = c
      BY <1>4, <2>2 DEF Lawful
    <2>3. CASE d # c
      BY <1>4, <2>3, Types
    <2> QED
      BY <2>2, <2>3
  <1>6. ASSUME MaxAttempts = 1 PROVE CodeIsHonest'
    <2>1. SUFFICES ASSUME NEW d \in Calls PROVE Honest(result'[d], ran'[d])
      BY <1>6 DEF CodeIsHonest, Honest
    <2>2. CASE d = c
      BY <1>4, <2>2 DEF Lawful
    <2>3. CASE d # c
      BY <1>4, <2>3, Types
    <2> QED
      BY <2>2, <2>3
  <1>7. ASSUME MaxAttempts = 1, StoredBeforeEffect PROVE StoredBeforeEffect'
    <2>1. SUFFICES ASSUME NEW d \in Calls, ran'[d] > 0 PROVE d \in stored'
      BY DEF StoredBeforeEffect
    <2>2. CASE d = c
      BY <1>4, <1>7, <2>1, <2>2 DEF Lawful, StoredBeforeEffect
    <2>3. CASE d # c
      BY <1>4, <1>7, <2>1, <2>3 DEF StoredBeforeEffect
    <2> QED
      BY <2>2, <2>3
  <1> QED
    BY <1>3, <1>5, <1>6, <1>7

LEMMA CallsStep ==
  ASSUME Ready, Cases, stored \subseteq stored'
  PROVE  /\ stage' \in [Calls -> Stages] /\ result' \in [Calls -> Results]
         /\ attempt' \in [Calls -> 1 .. MaxAttempts] /\ ran' \in [Calls -> 0 .. MaxAttempts]
         /\ AttemptsAreCounted'
         /\ MaxAttempts = 1 => CodeIsHonest'
         /\ MaxAttempts = 1 /\ StoredBeforeEffect => StoredBeforeEffect'
  <1>1. CASE UNCHANGED <<stage, result, attempt, ran>>
    <2>1. stage' = stage /\ result' = result /\ attempt' = attempt /\ ran' = ran
      BY <1>1
    <2>2. /\ stage' \in [Calls -> Stages] /\ result' \in [Calls -> Results]
          /\ attempt' \in [Calls -> 1 .. MaxAttempts] /\ ran' \in [Calls -> 0 .. MaxAttempts]
      BY <2>1 DEF Ready, TypeOK, Stages, Results
    <2>3. AttemptsAreCounted'
      BY <2>1 DEF Ready, AttemptsAreCounted
    <2>4. MaxAttempts = 1 => CodeIsHonest'
      BY <2>1 DEF Ready, CodeIsHonest
    <2>5. StoredBeforeEffect => StoredBeforeEffect'
      BY <2>1 DEF StoredBeforeEffect
    <2> QED
      BY <2>2, <2>3, <2>4, <2>5
  <1>2. CASE \E c \in Calls : Moves(c, Stages)
    BY <1>2, MoveKeeps
  <1> QED
    BY <1>1, <1>2, CallMoves

(* A call waits exactly for the prompt it has.                             *)
LEMMA WaitsStep ==
  ASSUME Ready, log \in Seq(Entry), QuestionsAreOpen, Cases
  PROVE  /\ waiting' \in [Calls -> Nat] /\ prompts' \subseteq [id : Nat, call : Calls]
         /\ \A d \in Calls : waiting'[d] # 0 <=> stage'[d] \in Waits
         /\ \A p \in prompts' : p.id # 0
  <1>1. /\ waiting \in [Calls -> Nat] /\ prompts \subseteq [id : Nat, call : Calls]
        /\ \A d \in Calls : waiting[d] # 0 <=> stage[d] \in Waits
        /\ \A p \in prompts : p.id # 0
        /\ stage \in [Calls -> Stages]
    BY DEF Ready, TypeOK, QuestionsAreOpen, Stages, Waits
  <1>2. ASSUME NEW c \in Calls, NEW T \in SUBSET Stages, Moves(c, T)
        PROVE  stage'[c] \in T /\ \A d \in Calls : d # c => stage'[d] = stage[d]
    BY <1>1, <1>2 DEF Moves, Moved
  <1>3. CASE UNCHANGED <<waiting, stage>> /\ prompts' \subseteq prompts
    <2>1. waiting' = waiting /\ stage' = stage /\ prompts' \subseteq prompts
      BY <1>3
    <2> QED
      BY <1>1, <2>1
  <1>4. ASSUME NEW c \in Calls, stage[c] \notin Waits, UNCHANGED <<waiting, prompts>>, Moves(c, Calm)
        PROVE  /\ waiting' \in [Calls -> Nat] /\ prompts' \subseteq [id : Nat, call : Calls]
               /\ \A d \in Calls : waiting'[d] # 0 <=> stage'[d] \in Waits
               /\ \A p \in prompts' : p.id # 0
    <2>1. waiting' = waiting /\ prompts' = prompts /\ waiting[c] = 0
      BY <1>1, <1>4
    <2>2. stage'[c] \notin Waits /\ \A d \in Calls : d # c => stage'[d] = stage[d]
      BY <1>2, <1>4, StageSets
    <2> QED
      BY <1>1, <2>1, <2>2
  <1>5. ASSUME NEW c \in Calls, Prompts(c)
        PROVE  /\ waiting' \in [Calls -> Nat] /\ prompts' \subseteq [id : Nat, call : Calls]
               /\ \A d \in Calls : waiting'[d] # 0 <=> stage'[d] \in Waits
               /\ \A p \in prompts' : p.id # 0
    <2>1. /\ log' = log \o <<Asked(c)>> /\ waiting' = [waiting EXCEPT ![c] = Len(log')]
          /\ prompts' = prompts \cup {[id |-> Len(log'), call |-> c]} /\ Moves(c, Waits)
      BY <1>5 DEF Prompts
    <2>2. <<Asked(c)>> \in Seq(Entry) /\ Len(<<Asked(c)>>) = 1
      BY AskedIsEntry
    <2>3. Len(log') \in Nat /\ Len(log') # 0
      <3>1. Len(log') = Len(log) + 1 /\ Len(log) \in Nat
        BY <2>1, <2>2, Grown
      <3> QED
        BY <3>1
    <2>4. stage'[c] \in Waits /\ \A d \in Calls : d # c => stage'[d] = stage[d]
      BY <1>2, <2>1, StageSets
    <2>5. /\ waiting' \in [Calls -> Nat] /\ waiting'[c] # 0
          /\ \A d \in Calls : d # c => waiting'[d] = waiting[d]
      BY <1>1, <2>1, <2>3
    <2>6. prompts' \subseteq [id : Nat, call : Calls] /\ \A p \in prompts' : p.id # 0
      BY <1>1, <2>1, <2>3
    <2> QED
      BY <1>1, <2>4, <2>5, <2>6
  <1>6. ASSUME NEW c \in Calls, NEW o \in Outcomes, NEW given, DecidesLater(c, o, given)
        PROVE  /\ waiting' \in [Calls -> Nat] /\ prompts' \subseteq [id : Nat, call : Calls]
               /\ \A d \in Calls : waiting'[d] # 0 <=> stage'[d] \in Waits
               /\ \A p \in prompts' : p.id # 0
    <2>1. waiting' = [waiting EXCEPT ![c] = 0] /\ prompts' \subseteq prompts /\ Moves(c, Calm)
      BY <1>6 DEF DecidesLater
    <2>2. stage'[c] \notin Waits /\ \A d \in Calls : d # c => stage'[d] = stage[d]
      BY <1>2, <2>1, StageSets
    <2>3. /\ waiting' \in [Calls -> Nat] /\ waiting'[c] = 0
          /\ \A d \in Calls : d # c => waiting'[d] = waiting[d]
      BY <1>1, <2>1
    <2> QED
      BY <1>1, <2>1, <2>2, <2>3
  <1>7. CASE Quiet
    BY <1>4, <1>7 DEF Quiet
  <1>8. CASE Idle
    BY <1>3, <1>8 DEF Idle
  <1>9. ASSUME NEW p \in Policies, Switches(p) PROVE UNCHANGED <<waiting, stage>> /\ prompts' \subseteq prompts
    BY <1>9 DEF Switches
  <1>10. ASSUME NEW c \in Calls, NEW o \in Outcomes, DecidesAtOnce(c, o)
         PROVE  stage[c] \notin Waits /\ UNCHANGED <<waiting, prompts>> /\ Moves(c, Calm)
    BY <1>10 DEF DecidesAtOnce
  <1> QED
    BY <1>3, <1>4, <1>5, <1>6, <1>7, <1>8, <1>9, <1>10 DEF Cases

(* The signals stay sets of calls, and a stored call stays stored.         *)
LEMMA FlagsStep ==
  ASSUME TypeOK, [Next]_vars
  PROVE  stored' \subseteq Calls /\ timedOut' \subseteq Calls /\ aborted' \in BOOLEAN
  <1>1. stored \subseteq Calls /\ timedOut \subseteq Calls /\ aborted \in BOOLEAN
    BY DEF TypeOK
  <1>2. ASSUME NEW c \in Calls, Step(c) \/ Escalate(c) \/ Timeout(c)
        PROVE  /\ stored' \subseteq stored \cup {c} /\ timedOut' \subseteq timedOut \cup {c}
               /\ aborted' = aborted
    BY <1>2 DEF Step, Prepare, Gate, Dispatch, Checkpoint, CheckpointFails, Settle, Withdraw,
                Finalize, Escalate, Timeout
  <1>3. ASSUME \/ \E p \in prompts, o \in Answers : Answer(p, o)
               \/ \E p \in Policies : UserSwitches(p)
               \/ Abort \/ UNCHANGED vars
        PROVE  stored' = stored /\ timedOut' = timedOut /\ (aborted' = aborted \/ aborted' = TRUE)
    BY <1>3 DEF Answer, UserSwitches, Abort, vars
  <1> QED
    BY <1>1, <1>2, <1>3 DEF Next

---------------------------------------------------------------------------
(* The invariant.                                                          *)

LEMMA InitInvariant ==
  ASSUME MaxAttempts \in Nat \ {0}, Init
  PROVE  IInv
  <1>1. log = <<>> /\ log \in Seq(Entry) /\ DOMAIN log = {}
    BY DEF Init
  <1>2. TypeOK
    <2>1. 1 \in 1 .. MaxAttempts /\ 0 \in 0 .. MaxAttempts
      OBVIOUS
    <2>2. /\ stage = [c \in Calls |-> "new"] /\ waiting = [c \in Calls |-> 0] /\ prompts = {}
          /\ result = [c \in Calls |-> "none"] /\ attempt = [c \in Calls |-> 1]
          /\ ran = [c \in Calls |-> 0] /\ stored = {} /\ timedOut = {} /\ aborted = FALSE
      BY DEF Init
    <2> QED
      BY <1>1, <2>1, <2>2 DEF TypeOK
  <1>3. \A op : Events(op) = {}
    BY <1>1 DEF Events
  <1>4. QuestionsAreOpen /\ GrantIsDecided /\ EveryDecisionIsAsked
    BY <1>3 DEF Init, QuestionsAreOpen, GrantIsDecided, EveryDecisionIsAsked
  <1>5. AuditPaired
    <2>1. \A c \in Calls : /\ {i \in Events("asked") : log[i].call = c} = {}
                          /\ {i \in Events("decided") : log[i].call = c} = {}
                          /\ (IF waiting[c] # 0 THEN 1 ELSE 0) = 0
      BY <1>3 DEF Init
    <2>2. Cardinality({}) = 0 /\ 0 = 0 + 0
      BY FS_EmptySet
    <2>3. ASSUME NEW c \in Calls, NEW a, NEW d, NEW w, a = {}, d = {}, w = 0
          PROVE  Cardinality(a) = Cardinality(d) + w
      BY <2>2, <2>3
    <2> QED
      BY <2>1, <2>3 DEF AuditPaired
  <1>6. AttemptsAreCounted /\ EffectsAreHonest
    BY DEF Init, AttemptsAreCounted, EffectsAreHonest, CodeIsHonest, StoredBeforeEffect
  <1> QED
    BY <1>1, <1>2, <1>4, <1>5, <1>6 DEF IInv

LEMMA Inductive ==
  ASSUME MaxAttempts \in Nat \ {0}, IInv, [Next]_vars
  PROVE  IInv'
  <1>1. /\ log \in Seq(Entry) /\ TypeOK /\ QuestionsAreOpen /\ AttemptsAreCounted /\ AuditPaired
        /\ GrantIsDecided /\ EveryDecisionIsAsked /\ Ready
    BY DEF IInv, EffectsAreHonest, Ready
  <1>2. Cases /\ stored \subseteq stored'
    BY <1>1, StepCases
  <1> PICK g \in Seq(Entry) : log' = log \o g /\ Growth(g)
    BY <1>1, <1>2, Appended
  <1>3. log' \in Seq(Entry)
    BY <1>1, Grown
  <1>4. /\ stage' \in [Calls -> Stages] /\ result' \in [Calls -> Results]
        /\ attempt' \in [Calls -> 1 .. MaxAttempts] /\ ran' \in [Calls -> 0 .. MaxAttempts]
        /\ AttemptsAreCounted'
        /\ MaxAttempts = 1 => CodeIsHonest'
        /\ MaxAttempts = 1 /\ StoredBeforeEffect => StoredBeforeEffect'
    BY <1>1, <1>2, CallsStep
  <1>5. /\ waiting' \in [Calls -> Nat] /\ prompts' \subseteq [id : Nat, call : Calls]
        /\ \A d \in Calls : waiting'[d] # 0 <=> stage'[d] \in Waits
        /\ \A p \in prompts' : p.id # 0
    BY <1>1, <1>2, WaitsStep
  <1>6. stored' \subseteq Calls /\ timedOut' \subseteq Calls /\ aborted' \in BOOLEAN
    BY <1>1, FlagsStep
  <1>7. TypeOK'
    <2>1. \A i \in DOMAIN log' : log'[i].op \in {"asked", "decided", "policy"}
      <3>1. \A e \in Entry : e.op \in {"asked", "decided", "policy"}
        BY DEF Entry
      <3> QED
        BY <1>3, <3>1
    <2> QED
      BY <1>4, <1>5, <1>6, <2>1 DEF TypeOK, Stages, Results, Waits
  <1>8. QuestionsAreOpen'
    <2>1. \A c \in Calls : waiting'[c] # 0 => QuestionIn(log', c, waiting'[c])
      BY <1>1, QuestionsStep
    <2> QED
      BY <1>5, <2>1, LogReads DEF QuestionsAreOpen, QuestionIn
  <1>9. EveryDecisionIsAsked'
    <2>1. \A j \in DOMAIN log' : log'[j].op = "decided" => DecisionIn(log', j)
      BY <1>1, DecisionsStep
    <2> QED
      BY <2>1, LogReads DEF EveryDecisionIsAsked, DecisionIn
  <1>10. AuditPaired' /\ GrantIsDecided'
    BY <1>1, AuditStep, GrantStep
  <1>11. MaxAttempts = 1 => EffectsAreHonest'
    BY <1>4 DEF IInv, EffectsAreHonest
  <1> QED
    BY <1>3, <1>4, <1>7, <1>8, <1>9, <1>10, <1>11 DEF IInv

(* The question of a decision is the last one of its call.                 *)
LEMMA NeverFollows ==
  ASSUME log \in Seq(Entry), EveryDecisionIsAsked
  PROVE  NeverIsNever
  <1>1. SUFFICES ASSUME NEW j \in Events("decided"), log[j].outcome \in Grants
        PROVE  LET own == {i \in Events("asked") : i < j /\ log[i].call = log[j].call}
               IN PolicyAt(CHOOSE i \in own : \A k \in own : k <= i) # "never"
    BY DEF NeverIsNever
  <1> DEFINE own == {i \in Events("asked") : i < j /\ log[i].call = log[j].call}
  <1>2. PICK i \in Asks(log[j].call) :
          /\ i < j /\ \A k \in Asks(log[j].call) : k < j => k <= i
          /\ PolicyAt(i) # "never"
    BY <1>1 DEF EveryDecisionIsAsked
  <1>3. i \in own /\ \A k \in own : k <= i
    BY <1>2 DEF Asks
  <1>4. own \subseteq Nat
    BY DEF Events
  <1> HIDE DEF own
  <1> DEFINE last == CHOOSE l \in own : \A k \in own : k <= l
  <1>5. last \in own /\ \A k \in own : k <= last
    BY <1>3
  <1> HIDE DEF last
  <1>6. last = i
    <2>1. last <= i /\ i <= last /\ last \in Nat /\ i \in Nat
      BY <1>3, <1>4, <1>5
    <2> QED
      BY <2>1
  <1> QED
    BY <1>2, <1>6 DEF last, own

LEMMA Invariance == ASSUME MaxAttempts \in Nat \ {0} PROVE Spec => []IInv
  <1>1. Init => IInv
    BY InitInvariant
  <1>2. IInv /\ [Next]_vars => IInv'
    BY Inductive
  <1> QED
    BY <1>1, <1>2, PTL DEF Spec

---------------------------------------------------------------------------
(* The theorems.                                                           *)

(* The types, for any calls and any bound on attempts.                     *)
THEOREM TypeCorrect == ASSUME MaxAttempts \in Nat \ {0} PROVE Spec => []TypeOK
  <1>1. IInv => TypeOK
    BY DEF IInv
  <1> QED
    BY <1>1, Invariance, PTL

(* Every question of a call has exactly one decision in the log, made      *)
(* before the call goes on, a session-wide grant enters the policy only    *)
(* with its decision, and a question put under never is not granted,       *)
(* whatever answers, withdrawals, deadlines and switches come between      *)
(* (user-approval/src/index.ts:271, 320).                                  *)
THEOREM ApprovalStaysSound == ASSUME MaxAttempts \in Nat \ {0} PROVE Spec => []ApprovalIsSound
  <1>1. IInv => ApprovalIsSound
    BY NeverFollows DEF IInv, ApprovalIsSound
  <1> QED
    BY <1>1, Invariance, PTL

(* Without a retry wrapper the code of a cancelled call tells truly        *)
(* whether its body was invoked, and a body is invoked only after its      *)
(* checkpoint was stored (core/tools/src/index.ts:465,                     *)
(* session-checkpoint-policy:73).  A retry of an aborted call has neither. *)
THEOREM EffectsStayHonest == ASSUME MaxAttempts = 1 PROVE Spec => []EffectsAreHonest
  <1>1. MaxAttempts \in Nat \ {0}
    OBVIOUS
  <1>2. IInv => EffectsAreHonest
    BY DEF IInv
  <1> QED
    BY <1>1, <1>2, Invariance, PTL

(* A move keeps a call's own outcome, and delivers no success once aborted. *)
LEMMA MoveKeepsOutcome ==
  ASSUME Ready, NEW c \in Calls, Moves(c, Stages)
  PROVE  KeepsOutcome
  <1> PICK s \in Stages, r \in Results, a \in 1 .. MaxAttempts, m \in 0 .. MaxAttempts :
        Moved(c, s, r, a, m) /\ Lawful(c, s, r, a, m)
    BY DEF Moves
  <1>1. /\ stage'[c] = s /\ result'[c] = r
        /\ \A d \in Calls : d # c => stage'[d] = stage[d] /\ result'[d] = result[d]
    BY DEF Ready, TypeOK, Moved
  <1>2. SUFFICES ASSUME NEW d \in Calls
        PROVE  /\ result[d] \in Own => result'[d] \in Own
               /\ aborted /\ stage[d] # "done" /\ stage'[d] = "done" => result'[d] # "ok"
    BY DEF KeepsOutcome, Own
  <1>3. CASE d = c
    BY <1>1, <1>3 DEF Lawful
  <1>4. CASE d # c
    BY <1>1, <1>4
  <1> QED
    BY <1>3, <1>4

(* A call's own failure, denial or timeout is not replaced by a            *)
(* cancellation, and no success is delivered once the caller has aborted   *)
(* (core/tools/src/index.ts:1592).                                         *)
THEOREM OutcomesAreKept == ASSUME MaxAttempts \in Nat \ {0} PROVE Spec => [][KeepsOutcome]_vars
  <1>1. ASSUME IInv, [Next]_vars PROVE [KeepsOutcome]_vars
    <2>1. log \in Seq(Entry) /\ QuestionsAreOpen /\ Ready
      BY <1>1 DEF IInv, EffectsAreHonest, Ready
    <2>2. CASE UNCHANGED <<stage, result, attempt, ran>>
      BY <2>2 DEF KeepsOutcome
    <2>3. CASE \E c \in Calls : Moves(c, Stages)
      BY <2>1, <2>3, MoveKeepsOutcome
    <2> QED
      BY <1>1, <2>1, <2>2, <2>3, StepCases, CallMoves
  <1> QED
    BY <1>1, Invariance, PTL DEF Spec

=============================================================================
