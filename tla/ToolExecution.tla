---------------------------- MODULE ToolExecution ----------------------------
(* The stages of a tool call in the tool runtime (core/tools/src/index.ts): *)
(* policy and approval, the wrappers around the body (a timeout, the        *)
(* checkpoint that stores the call first, and the retry that the runtime    *)
(* documents), the body, which may ask for a wider sandbox, and the post    *)
(* policy, for calls of one step under one signal, with the session's       *)
(* approval policy in its log (interaction/user-approval/src/index.ts).     *)
EXTENDS Naturals, Sequences, FiniteSets

CONSTANTS Calls,
          MaxAttempts, \* bound: attempts of a retry wrapper; 1 when none is composed
          MaxSwitches, \* bound: policy switches of the user
          MaxAsks      \* bound: questions of a call, its gate's and its body's

VARIABLES log,       \* the session's approval events
          stage,     \* of each call
          waiting,   \* the prompt a call waits for, or 0
          prompts,   \* the open prompts: [id, call], also those of withdrawn questions
          result, attempt,
          ran,       \* times a call's body was invoked
          stored,    \* calls whose checkpoint succeeded
          timedOut,  \* calls whose deadline fired
          aborted,   \* the caller's signal
          switches

asking == <<log, waiting, prompts, switches>>
vars   == <<asking, stage, result, attempt, ran, stored, timedOut, aborted>>

Policies == {"ask", "never", "always-allow"}
Grants   == {"allowed-once", "allowed-for-session"}
Answers  == Grants \cup {"rejected", "unavailable"}
Errors   == {"failed", "aborted", "before", "timeout"}
InBody   == {"flush", "body", "escalating"}

Events(op) == {i \in DOMAIN log : log[i].op = op}

\* effectiveApprovalPolicy: the last switch, else the configured default.
PolicyAt(i) ==
  LET switched == {j \in Events("policy") : j <= i}
  IN IF switched = {} THEN "ask" ELSE log[CHOOSE j \in switched : \A k \in switched : k <= j].policy

Policy == PolicyAt(Len(log))

TypeOK ==
  /\ \A i \in DOMAIN log : log[i].op \in {"asked", "decided", "policy"}
  /\ stage \in [Calls -> {"new", "gate", "asking", "ready", "after", "done"} \cup InBody]
  /\ waiting \in [Calls -> Nat] /\ prompts \subseteq [id : Nat, call : Calls]
  /\ result \in [Calls -> Errors \cup {"none", "ok"}]
  /\ attempt \in [Calls -> 1 .. MaxAttempts] /\ ran \in [Calls -> 0 .. MaxAttempts]
  /\ stored \subseteq Calls /\ timedOut \subseteq Calls /\ aborted \in BOOLEAN
  /\ \A c \in Calls : waiting[c] # 0 <=> stage[c] \in {"asking", "escalating"}

Init ==
  /\ log = <<>> /\ stage = [c \in Calls |-> "new"] /\ waiting = [c \in Calls |-> 0]
  /\ prompts = {} /\ result = [c \in Calls |-> "none"] /\ attempt = [c \in Calls |-> 1]
  /\ ran = [c \in Calls |-> 0] /\ stored = {} /\ timedOut = {} /\ aborted = FALSE /\ switches = 0

-----------------------------------------------------------------------------
Goto(c, s) == stage' = [stage EXCEPT ![c] = s]
Keep       == UNCHANGED <<result, attempt, ran>>

\* cancellationResult: cancellation replaces a success, by whether the body was invoked.
Code(c, r) ==
  CASE ~aborted \/ r # "ok" -> r
    [] aborted /\ r = "ok" /\ ran[c] > 0 -> "aborted"
    [] OTHER -> "before"

\* A post-result still sees the post policy; a final result does not.
After(c, r) ==
  /\ Goto(c, "after") /\ result' = [result EXCEPT ![c] = Code(c, r)]
  /\ UNCHANGED <<attempt, ran>>
Final(c, r) ==
  /\ Goto(c, "done") /\ result' = [result EXCEPT ![c] = r]
  /\ UNCHANGED <<attempt, ran>>

Invoke(c) == Goto(c, "body") /\ ran' = [ran EXCEPT ![c] = @ + 1] /\ UNCHANGED result

\* The signal of a body: the caller's, fused with the deadline around the first attempt.
Cancelled(c) == aborted \/ (c \in timedOut /\ attempt[c] = 1)

\* What a wrapper's next() answered: it goes on to the post policy, or a retry calls
\* next() again.  The waterfall has handed out the inner wrappers (events.ts:237), so a
\* retry reaches the body's own check of the signal, without deadline and checkpoint.
Retry(c, r) ==
  /\ r \in Errors /\ attempt[c] < MaxAttempts
  /\ attempt' = [attempt EXCEPT ![c] = @ + 1]
  /\ IF aborted
     THEN Goto(c, "after") /\ result' = [result EXCEPT ![c] = "before"] /\ UNCHANGED ran
     ELSE Invoke(c)
Answered(c, r) ==
  LET own == IF c \in timedOut /\ attempt[c] = 1 THEN "timeout" ELSE r
  IN After(c, own) \/ Retry(c, own)

-----------------------------------------------------------------------------
(* Approval *)

Asked(c)      == [op |-> "asked", call |-> c]
Decided(c, o) == [op |-> "decided", call |-> c, outcome |-> o]
Switch(p, by) == [op |-> "policy", policy |-> p, by |-> by]

\* What the call does with an outcome: a gate goes on to the guards, an escalation to
\* the body or to its failure.  A guard may deny what was granted.
Permit(c) ==
  \/ IF aborted THEN After(c, "before") ELSE Goto(c, "ready") /\ Keep
  \/ After(c, "failed")
Apply(c, gate, outcome) ==
  CASE gate /\ outcome \in Grants               -> Permit(c)
    [] gate /\ outcome = "cancelled" /\ aborted -> After(c, "before")
    [] gate /\ outcome \notin Grants /\ ~(outcome = "cancelled" /\ aborted) -> After(c, "failed")
    [] ~gate /\ outcome \in Grants              -> Goto(c, "body") /\ Keep
    [] OTHER                                    -> Answered(c, "failed")

\* The signal of the question: the caller's at the gate, the body's in an escalation.
Withdrawn(c, gate) == IF gate THEN aborted ELSE Cancelled(c)

\* A question: what is decided at once is logged at once, anything else is a prompt.
Request(c, gate) ==
  LET at == IF Withdrawn(c, gate) THEN {"cancelled"}
            ELSE IF Policy = "never" THEN {"rejected"}
            ELSE IF Policy = "always-allow" THEN {"allowed-once"}
            ELSE {}
  IN \/ \E o \in at : /\ log' = log \o <<Asked(c), Decided(c, o)>>
                      /\ Apply(c, gate, o) /\ UNCHANGED <<waiting, prompts>>
     \/ /\ at = {} /\ log' = Append(log, Asked(c))
        /\ waiting' = [waiting EXCEPT ![c] = Len(log')]
        /\ prompts' = prompts \cup {[id |-> Len(log'), call |-> c]}
        /\ Goto(c, IF gate THEN "asking" ELSE "escalating") /\ Keep

\* A grant for the session becomes its policy, in front of the decision.
Decide(c, outcome) ==
  /\ log' = log \o (IF outcome = "allowed-for-session" THEN <<Switch("always-allow", "grant")>> ELSE <<>>)
                \o <<Decided(c, outcome)>>
  /\ waiting' = [waiting EXCEPT ![c] = 0]
  /\ Apply(c, stage[c] = "asking", outcome)

\* A bug: an answer counts although the question was withdrawn.
AnswerLate(p, outcome) ==
  /\ prompts' = prompts \ {p} /\ UNCHANGED <<switches, stored, timedOut, aborted>>
  /\ IF waiting[p.call] = p.id THEN Decide(p.call, outcome)
     ELSE /\ log' = IF outcome = "allowed-for-session"
                    THEN Append(log, Switch("always-allow", "grant")) ELSE log
          /\ UNCHANGED <<waiting, stage, result, attempt, ran>>

\* A person or a machine policy answers; the answer to a withdrawn question is dropped.
Answer(p, outcome) ==
  /\ prompts' = prompts \ {p} /\ UNCHANGED <<switches, stored, timedOut, aborted>>
  /\ IF waiting[p.call] = p.id THEN Decide(p.call, outcome)
     ELSE UNCHANGED <<log, waiting, stage, result, attempt, ran>>

Withdraw(c) ==
  /\ waiting[c] # 0 /\ Withdrawn(c, stage[c] = "asking")
  /\ Decide(c, "cancelled")
  /\ UNCHANGED <<prompts, switches, stored, timedOut, aborted>>

UserSwitches(p) ==
  /\ switches < MaxSwitches /\ switches' = switches + 1 /\ p # Policy
  /\ log' = Append(log, Switch(p, "user"))
  /\ UNCHANGED <<waiting, prompts, stage, result, attempt, ran, stored, timedOut, aborted>>

-----------------------------------------------------------------------------
(* The stages *)

\* Preparations are ordered; a call that is aborted at its entry has its result.
Prepare(c) ==
  /\ stage[c] = "new" /\ \A d \in Calls : stage[d] \notin {"gate", "asking"}
  /\ IF aborted THEN Final(c, "before") ELSE Goto(c, "gate") /\ Keep
  /\ UNCHANGED <<asking, stored, timedOut, aborted>>

\* The listeners allow, deny (so does a missing approval service), ask or throw.
Gate(c) ==
  /\ stage[c] = "gate" /\ UNCHANGED <<switches, stored, timedOut, aborted>>
  /\ \/ /\ Permit(c) \/ Final(c, "failed")
        /\ UNCHANGED <<log, waiting, prompts>>
     \/ Request(c, TRUE)

\* A wrapper answers by itself, or the call is stored first.
Dispatch(c) ==
  /\ stage[c] = "ready"
  /\ After(c, "ok") \/ (Goto(c, "flush") /\ Keep)
  /\ UNCHANGED <<asking, stored, timedOut, aborted>>

\* A bug: the body does not wait for the checkpoint.
CheckpointSkipped(c) ==
  /\ stage[c] = "flush"
  /\ IF Cancelled(c) THEN Answered(c, "before") ELSE Invoke(c) /\ UNCHANGED attempt
  /\ UNCHANGED <<asking, stored, timedOut, aborted>>

Checkpoint(c) ==
  /\ stage[c] = "flush" /\ stored' = stored \cup {c}
  /\ IF Cancelled(c) THEN Answered(c, "before") ELSE Invoke(c) /\ UNCHANGED attempt
  /\ UNCHANGED <<asking, timedOut, aborted>>

\* A failed flush throws through the wrappers.
CheckpointFails(c) ==
  /\ stage[c] = "flush"
  /\ Final(c, "failed") \/ Retry(c, "failed")
  /\ UNCHANGED <<asking, stored, timedOut, aborted>>

Settle(c) ==
  /\ stage[c] = "body"
  /\ \E r \in {"ok", "failed"} :
       Answered(c, IF r = "ok" /\ Cancelled(c) THEN "aborted" ELSE r)
  /\ UNCHANGED <<asking, stored, timedOut, aborted>>

\* approveEscalation: the body asks for a wider mode before it acts.
Escalate(c) ==
  /\ stage[c] = "body" /\ Request(c, FALSE)
  /\ Cardinality({i \in Events("asked") : log[i].call = c}) < MaxAsks
  /\ UNCHANGED <<switches, stored, timedOut, aborted>>

\* A bug: the signal is not looked at after the post policy.
FinalizeBlindly(c) ==
  /\ stage[c] = "after" /\ \E r \in {result[c], "failed"} : Final(c, r)
  /\ UNCHANGED <<asking, stored, timedOut, aborted>>

\* The post policy accepts, or it blocks or throws.
Finalize(c) ==
  /\ stage[c] = "after" /\ \E r \in {result[c], "failed"} : Final(c, Code(c, r))
  /\ UNCHANGED <<asking, stored, timedOut, aborted>>

Abort ==
  /\ ~aborted /\ aborted' = TRUE
  /\ UNCHANGED <<asking, stage, result, attempt, ran, stored, timedOut>>

\* The deadline counts from the wrapper; after the caller's abort it is not the reason.
Timeout(c) ==
  /\ stage[c] \in InBody /\ attempt[c] = 1 /\ ~aborted
  /\ timedOut' = timedOut \cup {c}
  /\ UNCHANGED <<asking, stage, result, attempt, ran, stored, aborted>>

Step(c) == \/ Prepare(c) \/ Gate(c) \/ Dispatch(c) \/ Checkpoint(c) \/ CheckpointFails(c)
           \/ Settle(c) \/ Withdraw(c) \/ Finalize(c)
Next ==
  \/ \E c \in Calls : Step(c) \/ Escalate(c) \/ Timeout(c)
  \/ \E p \in prompts, o \in Answers : Answer(p, o)
  \/ \E p \in Policies : UserSwitches(p)
  \/ Abort

Spec == Init /\ [][Next]_vars

(* Listeners and flushes settle, and a body whose signal fired does.  No   *)
(* answer of a person is counted on.                                       *)
Ends(c) == Step(c) /\ (stage[c] = "body" => Cancelled(c))
Fairness == \A c \in Calls : WF_vars(Ends(c))
FairSpec == Spec /\ Fairness

-----------------------------------------------------------------------------
(* Properties *)

\* Every question has exactly one decision, made before its call goes on (index.ts:271).
AuditPaired ==
  \A c \in Calls :
    Cardinality({i \in Events("asked") : log[i].call = c})
      = Cardinality({i \in Events("decided") : log[i].call = c})
          + (IF waiting[c] # 0 THEN 1 ELSE 0)

\* The session's policy becomes always-allow only by a switch of the user or by a
\* decision that is in the log, never by the late answer to a withdrawn question.
GrantIsDecided ==
  \A i \in Events("policy") : log[i].by = "grant" =>
    i < Len(log) /\ log[i + 1].op = "decided" /\ log[i + 1].outcome = "allowed-for-session"

\* A question that was put under never is rejected or cancelled, whatever is switched
\* while other questions are open (index.ts:320).
NeverIsNever ==
  \A j \in Events("decided") : log[j].outcome \in Grants =>
    LET own == {i \in Events("asked") : i < j /\ log[i].call = log[j].call}
    IN PolicyAt(CHOOSE i \in own : \A k \in own : k <= i) # "never"

\* The code of a cancelled result tells whether the body was invoked, also when the abort
\* meets a wrapper's answer, an open question or the post policy (core/tools:465).
CodeIsHonest ==
  \A c \in Calls : /\ result[c] = "before" => ran[c] = 0
                   /\ result[c] = "aborted" => ran[c] > 0

\* The body of a call acts only on a stored call (session-checkpoint-policy:73).
StoredBeforeEffect == \A c \in Calls : ran[c] > 0 => c \in stored

\* Who may run a tool, and what is said of a body's effects.  A retry has neither
\* checkpoint nor an honest code, so the second is about runs without one.
ApprovalIsSound  == TypeOK /\ AuditPaired /\ GrantIsDecided /\ NeverIsNever
EffectsAreHonest == CodeIsHonest /\ StoredBeforeEffect

\* A call's own failure, denial or timeout is not replaced by a cancellation, and no
\* success is delivered once the caller has aborted (core/tools/src/index.ts:1592).
KeepsOutcome ==
  \A c \in Calls :
    /\ result[c] \in {"failed", "timeout"} => result'[c] \in {"failed", "timeout"}
    /\ aborted /\ stage[c] # "done" /\ stage'[c] = "done" => result'[c] # "ok"

\* An abort ends every call, although nobody answers its question.
AbortEnds == aborted ~> \A c \in DOMAIN stage : stage[c] = "done"
=============================================================================
