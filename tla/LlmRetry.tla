------------------------------ MODULE LlmRetry ------------------------------
(* The recovery of failed model requests in one step: the retry plugin     *)
(* (packages/llm/llm-retry/src/index.ts), the requests that                *)
(* Agent.step sends (packages/core/agent-loop/src/agent.ts) and the other  *)
(* listeners of agent/request-error, before and after it in the waterfall. *)
(* Delays are not numbers here: a delay may end at any time.               *)
EXTENDS Naturals, Sequences, FiniteSets

CONSTANTS Policies,    \* records [key, mode, max]: mode "off", "normal", "always"
          MaxRequests, \* bound: requests of the step
          MaxReloads   \* bound: times the plugin is installed again

\* A key spells out the policy it is the key of (retryPolicyKey).
PoliciesAreKeyed ==
  /\ \A p \in Policies : p.mode \in {"off", "normal", "always"} /\ p.max \in Nat
  /\ \A p, q \in Policies : p.key = q.key => p = q

VARIABLES log,       \* the step's llm/retry and llm/retry-started events, each with
                     \* the installation of the plugin that logged it (history)
          at,        \* where the recovery is
          policy,    \* retryPolicy of the request that failed
          failure,   \* its failure, as the policy classifies it
          pending,   \* the number of the retry that waits
          action,    \* the RequestErrorAction answered
          requests,  \* requests sent
          aborted,   \* the turn's signal
          plugin,    \* "on", "disposing" or "off"
          captured,  \* the plugin's callback in this waterfall: "none",
                     \* "live", or "dead" once its lifetime is aborted
          active,    \* the plugin tracks this recovery
          reloads

request == <<policy, failure, requests>>
life    == <<plugin, reloads>>
vars    == <<log, at, request, pending, action, aborted, life, captured, active>>

Failures == [retryable : BOOLEAN, after : {"none", "short", "long"}]

TypeOK ==
  /\ log \in Seq([type : {"retry", "started"}, key : {p.key : p \in Policies},
                  retry : 1 .. MaxRequests, life : 0 .. MaxReloads])
  /\ at \in {"request", "waterfall", "next", "downstream", "delay", "answered", "ended"}
  /\ policy \in Policies /\ failure \in Failures
  /\ pending \in 0 .. MaxRequests /\ action \in {"retry", "none"}
  /\ requests \in 1 .. MaxRequests
  /\ aborted \in BOOLEAN /\ active \in BOOLEAN
  /\ plugin \in {"on", "disposing", "off"} /\ captured \in {"none", "live", "dead"}
  /\ reloads \in 0 .. MaxReloads

Init ==
  /\ log = <<>> /\ at = "request" /\ requests = 1
  /\ policy \in Policies /\ failure = [retryable |-> FALSE, after |-> "none"]
  /\ pending = 0 /\ action = "none"
  /\ aborted = FALSE /\ plugin = "on" /\ captured = "none" /\ active = FALSE /\ reloads = 0

\* fusedSignal.aborted
Cancelled == aborted \/ captured = "dead"

---------------------------------------------------------------------------
(* The request and its failure.                                            *)

Succeed ==
  /\ at = "request" /\ at' = "ended"
  /\ UNCHANGED <<log, request, pending, action, aborted, life, captured, active>>

\* The waterfall keeps the callbacks that are registered when it starts.
Fail ==
  /\ at = "request" /\ at' = "waterfall"
  /\ policy' \in Policies /\ failure' \in Failures
  /\ captured' = IF plugin = "on" THEN "live" ELSE "none"
  /\ UNCHANGED <<log, requests, pending, action, aborted, life, active>>

Go(place, tracked) ==
  /\ at' = place /\ active' = tracked
  /\ UNCHANGED <<log, pending, action>>

LeavesActive == FALSE

Answer(a) ==
  /\ at' = "answered" /\ action' = a /\ active' = LeavesActive
  /\ UNCHANGED pending

---------------------------------------------------------------------------
(* recover.                                                                *)

RetriesOf(key) == {i \in DOMAIN log : log[i].type = "retry" /\ log[i].key = key}

\* A bug: a retry that was cancelled in its wait is not counted.
PreviousStarted ==
  LET started == {i \in DOMAIN log : log[i].type = "started" /\ log[i].key = policy.key}
  IN IF started = {} THEN 0 ELSE log[CHOOSE i \in started : \A j \in started : j <= i].retry

Previous == IF RetriesOf(policy.key) = {} THEN 0
            ELSE log[CHOOSE i \in RetriesOf(policy.key) :
                       \A j \in RetriesOf(policy.key) : j <= i].retry

Entry(type, number) == [type |-> type, key |-> policy.key, retry |-> number, life |-> reloads]

Spent == policy.mode = "normal" /\ Previous >= policy.max
Number == Previous + 1

\* The policy waits before the request is sent again, unless its retries are
\* spent or the provider asks for more time than the policy allows.
Recover ==
  IF Spent \/ (policy.mode = "normal" /\ failure.after = "long")
  THEN Go("next", TRUE)
  ELSE IF Cancelled THEN Answer("none") /\ UNCHANGED log
  ELSE /\ log' = Append(log, Entry("retry", Number))
       /\ pending' = Number /\ at' = "delay" /\ active' = TRUE
       /\ UNCHANGED action

Enter ==
  /\ at = "waterfall"
  /\ \/ captured = "none" /\ Go("next", FALSE)
     \/ captured = "dead" /\ Answer("none") /\ UNCHANGED log
     \/ /\ captured = "live"
        /\ IF policy.mode = "always"
           THEN IF aborted THEN Answer("none") /\ UNCHANGED log ELSE Go("downstream", TRUE)
           ELSE IF policy.mode = "off" \/ ~failure.retryable THEN Go("next", TRUE)
           ELSE Recover
  /\ UNCHANGED <<request, aborted, life, captured>>

\* A listener before the plugin answers without it.
Outside(a) ==
  /\ at = "waterfall"
  /\ Answer(a) /\ captured' = "none"
  /\ UNCHANGED <<log, request, aborted, life>>

\* The listeners after the plugin settle; what they answer or throw is the
\* answer, except that an always policy goes on alone.
NextSettles(a) ==
  /\ at = "next"
  /\ Answer(a)
  /\ UNCHANGED <<log, request, aborted, life, captured>>

DownstreamSettles(a) ==
  /\ at = "downstream"
  /\ IF Cancelled THEN Answer("none") /\ UNCHANGED log
     ELSE IF a = "retry" THEN Answer("retry") /\ UNCHANGED log
     ELSE Recover
  /\ UNCHANGED <<request, aborted, life, captured>>

DelayEnds ==
  /\ at = "delay"
  /\ IF Cancelled THEN Answer("none") /\ UNCHANGED log
     ELSE /\ Answer("retry")
          /\ log' = Append(log, Entry("started", pending))
  /\ UNCHANGED <<request, aborted, life, captured>>

\* A listener before the plugin may answer otherwise once its next() has returned;
\* Agent.step goes on with what it gets.
Return(a) ==
  /\ at = "answered"
  /\ IF aborted \/ a = "none" THEN at' = "ended" /\ UNCHANGED requests
     ELSE requests < MaxRequests /\ at' = "request" /\ requests' = requests + 1
  /\ captured' = "none"
  /\ UNCHANGED <<log, policy, failure, pending, action, aborted, life, active>>

---------------------------------------------------------------------------
(* Cancellation, and the plugin's own life.                                *)

Abort ==
  /\ ~aborted /\ at # "ended"
  /\ aborted' = TRUE
  /\ UNCHANGED <<log, at, request, pending, action, life, captured, active>>

Dispose ==
  /\ plugin = "on" /\ plugin' = "disposing"
  /\ captured' = IF captured = "live" THEN "dead" ELSE captured
  /\ UNCHANGED <<log, at, request, pending, action, aborted, active, reloads>>

Drained ==
  /\ plugin = "disposing" /\ ~active
  /\ plugin' = "off"
  /\ UNCHANGED <<log, at, request, pending, action, aborted, captured, active, reloads>>

Install ==
  /\ plugin = "off" /\ reloads < MaxReloads
  /\ plugin' = "on" /\ reloads' = reloads + 1
  /\ UNCHANGED <<log, at, request, pending, action, aborted, captured, active>>

Settles == \E a \in {"retry", "none"} : NextSettles(a) \/ DownstreamSettles(a)

Next ==
  \/ Succeed \/ Fail \/ Enter \/ Settles \/ DelayEnds
  \/ \E a \in {"retry", "none"} : Outside(a) \/ Return(a)
  \/ Abort \/ Dispose \/ Drained \/ Install

Spec == Init /\ [][Next]_vars

\* Listeners settle, timers fire, and the disposer runs on.
Fairness == WF_vars(Settles) /\ WF_vars(DelayEnds) /\ WF_vars(Drained)
FairSpec == Spec /\ Fairness

---------------------------------------------------------------------------
(* Properties.                                                             *)

\* A normal policy retries at most max times in a step, however policies
\* alternate, the plugin is reloaded and waits are cancelled.
WithinLimit ==
  \A p \in Policies : p.mode = "normal" => Cardinality(RetriesOf(p.key)) <= p.max

\* A retry that is logged is started before anything else of the step, or it is
\* the last of the installation that logged it: its wait was cancelled by the turn
\* or by the plugin's disposal.  And only a retry that was logged is started.
LoggedIsStarted ==
  \A i \in DOMAIN log :
    /\ log[i].type = "retry" /\ i < Len(log)
         => \/ log[i + 1] = [log[i] EXCEPT !.type = "started"]
            \/ log[i + 1].life > log[i].life
    /\ log[i].type = "started" => i > 1 /\ log[i - 1] = [log[i] EXCEPT !.type = "retry"]

\* An always policy gives up only for the turn's cancellation.
AlwaysGoesOn ==
  at = "answered" /\ action = "none" /\ policy.mode = "always" /\ captured = "live" => aborted

\* What the retries of a step keep, whatever the plugin lives through meanwhile.
RetriesAreSound == TypeOK /\ WithinLimit /\ LoggedIsStarted /\ AlwaysGoesOn

\* A step logs in time: nothing after the turn is cancelled, or by a plugin
\* whose disposal has begun.
LogsInTime == log' # log => ~aborted /\ captured = "live" /\ plugin = "on"

\* Disposal drains: it does not wait for a delay that it cancelled.
DisposalDrains == plugin = "disposing" ~> plugin = "off"
=============================================================================
