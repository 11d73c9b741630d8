----------------------------- MODULE MCServices ----------------------------
(* Two services beside the agent loop for TLC, one at a time: the job      *)
(* registry, and the retries of a step's model request.                    *)
EXTENDS JobRegistry

CONSTANTS Policies, MaxRequests, MaxReloads

VARIABLES service,
          log, at, policy, failure, pending, action, requests, aborted, plugin, captured, active,
          reloads

retries == <<log, at, policy, failure, pending, action, requests, aborted, plugin, captured,
             active, reloads>>

Retries == INSTANCE LlmRetry

ASSUME PoliciesAssumption == Retries!PoliciesAreKeyed
ASSUME BoundsAssumption == MaxRequests \in Nat \ {0} /\ MaxReloads \in Nat

\* The policies of the run.
FourPolicies ==
  {[key |-> "n2", mode |-> "normal", max |-> 2], [key |-> "n1", mode |-> "normal", max |-> 1],
   [key |-> "a", mode |-> "always", max |-> 0], [key |-> "off", mode |-> "off", max |-> 0]}

MCInit == /\ service \in {"jobs", "retries"}
          /\ Init /\ Retries!Init
          /\ service = "jobs" => policy.mode = "off"
MCNext == /\ UNCHANGED service
          /\ \/ service = "jobs" /\ Next /\ UNCHANGED retries
             \/ service = "retries" /\ Retries!Next /\ UNCHANGED vars

(* Nothing is owed in an initial state, so the service that is not looked  *)
(* at is fair by standing still.                                           *)
MCSpec == MCInit /\ [][MCNext]_<<service, vars, retries>> /\ Fairness /\ Retries!Fairness

(* What the retries of a step keep, as LlmRetry states it. *)
RetriesAreSound == Retries!RetriesAreSound

(* A settlement is final and quiet (KeepsSettlements of JobRegistry) and a *)
(* retry is logged in time (LogsInTime of LlmRetry).                       *)
NothingComesLate == [][KeepsSettlements /\ Retries!LogsInTime]_<<vars, retries>>

(* An owner's completion is heard of, and a disposal ends unless a         *)
(* cancelled producer never does: the parts are stated in JobRegistry and  *)
(* LlmRetry.                                                               *)
EverythingEnds == CompletionIsHeard /\ DisposalEnds /\ Retries!DisposalDrains
=============================================================================
