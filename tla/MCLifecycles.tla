---------------------------- MODULE MCLifecycles ---------------------------
(* Who is told that something lives, for TLC, one at a time: sessions and  *)
(* their events (SessionStore), agents and their drivers (AgentLifecycle). *)
EXTENDS SessionStore, TLC

CONSTANTS Attempts, Ids, Callers, Loop, None, MaxReloads

VARIABLES registry,
          call, at, aborted, disp, follows, joined, lent, live, heard, departed, frames, fiber, reloads

agents == <<call, at, aborted, disp, follows, joined, lent, live, heard, departed, frames, fiber,
            reloads>>

Agents == INSTANCE AgentLifecycle WITH
  Kinds <- {"create", "setup", "resume", "configured"}, stack <- frames

ASSUME LifecyclesAssumption == Agents!NamesAreApart

\* Where sessions are looked at, the attempts do not matter.
MCInit == /\ registry \in {"sessions", "agents"}
          /\ Init /\ Agents!Init
          /\ registry = "sessions" => \A a \in Attempts : call[a].kind = "configured"
MCNext == /\ UNCHANGED registry
          /\ \/ registry = "sessions" /\ Next /\ UNCHANGED agents
             \/ registry = "agents" /\ Agents!Next /\ UNCHANGED vars
MCSpec == MCInit /\ [][MCNext]_<<registry, vars, agents>>

Symmetry == Permutations(Sessions) \cup Permutations(Attempts) \cup Permutations(Ids)

(* What observers of sessions hear: the parts are stated in SessionStore. *)
AudienceIsServed == TypeOK /\ HeardInOrder /\ DisposalIsLast /\ EveryoneHeard /\ DetachIsHonoured

(* OneDriver of AgentLifecycle, stated and explained there. *)
OneDriver == Agents!OneDriver

(* What the end of an attempt, an agent, an owner and the provider leaves: *)
(* the parts are stated in AgentLifecycle.                                 *)
NothingIsLeft ==
  Agents!TypeOK /\ Agents!NothingLeft /\ Agents!ProviderGone /\ Agents!OwnerGoneLeaving
=============================================================================
