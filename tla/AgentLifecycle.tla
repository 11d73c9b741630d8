--------------------------- MODULE AgentLifecycle ---------------------------
(* How agents are created, resumed, published and torn down by AgentLoop   *)
(* (packages/core/agent-loop/src/index.ts) in the registries of agents and *)
(* sessions (packages/core/agent/src/index.ts, core/session/src/index.ts). *)
(*                                                                         *)
(* Plugins live in fibers.  A fiber that unloads runs all its disposers    *)
(* concurrently, each from a microtask of its own; the scope of an agent   *)
(* is itself a fiber, owned by the loop's.  Publication is synchronous:    *)
(* `stack' is the nesting of announcements whose listeners are running,    *)
(* and continuations of awaits run when it is empty.                       *)
EXTENDS Naturals, Sequences, FiniteSets

CONSTANTS Attempts,  \* calls of create, createAgent, resume and configured starts
          Ids,
          Callers,   \* fibers of the plugins that create agents
          Loop,      \* the fiber of AgentLoop
          None,
          Kinds,     \* bound: the calls made
          MaxReloads \* bound: reloads of AgentLoop

VARIABLES call,     \* the arguments of an attempt: kind, id and owner
          at,       \* where its continuation is
          aborted,  \* its fused abort signal
          disp,     \* its memoized disposal
          follows,  \* attempts whose effect is registered with their owner
          joined,   \* attempts whose disposal an owner's unload awaits
          lent,     \* its persistence reservation
          live,     \* the id's entry in both registries
          heard,    \* announcements of creation, by registry and attempt
          departed, \* announcements of disposal
          stack, fiber, reloads

vars == <<call, at, aborted, disp, follows, joined, lent, live, heard, departed, stack, fiber,
          reloads>>

\* Attempts and the loop's fiber are objects of their own, and the bound is a number.
NamesAreApart == None \notin Attempts /\ Loop \notin Attempts /\ MaxReloads \in Nat

Fibers == Callers \cup {Loop} \cup Attempts
Calls == [kind : Kinds, id : Ids, owner : Fibers]
Edges == {"session", "agent", "start"}

Quiet == stack = <<>>
Active(p) == fiber[p] = "active"
Id(a) == call[a].id
Owner(a) == call[a].owner
Settled == {"owned", "rejected"}

TypeOK ==
  /\ call \in [Attempts -> Calls]
  /\ at \in [Attempts -> {"none", "waiting", "released", "loading", "loaded", "missing", "setup",
                          "composed", "publish", "owned", "failing", "rejected"}]
  /\ aborted \in [Attempts -> BOOLEAN]
  /\ disp \in [Attempts -> {"no", "draining", "unwinding", "done"}]
  /\ follows \subseteq Attempts /\ joined \subseteq Attempts
  /\ lent \in [Attempts -> {"no", "asked", "held"}]
  /\ live \in [Ids -> Attempts \cup {None}]
  /\ heard \subseteq {"session", "agent"} \X Attempts /\ departed \subseteq heard
  /\ stack \in Seq([of : Attempts, edge : Edges])
  /\ fiber \in [Fibers -> {"none", "active", "unloading", "gone"}]
  /\ reloads \in 0 .. MaxReloads

Init ==
  /\ call \in [Attempts -> Calls]
  /\ \A a \in Attempts : /\ Owner(a) # a
                         /\ (Owner(a) = Loop) = (call[a].kind = "configured")
  /\ at = [a \in Attempts |-> "none"]
  /\ aborted = [a \in Attempts |-> FALSE]
  /\ disp = [a \in Attempts |-> "no"]
  /\ follows = {} /\ joined = {}
  /\ lent = [a \in Attempts |-> "no"]
  /\ live = [i \in Ids |-> None]
  /\ heard = {} /\ departed = {} /\ stack = <<>>
  /\ fiber = [p \in Fibers |-> IF p \in Attempts THEN "none" ELSE "active"]
  /\ reloads = 0

\* The scope and the disposer of a prepared attempt exist.
Prepared(a) == fiber[a] # "none"

MayPrepare(a, own) == Active(own) /\ Active(Loop) /\ ~aborted[a]

\* A bug: a preparation that is not published stays reserved.
Keep(a) == lent' = lent

\* Disposing the SessionPreparation.
Release(a) == lent' = [lent EXCEPT ![a] = "no"]

\* The memoized disposal of attempts: abort, cancel the driver, await it.
Dispose(S) ==
  LET first == {a \in S : disp[a] = "no"} IN
  /\ disp' = [a \in Attempts |-> IF a \in first THEN "draining" ELSE disp[a]]
  /\ aborted' = [a \in Attempts |-> aborted[a] \/ a \in first]

-----------------------------------------------------------------------------
(* Publication *)

\* An exception after prepare(): the failed creation disposes what it built.
Fail(a) ==
  /\ at' = [at EXCEPT ![a] = "failing"]
  /\ Dispose({a})

Enter(a, rest) ==
  /\ at' = [at EXCEPT ![a] = "publish"]
  /\ live' = [live EXCEPT ![Id(a)] = a]
  /\ heard' = heard \cup {<<"session", a>>}
  /\ stack' = Append(rest, [of |-> a, edge |-> "session"])
  /\ UNCHANGED <<aborted, disp>>

\* The setup commits its provisions and the collision check decides.
Publish(a) ==
  /\ Quiet /\ at[a] = "composed"
  /\ IF aborted[a] \/ live[Id(a)] # None
     THEN Fail(a) /\ UNCHANGED <<live, heard, stack>>
     ELSE Enter(a, stack)
  /\ UNCHANGED <<call, follows, joined, lent, departed, fiber, reloads>>

\* commit() throws.
CommitFails(a) ==
  /\ Quiet /\ at[a] = "composed"
  /\ Fail(a)
  /\ UNCHANGED <<call, follows, joined, lent, live, heard, departed, stack, fiber, reloads>>

Top == stack[Len(stack)]
Rest == SubSeq(stack, 1, Len(stack) - 1)

\* The announcement's listeners have run; the signal is read again before the next one.
Announced ==
  /\ ~Quiet
  /\ LET a == Top.of IN
     IF aborted[a] THEN Fail(a) /\ stack' = Rest /\ UNCHANGED <<heard, lent>>
     ELSE /\ CASE Top.edge = "session" ->
                    /\ heard' = heard \cup {<<"agent", a>>}
                    /\ stack' = Append(Rest, [of |-> a, edge |-> "agent"])
                    /\ UNCHANGED <<at, lent>>
               [] Top.edge = "agent" ->
                    /\ stack' = Append(Rest, [of |-> a, edge |-> "start"])
                    /\ UNCHANGED <<at, heard, lent>>
               [] OTHER ->
                    /\ at' = [at EXCEPT ![a] = "owned"]
                    /\ Release(a) /\ stack' = Rest /\ UNCHANGED heard
          /\ UNCHANGED <<aborted, disp>>
  /\ UNCHANGED <<call, follows, joined, live, departed, fiber, reloads>>

\* A listener of a creation throws and vetoes it.
Vetoed ==
  /\ ~Quiet /\ Top.edge # "start"
  /\ Fail(Top.of) /\ stack' = Rest
  /\ UNCHANGED <<call, follows, joined, lent, live, heard, departed, fiber, reloads>>

-----------------------------------------------------------------------------
(* Calls.  A listener may make one too, so they need no quiet stack. *)

\* The scope is minted, and the disposal registered with the factory and the owner.
Prepare(a) ==
  /\ fiber' = [fiber EXCEPT ![a] = "active"]
  /\ follows' = follows \cup {a}

\* AgentLoop.create: publishes before it returns.
Create(a) ==
  /\ at[a] = "none" /\ call[a].kind = "create"
  /\ IF MayPrepare(a, Owner(a)) /\ live[Id(a)] = None
     THEN Enter(a, stack) /\ Prepare(a)
     ELSE /\ at' = [at EXCEPT ![a] = "rejected"]
          /\ UNCHANGED <<aborted, disp, live, heard, stack, follows, fiber>>
  /\ UNCHANGED <<call, joined, lent, departed, reloads>>

\* AgentLoop.createAgent: setup begins.
CreateAgent(a) ==
  /\ at[a] = "none" /\ call[a].kind = "setup"
  /\ IF MayPrepare(a, Owner(a)) /\ live[Id(a)] = None
     THEN at' = [at EXCEPT ![a] = "setup"] /\ Prepare(a)
     ELSE at' = [at EXCEPT ![a] = "rejected"] /\ UNCHANGED <<follows, fiber>>
  /\ UNCHANGED <<call, aborted, disp, joined, lent, live, heard, departed, stack, reloads>>

Load(a) ==
  /\ at' = [at EXCEPT ![a] = "loading"]
  /\ follows' = follows \cup {a}
  /\ lent' = [lent EXCEPT ![a] = "asked"]

\* AgentLoop.resume: registers an effect that follows the owner while it loads.
Resume(a) ==
  /\ at[a] = "none" /\ call[a].kind = "resume"
  /\ IF Active(Owner(a)) /\ Active(Loop) /\ ~aborted[a] THEN Load(a)
     ELSE at' = [at EXCEPT ![a] = "rejected"] /\ UNCHANGED <<follows, lent>>
  /\ UNCHANGED <<call, aborted, disp, joined, live, heard, departed, stack, fiber, reloads>>

\* A configured start waits for a draining agent of its identity, then resumes it.
Configured(a) ==
  /\ Quiet /\ call[a].kind = "configured" /\ at[a] \in {"none", "waiting", "released"}
  /\ IF ~Active(Loop) THEN at' = [at EXCEPT ![a] = "rejected"] /\ UNCHANGED <<follows, lent>>
     ELSE IF at[a] = "none" /\ live[Id(a)] # None
     THEN at' = [at EXCEPT ![a] = "waiting"] /\ UNCHANGED <<follows, lent>>
     ELSE at[a] # "waiting" /\ Load(a)
  /\ UNCHANGED <<call, aborted, disp, joined, live, heard, departed, stack, fiber, reloads>>

\* The caller's signal.
Cancel(a) ==
  /\ at[a] \notin Settled \cup {"none", "failing"} /\ disp[a] = "no"
  /\ call[a].kind \in {"setup", "resume"} /\ ~aborted[a]
  /\ aborted' = [aborted EXCEPT ![a] = TRUE]
  /\ UNCHANGED <<call, at, disp, follows, joined, lent, live, heard, departed, stack, fiber, reloads>>

\* The handle's dispose(); create() and a configured start hand out none.
DisposeHandle(a) ==
  /\ at[a] = "owned" /\ disp[a] = "no" /\ call[a].kind \in {"setup", "resume"}
  /\ Dispose({a})
  /\ UNCHANGED <<call, at, follows, joined, lent, live, heard, departed, stack, fiber, reloads>>

Unload(p) ==
  /\ Active(p) /\ p \notin Attempts
  /\ fiber' = [fiber EXCEPT ![p] = "unloading"]
  /\ UNCHANGED <<call, at, aborted, disp, follows, joined, lent, live, heard, departed, stack, reloads>>

-----------------------------------------------------------------------------
(* Continuations *)

\* The load answered before any abort.
Loaded(a) ==
  /\ Quiet /\ at[a] = "loading" /\ ~aborted[a]
  /\ at' = [at EXCEPT ![a] = "loaded"]
  /\ lent' = [lent EXCEPT ![a] = "held"]
  /\ UNCHANGED <<call, aborted, disp, follows, joined, live, heard, departed, stack, fiber, reloads>>

\* It failed: a configured start then asks whether the artifact exists.
LoadFails(a) ==
  /\ Quiet /\ at[a] = "loading" /\ ~aborted[a]
  /\ at' = [at EXCEPT ![a] = IF call[a].kind = "configured" /\ Active(Loop)
                             THEN "missing" ELSE "rejected"]
  /\ Release(a)
  /\ follows' = follows \ {a}
  /\ UNCHANGED <<call, aborted, disp, joined, live, heard, departed, stack, fiber, reloads>>

\* An aborted load is abandoned to the backend, which may never answer.
LoadAborted(a) ==
  /\ Quiet /\ at[a] = "loading" /\ aborted[a]
  /\ at' = [at EXCEPT ![a] = "rejected"]
  /\ follows' = follows \ {a}
  /\ UNCHANGED <<call, aborted, disp, joined, lent, live, heard, departed, stack, fiber, reloads>>

\* Its late answer is released.
LateLoad(a) ==
  /\ Quiet /\ at[a] = "rejected" /\ lent[a] = "asked"
  /\ Release(a)
  /\ UNCHANGED <<call, at, aborted, disp, follows, joined, live, heard, departed, stack, fiber,
                 reloads>>

\* The owner and the factory are checked again before setup.
AfterLoad(a) ==
  /\ Quiet /\ at[a] = "loaded"
  /\ IF MayPrepare(a, Owner(a))
     THEN at' = [at EXCEPT ![a] = "setup"] /\ Prepare(a) /\ UNCHANGED lent
     ELSE /\ at' = [at EXCEPT ![a] = "rejected"]
          /\ Release(a) /\ follows' = follows \ {a} /\ UNCHANGED fiber
  /\ UNCHANGED <<call, aborted, disp, joined, live, heard, departed, stack, reloads>>

\* persistence.list(): only an absent artifact falls back to a first creation.
Listed(a) ==
  /\ Quiet /\ at[a] = "missing"
  /\ \E exists \in BOOLEAN :
       IF ~exists /\ MayPrepare(a, Loop) /\ live[Id(a)] = None
       THEN Enter(a, stack) /\ Prepare(a)
       ELSE /\ at' = [at EXCEPT ![a] = "rejected"]
            /\ UNCHANGED <<aborted, disp, live, heard, stack, follows, fiber>>
  /\ UNCHANGED <<call, joined, lent, departed, reloads>>

Composed(a) ==
  /\ Quiet /\ at[a] = "setup" /\ ~aborted[a]
  /\ at' = [at EXCEPT ![a] = "composed"]
  /\ UNCHANGED <<call, aborted, disp, follows, joined, lent, live, heard, departed, stack, fiber,
                 reloads>>

\* Setup rejects, or its race with the signal does.
SetupFails(a) ==
  /\ Quiet /\ at[a] = "setup"
  /\ Fail(a)
  /\ UNCHANGED <<call, follows, joined, lent, live, heard, departed, stack, fiber, reloads>>

\* The failed attempt's promise rejects once its disposal has run.
Settle(a) ==
  /\ Quiet /\ at[a] = "failing" /\ disp[a] = "done"
  /\ at' = [at EXCEPT ![a] = "rejected"]
  /\ Release(a)
  /\ UNCHANGED <<call, aborted, disp, follows, joined, live, heard, departed, stack, fiber, reloads>>

-----------------------------------------------------------------------------
(* Teardown *)

\* whenIdle() resolves; the scope's fiber is told to unload.
Drained(a) ==
  /\ Quiet /\ disp[a] = "draining"
  /\ disp' = [disp EXCEPT ![a] = "unwinding"]
  /\ fiber' = [fiber EXCEPT ![a] = IF @ = "active" THEN "unloading" ELSE @]
  /\ UNCHANGED <<call, at, aborted, follows, joined, lent, live, heard, departed, stack, reloads>>

\* A bug: whoever is registered under the id is removed.
LeaveById(a) == [live EXCEPT ![Id(a)] = None]

\* A detach removes its own entry only.
Leave(a) == [i \in Ids |-> IF live[i] = a THEN None ELSE live[i]]

AnnouncedEdges(a) == {h \in heard : h[2] = a}

\* The scope is gone: both registries let go and announce it, releasing who waits for the id.
Unwound(a) ==
  /\ Quiet /\ disp[a] = "unwinding" /\ fiber[a] = "gone"
  /\ disp' = [disp EXCEPT ![a] = "done"]
  /\ live' = Leave(a)
  /\ departed' = departed \cup AnnouncedEdges(a)
  /\ at' = [b \in Attempts |-> IF at[b] = "waiting" /\ live'[Id(b)] = None
                               THEN "released" ELSE at[b]]
  /\ follows' = follows \ {a}
  /\ UNCHANGED <<call, aborted, joined, lent, heard, stack, fiber, reloads>>

\* The effect an attempt registered runs as its owner unloads: a load is aborted, a prepared
\* attempt disposed and awaited, and one that is being disposed already is left to it.
OwnerEffect(a) ==
  /\ Quiet /\ a \in follows /\ fiber[Owner(a)] = "unloading"
  /\ follows' = follows \ {a}
  /\ IF Prepared(a)
     THEN Dispose({a}) /\ joined' = joined \cup {b \in {a} : disp[a] = "no"}
     ELSE aborted' = [aborted EXCEPT ![a] = TRUE] /\ UNCHANGED <<disp, joined>>
  /\ UNCHANGED <<call, at, lent, live, heard, departed, stack, fiber, reloads>>

\* The loads and agents that hear of the provider's teardown.
Loads == {a \in Attempts : at[a] \in {"loading", "loaded"} /\ ~aborted[a]}

Agents == {a \in Attempts : Prepared(a) /\ disp[a] = "no"}

\* FactoryOwnership.dispose: aborts loads and disposes every live agent.
FactoryEffect ==
  /\ Quiet /\ fiber[Loop] = "unloading"
  /\ Loads \cup Agents # {}
  /\ disp' = [a \in Attempts |-> IF a \in Agents THEN "draining" ELSE disp[a]]
  /\ aborted' = [a \in Attempts |-> aborted[a] \/ a \in Loads \cup Agents]
  /\ UNCHANGED <<call, at, follows, joined, lent, live, heard, departed, stack, fiber, reloads>>

\* The scopes are fibers of the loop's, which unloads them beside everything else.
ScopeEffect(a) ==
  /\ Quiet /\ fiber[Loop] = "unloading" /\ Active(a)
  /\ fiber' = [fiber EXCEPT ![a] = "unloading"]
  /\ UNCHANGED <<call, at, aborted, disp, follows, joined, lent, live, heard, departed, stack,
                 reloads>>

\* Provider shutdown awaits every teardown, every scope and every public continuation.
FactoryDone ==
  \A a \in Attempts : /\ at[a] \in Settled \cup {"none"}
                      /\ Prepared(a) => disp[a] = "done" /\ fiber[a] = "gone"

\* All the disposers of a fiber have settled.
Gone(p) ==
  /\ Quiet /\ fiber[p] = "unloading"
  /\ \A a \in Attempts : Owner(a) = p => a \notin follows /\ (a \in joined => disp[a] = "done")
  /\ p = Loop => FactoryDone
  /\ fiber' = [fiber EXCEPT ![p] = "gone"]
  /\ UNCHANGED <<call, at, aborted, disp, follows, joined, lent, live, heard, departed, stack,
                 reloads>>

Reload ==
  /\ fiber[Loop] = "gone" /\ reloads < MaxReloads
  /\ fiber' = [fiber EXCEPT ![Loop] = "active"]
  /\ reloads' = reloads + 1
  /\ UNCHANGED <<call, at, aborted, disp, follows, joined, lent, live, heard, departed, stack>>

-----------------------------------------------------------------------------
Continue(a) ==
  \/ Publish(a) \/ LoadAborted(a) \/ AfterLoad(a) \/ Listed(a) \/ Settle(a)
  \/ Configured(a) \/ (aborted[a] /\ SetupFails(a))

Teardown(a) == Drained(a) \/ Unwound(a) \/ OwnerEffect(a) \/ ScopeEffect(a)

Next ==
  \/ \E a \in Attempts :
       \/ Create(a) \/ CreateAgent(a) \/ Resume(a) \/ Cancel(a) \/ DisposeHandle(a)
       \/ Loaded(a) \/ LoadFails(a) \/ LateLoad(a) \/ Composed(a) \/ SetupFails(a)
       \/ CommitFails(a) \/ Continue(a) \/ Teardown(a)
  \/ Announced \/ Vetoed \/ FactoryEffect \/ Reload
  \/ \E p \in Fibers : Unload(p) \/ Gone(p)

Spec == Init /\ [][Next]_vars

\* Listeners return, drivers that were cancelled become idle (AgentDriver), microtasks run and
\* list() answers; setups and loads may never settle.
FairSpec ==
  /\ Spec /\ WF_vars(Announced) /\ WF_vars(FactoryEffect)
  /\ \A a \in Attempts : WF_vars(Continue(a)) /\ WF_vars(Teardown(a))
  /\ \A p \in Fibers : WF_vars(Gone(p))

-----------------------------------------------------------------------------
\* Every attempt that is over leaves nothing: no entry, reservation, effect or scope, and each
\* creation that was announced has its disposal.
NothingLeft ==
  \A a \in Attempts :
    (at[a] = "rejected" \/ (at[a] = "owned" /\ disp[a] = "done")) =>
      /\ \A i \in Ids : live[i] # a
      /\ lent[a] # "held" /\ a \notin follows
      /\ fiber[a] \in {"none", "gone"}
      /\ {h \in heard : h[2] = a} \subseteq departed

\* An agent that was announced stays the registered one until its driver is quiescent, so a
\* session is never driven by two.
OneDriver ==
  \A a \in Attempts :
    at[a] \in {"publish", "owned"} /\ disp[a] \in {"no", "draining"} => live[Id(a)] = a

\* Once the provider has unloaded, none of its agents is left and no attempt is pending.
ProviderGone ==
  fiber[Loop] = "gone" => /\ \A i \in Ids : live[i] = None
                          /\ \A a \in Attempts : at[a] = "owned" => disp[a] = "done"

\* When an owner has unloaded, each of its attempts is over or on its way out.
OwnerGoneLeaving ==
  \A a \in Attempts :
    at[a] # "none" /\ fiber[Owner(a)] = "gone" =>
      at[a] \in {"rejected", "failing"} \/ aborted[a] \/ ~Prepared(a)

\* What agent-loop's README and the test of handle-first teardown say: the unload of an owner
\* follows the same boundary, so none of its agents is registered after it.
UnloadAwaits ==
  \A a \in Attempts : at[a] = "owned" /\ fiber[Owner(a)] = "gone" => live[Id(a)] # a

\* What agent-loop's README says of teardown: the scope is unwound after the driver drained.
ScopeAfterDrain ==
  \A a \in Attempts : at[a] = "owned" /\ disp[a] \in {"no", "draining"} => fiber[a] # "gone"

\* A fiber that unloads is done some time, whatever setups and loads do.
UnloadEnds == \A p \in Fibers : fiber[p] = "unloading" ~> fiber[p] = "gone"

\* An aborted attempt settles, and a failed one is over.
AbortedSettles == \A a \in Attempts : aborted[a] /\ at[a] # "owned" ~> at[a] \in Settled
=============================================================================
