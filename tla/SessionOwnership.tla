-------------------------- MODULE SessionOwnership --------------------------
(* The write path of PersistenceCoordinator for one session id             *)
(* (packages/session/session-persistence/src/coordinator.ts): who owns the *)
(* id when live Sessions of it follow one another, how a session that is   *)
(* created, restored or found alive by a reloaded plugin binds to what is  *)
(* stored, and how a disposed one lets go.  WriteBehind models the         *)
(* controller that is a queue here, ColdPreparation the reservations.      *)
(*                                                                         *)
(* An event is known by the session that made it; its seq is its index.    *)
EXTENDS Naturals, Sequences

CONSTANTS Sessions,   \* Session objects with the one id
          Repair, NoOne,
          MaxEvents,  \* bound: events of a session
          MaxReloads, \* bound: reloads of the plugin
          MaxFails    \* bound: backend failures

VARIABLES store,   \* the stored events
          torn,    \* the stored log ends in a torn record
          state,   \* SessionState of the id
          events,  \* each Session's log
          alive,   \* "unborn", "live" or "gone"
          init,    \* LiveSessionState.init: "none" (not in live), "pending",
                   \* "append" (its last write runs), "ok" or "failed"
          seed,    \* events in the seed that init captured
          queue, writing, \* the controller's events, by index
          retire,  \* "no", "flush", "release", "done" or "failed"
          chain,   \* the id's serialized jobs
          plugin,  \* "on", "draining" or "off"
          spent

control == <<init, seed, queue, writing>>
vars    == <<store, torn, state, events, alive, control, retire, chain, plugin, spent>>

Untracked == [tracked |-> FALSE, owner |-> NoOne, cursor |-> 0, materialized |-> FALSE]
Track(owner, cursor, materialized) ==
  [tracked |-> TRUE, owner |-> owner, cursor |-> cursor, materialized |-> materialized]

Indices == 1 .. MaxEvents + 1
Writers == Sessions \cup {Repair}

TypeOK ==
  /\ store \in Seq(Writers) /\ torn \in BOOLEAN
  /\ state \in [tracked : BOOLEAN, owner : Sessions \cup {NoOne}, cursor : 0 .. MaxEvents + 1,
                materialized : BOOLEAN]
  /\ events \in [Sessions -> Seq(Writers)]
  /\ alive \in [Sessions -> {"unborn", "live", "gone"}]
  /\ init \in [Sessions -> {"none", "pending", "append", "ok", "failed"}]
  /\ seed \in [Sessions -> 0 .. MaxEvents + 1]
  /\ queue \in [Sessions -> Seq(Indices)] /\ writing \in [Sessions -> Seq(Indices)]
  /\ retire \in [Sessions -> {"no", "flush", "release", "done", "failed"}]
  /\ chain \in Seq([kind : {"init", "write", "release", "create", "load"},
                    of : Sessions \cup {NoOne}])
  /\ plugin \in {"on", "draining", "off"}
  /\ spent \in [reloads : 0 .. MaxReloads, fails : 0 .. MaxFails]

\* What an earlier process left.
Init ==
  /\ store \in {<<>>, <<Repair>>} /\ torn \in {FALSE, store # <<>>}
  /\ state = Untracked
  /\ events = [s \in Sessions |-> <<>>] /\ alive = [s \in Sessions |-> "unborn"]
  /\ init = [s \in Sessions |-> "none"] /\ seed = [s \in Sessions |-> 0]
  /\ queue = [s \in Sessions |-> <<>>] /\ writing = [s \in Sessions |-> <<>>]
  /\ retire = [s \in Sessions |-> "no"]
  /\ chain = <<>> /\ plugin = "on" /\ spent = [reloads |-> 0, fails |-> 0]

Prefix(p, q) == Len(p) <= Len(q) /\ SubSeq(q, 1, Len(p)) = p

HasWork(s) == queue[s] # <<>> \/ writing[s] # <<>>

Job(kind, s) == [kind |-> kind, of |-> s]
Enqueue(kind, s) == chain' = Append(chain, Job(kind, s))
Runs(kind) == IF chain = <<>> THEN FALSE ELSE Head(chain).kind = kind
Done == chain' = Tail(chain)

Fails == spent.fails < MaxFails /\ spent' = [spent EXCEPT !.fails = @ + 1]

---------------------------------------------------------------------------
(* Sessions come, speak and go.  The session store keeps one live Session  *)
(* per id.                                                                 *)

NoneLive == \A s \in Sessions : alive[s] # "live"

\* initFor: a controller whose initialisation waits on the id's chain.
InitFor(s, log) ==
  /\ init' = [init EXCEPT ![s] = "pending"]
  /\ seed' = [seed EXCEPT ![s] = Len(log)]
  /\ Enqueue("init", s)

\* A Session begins empty, with events of its own, or with the stored ones.
Create(s) ==
  /\ alive[s] = "unborn" /\ NoneLive
  /\ alive' = [alive EXCEPT ![s] = "live"]
  /\ \E log \in {<<>>, <<s>>, store, Append(store, s)} :
       /\ Len(log) <= MaxEvents
       /\ events' = [events EXCEPT ![s] = log]
       /\ IF plugin = "on" THEN InitFor(s, log) ELSE UNCHANGED <<init, seed, chain>>
  /\ UNCHANGED <<store, torn, state, queue, writing, retire, plugin, spent>>

\* attachPrepared: the reserved Session is bound in the call.  What it has that is
\* not stored, its end-seed mark, is appended on the chain, which may fail.
Restore(s) ==
  /\ alive[s] = "unborn" /\ NoneLive /\ plugin = "on"
  /\ state.tracked /\ state.owner = NoOne /\ state.materialized
  /\ chain = <<>>  \* the reservation was made on the chain
  /\ alive' = [alive EXCEPT ![s] = "live"]
  /\ state' = [state EXCEPT !.owner = s]
  /\ \/ /\ events' = [events EXCEPT ![s] = store]
        /\ init' = [init EXCEPT ![s] = "ok"]
        /\ UNCHANGED <<seed, chain>>
     \/ /\ Len(store) < MaxEvents
        /\ events' = [events EXCEPT ![s] = Append(store, s)]
        /\ init' = [init EXCEPT ![s] = "append"]
        /\ seed' = [seed EXCEPT ![s] = Len(store) + 1]
        /\ Enqueue("init", s)
  /\ UNCHANGED <<store, torn, queue, writing, retire, plugin, spent>>

NextSeq(s) == Len(events[s]) + 1

Speak(s) ==
  /\ alive[s] = "live" /\ Len(events[s]) < MaxEvents
  /\ events' = [events EXCEPT ![s] = Append(@, s)]
  /\ queue' = IF plugin = "on" THEN [queue EXCEPT ![s] = Append(@, NextSeq(s))] ELSE queue
  /\ UNCHANGED <<store, torn, state, alive, init, seed, writing, retire, chain, plugin, spent>>

\* session/disposed.
Dispose(s) ==
  /\ alive[s] = "live"
  /\ alive' = [alive EXCEPT ![s] = "gone"]
  /\ retire' = IF plugin = "on" THEN [retire EXCEPT ![s] = "flush"] ELSE retire
  /\ UNCHANGED <<store, torn, state, events, control, chain, plugin, spent>>

---------------------------------------------------------------------------
(* The controller's write, and a retirement's flush.                       *)

FlushedSoon(s) == queue[s] = <<>>

Rejected(s) == init[s] = "failed"

Ready(s) == init[s] = "ok"
Flushed(s) == ~HasWork(s)

StartWrite(s) ==
  /\ Ready(s) /\ queue[s] # <<>> /\ writing[s] = <<>> /\ plugin # "off"
  /\ retire[s] # "failed" \/ plugin = "draining"
  /\ writing' = [writing EXCEPT ![s] = queue[s]] /\ queue' = [queue EXCEPT ![s] = <<>>]
  /\ Enqueue("write", s)
  /\ UNCHANGED <<store, torn, state, events, alive, init, seed, retire, plugin, spent>>

Flush(s) ==
  /\ retire[s] = "flush" /\ plugin # "off"
  /\ \/ /\ init[s] = "ok" /\ Flushed(s)
        /\ retire' = [retire EXCEPT ![s] = "release"]
        /\ Enqueue("release", s)
     \/ /\ Rejected(s)
        /\ retire' = [retire EXCEPT ![s] = "failed"]
        /\ UNCHANGED chain
  /\ UNCHANGED <<store, torn, state, events, alive, control, plugin, spent>>

---------------------------------------------------------------------------
(* The jobs of the chain.                                                  *)

Settle(s, outcome) == init' = [init EXCEPT ![s] = outcome]

\* A bug: the length is compared and the events are not.
CoversLength(log, n) == n <= Len(log)

Covers(log, n) == n <= Len(log) /\ SubSeq(log, 1, n) = SubSeq(store, 1, n)

\* The seed's suffix is the last write of an initialisation.
Bind(s, cursor, materialized) ==
  /\ state' = Track(s, cursor, materialized)
  /\ IF seed[s] > cursor THEN Settle(s, "append") /\ UNCHANGED chain
     ELSE Settle(s, "ok") /\ Done

MayTake == ~state.materialized /\ ~HasWork(state.owner)

\* onCreated, with createCore and adoptLivePrefix.
RunInit(s) ==
  /\ Runs("init") /\ Head(chain).of = s /\ init[s] = "pending"
  /\ LET log     == SubSeq(events[s], 1, seed[s])
         Refuse(st) == Settle(s, "failed") /\ Done /\ state' = st
                       /\ UNCHANGED <<torn, spent>>
         taken   == state.tracked /\ state.owner # NoOne
         Resolve ==
           \/ /\ store # <<>> /\ Covers(log, Len(store))
              /\ Bind(s, Len(store), TRUE) /\ torn' = FALSE /\ UNCHANGED spent
           \/ store # <<>> /\ ~Covers(log, Len(store)) /\ Refuse(Untracked)
           \/ store = <<>> /\ Bind(s, 0, FALSE) /\ UNCHANGED <<torn, spent>>
           \/ /\ Fails /\ Settle(s, "failed") /\ Done /\ state' = Untracked
              /\ UNCHANGED torn
     IN \/ ~state.tracked /\ Resolve
        \/ taken /\ MayTake /\ Resolve
        \/ taken /\ ~MayTake /\ Refuse(state)
        \/ /\ state.tracked /\ ~taken /\ Covers(log, state.cursor)
           /\ Bind(s, state.cursor, state.materialized) /\ UNCHANGED <<torn, spent>>
        \/ state.tracked /\ ~taken /\ ~Covers(log, state.cursor) /\ Refuse(state)
        \/ /\ state.tracked /\ ~taken /\ state.cursor > 0
           /\ Fails /\ Settle(s, "failed") /\ Done /\ UNCHANGED <<state, torn>>
  /\ UNCHANGED <<store, events, alive, seed, queue, writing, retire, plugin>>

\* appendCore, up to the index n.
Stored(s, n) ==
  /\ store' = store \o SubSeq(events[s], state.cursor + 1, n)
  /\ state' = [state EXCEPT !.cursor = n, !.materialized = TRUE]

InitAppends(s) ==
  /\ Runs("init") /\ Head(chain).of = s /\ init[s] = "append"
  /\ Done
  /\ \/ Stored(s, seed[s]) /\ Settle(s, "ok") /\ UNCHANGED spent
     \/ Fails /\ Settle(s, "failed") /\ UNCHANGED <<store, state>>
  /\ UNCHANGED <<torn, events, alive, seed, queue, writing, retire, plugin>>

\* appendLiveBatch: what initialisation stored is filtered out.
RunWrite(s) ==
  /\ Runs("write") /\ Head(chain).of = s
  /\ Done
  /\ LET last == writing[s][Len(writing[s])]
         next == IF writing[s][1] > state.cursor THEN writing[s][1] ELSE state.cursor + 1
     IN \/ /\ next = state.cursor + 1
           /\ IF last > state.cursor THEN Stored(s, last) ELSE UNCHANGED <<store, state>>
           /\ writing' = [writing EXCEPT ![s] = <<>>]
           /\ UNCHANGED <<queue, retire, spent>>
        \/ /\ Fails
           /\ writing' = [writing EXCEPT ![s] = <<>>]
           /\ queue' = [queue EXCEPT ![s] = writing[s] \o @]
           /\ retire' = IF retire[s] = "flush" THEN [retire EXCEPT ![s] = "failed"] ELSE retire
           /\ UNCHANGED <<store, state>>
  /\ UNCHANGED <<torn, events, alive, init, seed, plugin>>

LetGo(s) == IF state.owner = s THEN Untracked ELSE state

\* The last job of retireCore.
Release(s) ==
  /\ Runs("release") /\ Head(chain).of = s
  /\ Done
  /\ Settle(s, "none")
  /\ state' = LetGo(s)
  /\ retire' = [retire EXCEPT ![s] = "done"]
  /\ UNCHANGED <<store, torn, events, alive, seed, queue, writing, plugin, spent>>

\* create() and load() of the service leave a state nobody owns; load() closes
\* an open turn and cuts a torn record.
Call(kind) ==
  /\ plugin = "on" /\ ~state.tracked /\ \A i \in DOMAIN chain : chain[i].of # NoOne
  /\ kind = "load" => store # <<>> /\ NoneLive /\ \A s \in Sessions : init[s] = "none"
  /\ Enqueue(kind, NoOne)
  /\ UNCHANGED <<store, torn, state, events, alive, control, retire, plugin, spent>>

RunCall ==
  /\ Runs("create") \/ Runs("load")
  /\ Done
  /\ \/ /\ Runs("create") /\ ~state.tracked /\ store = <<>>
        /\ state' = Track(NoOne, 0, FALSE) /\ UNCHANGED <<store, torn>>
     \/ /\ Runs("create") /\ (state.tracked \/ store # <<>>)
        /\ UNCHANGED <<store, torn, state>>
     \/ /\ Runs("load")
        /\ store' \in {store} \cup {log \in {Append(store, Repair)} : Len(log) <= MaxEvents}
        /\ torn' = FALSE /\ state' = Track(NoOne, Len(store'), TRUE)
  /\ UNCHANGED <<events, alive, control, retire, plugin, spent>>

---------------------------------------------------------------------------
(* A reload of the plugin: admission closes, every live session is         *)
(* flushed, and a new instance finds the sessions that live.               *)

Unload ==
  /\ plugin = "on" /\ spent.reloads < MaxReloads
  /\ plugin' = "draining"
  /\ spent' = [spent EXCEPT !.reloads = @ + 1]
  /\ UNCHANGED <<store, torn, state, events, alive, control, retire, chain>>

Unloaded ==
  /\ plugin = "draining" /\ chain = <<>>
  /\ \A s \in Sessions : HasWork(s) => init[s] = "failed" \/ spent.fails > 0
  /\ plugin' = "off"
  /\ state' = Untracked
  /\ init' = [s \in Sessions |-> "none"] /\ seed' = [s \in Sessions |-> 0]
  /\ queue' = [s \in Sessions |-> <<>>] /\ writing' = [s \in Sessions |-> <<>>]
  /\ retire' = [s \in Sessions |-> IF retire[s] = "done" THEN "done" ELSE "no"]
  /\ UNCHANGED <<store, torn, events, alive, chain, spent>>

Load ==
  /\ plugin = "off" /\ plugin' = "on"
  /\ IF NoneLive THEN UNCHANGED <<init, seed, chain>>
     ELSE LET s == CHOOSE s \in Sessions : alive[s] = "live" IN InitFor(s, events[s])
  /\ UNCHANGED <<store, torn, state, events, alive, queue, writing, retire, spent>>

Chain == RunCall \/ \E s \in Sessions : RunInit(s) \/ InitAppends(s) \/ RunWrite(s) \/ Release(s)

Next ==
  \/ \E s \in Sessions : Create(s) \/ Restore(s) \/ Speak(s) \/ Dispose(s)
                         \/ StartWrite(s) \/ Flush(s)
  \/ \E kind \in {"create", "load"} : Call(kind)
  \/ Chain \/ Unload \/ Unloaded \/ Load

Spec == Init /\ [][Next]_vars

\* The backend answers, timers fire and flushes run.
Fairness ==
  /\ WF_vars(Chain)
  /\ \A s \in Sessions : WF_vars(StartWrite(s)) /\ WF_vars(Flush(s))
FairSpec == Spec /\ Fairness

---------------------------------------------------------------------------
(* Properties.                                                             *)

\* What is stored under an owned id is a prefix of its owner's log, as far as
\* the cursor says: no session continues another's log.
OwnerContinuesLog ==
  state.owner # NoOne => state.cursor = Len(store) /\ Prefix(store, events[state.owner])

\* A write that runs finds its own session's state.
WriterOwns ==
  Runs("write") => state.owner = Head(chain).of

\* A session that was let go in order has everything it said stored.
ReleasedIsStored ==
  \A s \in Sessions : retire[s] = "done" => Prefix(events[s], store)

\* An owner whose initialisation failed keeps the id until it is let go, and
\* nothing is stored under it.
FailedIsSilent ==
  [][state.owner # NoOne /\ init[state.owner] = "failed" => store' = store]_vars

\* Every disposed session is let go, or its failure is reported.
RetirementEnds ==
  \A s \in Sessions : retire[s] = "flush" ~> retire[s] \in {"done", "failed", "no"}
=============================================================================
