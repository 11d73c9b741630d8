---------------------------- MODULE JobRegistry ----------------------------
(* The process-local registry of background jobs                           *)
(* (packages/jobs/jobs-local/src/index.ts) with the completion reporter of *)
(* packages/jobs/tool-jobs/src/index.ts as its one listener.               *)
(*                                                                         *)
(* Every method of the registry is synchronous up to an await, so a method *)
(* is one step, except where it hands control to foreign code: a           *)
(* settlement calls its observers between the commit and the listener      *)
(* (Commit, then Announce), and a teardown calls observers after each      *)
(* cancel (Dispose, then one Cancel per job).  In both spans observers may *)
(* call the registry again, and nothing that waits for a promise runs.     *)
EXTENDS Naturals, FiniteSets

CONSTANTS Jobs,       \* records the registry may hand out, each once
          Owners,     \* agent instances that may own jobs
          Waiters,    \* calls of wait(), each made once
          MaxActive,  \* maxConcurrentJobsPerOwner
          Unowned,    \* the owner of a job started without one
          Service,    \* the lifecycle of the registry itself
          NoJob       \* no settlement is being announced

ASSUME NamesAreApart == /\ Unowned \notin Owners
                        /\ Service \notin Owners
                        /\ NoJob \notin Jobs

ASSUME FinitelyManyJobs == IsFiniteSet(Jobs)

ASSUME MaxActiveIsANumber == MaxActive \in Nat

VARIABLES store,      \* the jobs the registry knows
          status,     \* TrackedTask.status; "absent" before start()
          owner,      \* TrackedTask.owner
          reported,   \* the jobs whose `reported` flag is set
          asked,      \* the jobs whose cancel() has returned
          done,       \* the producer's promise: pending, resolved, delivered
          wait,       \* each call of wait()
          phase,      \* each lifecycle: live, cancelling, awaiting, gone
          owned,      \* the jobs a disposal has taken a snapshot of
          left,       \* the ones cancelForTeardown still has to visit
          announcing, \* the job between settle()'s commit and its listener
          silent,     \* `reported` in the snapshot the listener will get
          noticed,    \* the jobs a completion notice was sent for
          claimed     \* the jobs a read, wait, kill or teardown reported

vars == <<store, status, owner, reported, asked, done, wait, phase, owned,
          left, announcing, silent, noticed, claimed>>

Live     == {"running", "stopping"}
Terminal == {"completed", "killed", "failed"}
Scopes   == Owners \cup {Service}

IsTerminal(j) == status[j] \in Terminal

\* The calls the record's `waiters` counter counts.
Counted(j) == {w \in Waiters : wait[w].job = j /\ wait[w].counted}

\* The calls whose resolver is registered with the record.
Registered(j) == {w \in Waiters : wait[w].job = j /\ wait[w].at = "waiting"}

ActiveJobs(o) == {j \in store : owner[j] = o /\ status[j] \in Live}

\* A lifecycle is over for start() as soon as its disposers run.
IsLive(o) == o \in Owners => phase[o] = "live"

\* No method is on the stack: promise jobs, timers and disposers may run.
Quiet == announcing = NoJob /\ \A x \in Scopes : phase[x] # "cancelling"

\* The types, and the bound on the work in progress of each owner.
TypeOK ==
  /\ store \in SUBSET Jobs
  /\ status \in [Jobs -> {"absent"} \cup Live \cup Terminal]
  /\ owner \in [Jobs -> Owners \cup {Unowned}]
  /\ reported \in SUBSET Jobs
  /\ asked \in SUBSET Jobs
  /\ done \in [Jobs -> {"pending", "resolved", "delivered"}]
  /\ wait \in [Waiters -> [at      : {"idle", "waiting", "released",
                                      "answered", "expired", "rejected"},
                           job     : Jobs \cup {NoJob},
                           counted : BOOLEAN]]
  /\ phase \in [Scopes -> {"live", "cancelling", "awaiting", "gone"}]
  /\ owned \in [Scopes -> SUBSET Jobs]
  /\ left \in SUBSET Jobs
  /\ announcing \in Jobs \cup {NoJob}
  /\ silent \in BOOLEAN
  /\ noticed \in SUBSET Jobs
  /\ claimed \in SUBSET Jobs
  /\ \A o \in Owners \cup {Unowned} :
        Cardinality({j \in store : owner[j] = o /\ status[j] \in Live}) <= MaxActive

Init ==
  /\ store = {}
  /\ status = [j \in Jobs |-> "absent"]
  /\ owner = [j \in Jobs |-> Unowned]
  /\ reported = {} /\ asked = {}
  /\ done = [j \in Jobs |-> "pending"]
  /\ wait = [w \in Waiters |-> [at |-> "idle", job |-> NoJob, counted |-> FALSE]]
  /\ phase = [x \in Scopes |-> "live"]
  /\ owned = [x \in Scopes |-> {}]
  /\ left = {}
  /\ announcing = NoJob /\ silent = FALSE
  /\ noticed = {} /\ claimed = {}

---------------------------------------------------------------------------
(* Calls.  The registry is reachable until its own disposal begins: the    *)
(* fiber that tears it down withdraws the service with the same disposers. *)

\* start(): refused for an owner that is no longer live or has its fill.
Start(j, o) ==
  /\ phase[Service] = "live" /\ IsLive(o)
  /\ status[j] = "absent"
  /\ Cardinality(ActiveJobs(o)) < MaxActive
  /\ store' = store \cup {j}
  /\ status' = [status EXCEPT ![j] = "running"]
  /\ owner' = [owner EXCEPT ![j] = o]
  /\ UNCHANGED <<reported, asked, done, wait, phase, owned, left, announcing,
                 silent, noticed, claimed>>

\* read(): only a terminal record is reported by it.
Read(j) ==
  /\ phase[Service] = "live" /\ j \in store /\ IsTerminal(j)
  /\ reported' = reported \cup {j}
  /\ claimed' = claimed \cup {j}
  /\ UNCHANGED <<store, status, owner, asked, done, wait, phase, owned, left,
                 announcing, silent, noticed>>

\* kill(): cancel() first; when it throws nothing changes.
Kill(j) ==
  /\ phase[Service] = "live" /\ j \in store
  /\ reported' = reported \cup {j}
  /\ claimed' = claimed \cup {j}
  /\ IF IsTerminal(j)
     THEN UNCHANGED <<status, asked>>
     ELSE /\ asked' = asked \cup {j}
          /\ status' = [status EXCEPT ![j] = "stopping"]
  /\ UNCHANGED <<store, owner, done, wait, phase, owned, left, announcing,
                 silent, noticed>>

\* wait() up to its await.
Wait(w, j) ==
  /\ phase[Service] = "live" /\ j \in store
  /\ wait[w].at = "idle"
  /\ IF IsTerminal(j)
     THEN /\ reported' = reported \cup {j}
          /\ claimed' = claimed \cup {j}
          /\ wait' = [wait EXCEPT ![w] = [at |-> "expired", job |-> j, counted |-> FALSE]]
     ELSE /\ wait' = [wait EXCEPT ![w] = [at |-> "waiting", job |-> j, counted |-> TRUE]]
          /\ UNCHANGED <<reported, claimed>>
  /\ UNCHANGED <<store, status, owner, asked, done, phase, owned, left,
                 announcing, silent, noticed>>

\* A bug: an aborted call is uncounted only when its `finally` runs, and
\* that is after a settlement of the same tick.
AbortLate(w) ==
  /\ wait[w].at = "waiting"
  /\ wait' = [wait EXCEPT ![w].at = "rejected"]
  /\ UNCHANGED <<store, status, owner, reported, asked, done, phase, owned,
                 left, announcing, silent, noticed, claimed>>

\* The caller's signal: the promise rejects and the call is uncounted at
\* once, whatever is on the stack.
Abort(w) ==
  /\ wait[w].at = "waiting"
  /\ wait' = [wait EXCEPT ![w].at = "rejected", ![w].counted = FALSE]
  /\ UNCHANGED <<store, status, owner, reported, asked, done, phase, owned,
                 left, announcing, silent, noticed, claimed>>

\* The deadline: the promise resolves, and the call stays counted until its
\* continuation runs.
Timeout(w) ==
  /\ Quiet
  /\ wait[w].at = "waiting"
  /\ wait' = [wait EXCEPT ![w].at = "released"]
  /\ UNCHANGED <<store, status, owner, reported, asked, done, phase, owned,
                 left, announcing, silent, noticed, claimed>>

\* The continuation of a wait whose promise resolved.  It looks at the record
\* again, so a deadline that a settlement overtook answers with the result.
Resume(w) ==
  /\ Quiet
  /\ wait[w].at = "released"
  /\ LET j == wait[w].job IN
     IF IsTerminal(j)
     THEN /\ reported' = reported \cup {j}
          /\ claimed' = claimed \cup {j}
          /\ wait' = [wait EXCEPT ![w].at = "answered", ![w].counted = FALSE]
     ELSE /\ wait' = [wait EXCEPT ![w].at = "expired", ![w].counted = FALSE]
          /\ UNCHANGED <<reported, claimed>>
  /\ UNCHANGED <<store, status, owner, asked, done, phase, owned, left,
                 announcing, silent, noticed>>

---------------------------------------------------------------------------
(* Settlement.                                                             *)

\* The producer releases its resources and resolves `done`.
Finish(j) ==
  /\ status[j] # "absent" /\ done[j] = "pending"
  /\ done' = [done EXCEPT ![j] = "resolved"]
  /\ UNCHANGED <<store, status, owner, reported, asked, wait, phase, owned,
                 left, announcing, silent, noticed, claimed>>

\* settle() up to the end of its observers: the record, the flag, the waits;
\* `told` are the reported jobs on entry.
Commit(j, outcome, told) ==
  LET flags == IF Counted(j) # {} THEN told \cup {j} ELSE told IN
  /\ status' = [status EXCEPT ![j] = outcome]
  /\ reported' = flags
  /\ wait' = [w \in Waiters |-> IF w \in Registered(j)
                                THEN [wait[w] EXCEPT !.at = "released"]
                                ELSE wait[w]]
  /\ announcing' = j
  /\ silent' = (j \in flags)

\* The promise job of `done`: the first settlement wins.
Settle(j) ==
  /\ Quiet
  /\ done[j] = "resolved"
  /\ done' = [done EXCEPT ![j] = "delivered"]
  /\ IF IsTerminal(j)
     THEN UNCHANGED <<status, reported, wait, announcing, silent>>
     ELSE \E outcome \in Terminal : Commit(j, outcome, reported)
  /\ UNCHANGED <<store, owner, asked, phase, owned, left, noticed, claimed>>

\* The end of settle(): the reporter sends the owner a notice unless the snapshot
\* says reported.  A job without an owner has nobody to tell, and no listener is
\* called once the registry is being disposed.
Announce ==
  /\ announcing # NoJob
  /\ noticed' = IF silent \/ owner[announcing] = Unowned \/ phase[Service] # "live"
                THEN noticed ELSE noticed \cup {announcing}
  /\ announcing' = NoJob
  /\ UNCHANGED <<store, status, owner, reported, asked, done, wait, phase,
                 owned, left, silent, claimed>>

---------------------------------------------------------------------------
(* Disposal: of an owner (disposeOwned) or of the registry (disposeAll).   *)

Dispose(x) ==
  /\ Quiet
  /\ phase[x] = "live"
  /\ LET mine == IF x = Service THEN store ELSE {j \in store : owner[j] = x} IN
     /\ owned' = [owned EXCEPT ![x] = mine]
     /\ left' = mine
  /\ phase' = [phase EXCEPT ![x] = "cancelling"]
  /\ UNCHANGED <<store, status, owner, reported, asked, done, wait, announcing,
                 silent, noticed, claimed>>

\* A bug: the flag is set after cancel() has returned, so a throw skips it.
CancelThenFlag(j) ==
  /\ announcing = NoJob
  /\ j \in left
  /\ left' = left \ {j}
  /\ IF IsTerminal(j)
     THEN UNCHANGED <<status, reported, asked, wait, announcing, silent, claimed>>
     ELSE /\ claimed' = claimed \cup {j}
          /\ \/ /\ status' = [status EXCEPT ![j] = "stopping"]
                /\ reported' = reported \cup {j}
                /\ asked' = asked \cup {j}
                /\ UNCHANGED <<wait, announcing, silent>>
             \/ /\ Commit(j, "failed", reported)
                /\ UNCHANGED asked
  /\ UNCHANGED <<store, owner, done, phase, owned, noticed>>

\* A bug: a cancel that throws is logged and nothing else.
CancelIgnoresThrow(j) ==
  /\ announcing = NoJob
  /\ j \in left
  /\ left' = left \ {j}
  /\ IF IsTerminal(j)
     THEN UNCHANGED <<status, reported, asked, claimed>>
     ELSE /\ claimed' = claimed \cup {j}
          /\ reported' = reported \cup {j}
          /\ \/ /\ status' = [status EXCEPT ![j] = "stopping"]
                /\ asked' = asked \cup {j}
             \/ UNCHANGED <<status, asked>>
  /\ UNCHANGED <<store, owner, done, wait, phase, owned, announcing, silent,
                 noticed>>

\* One round of cancelForTeardown: the flag is set before the producer runs;
\* a cancel that throws settles the record as failed.
Cancel(j) ==
  /\ announcing = NoJob
  /\ j \in left
  /\ left' = left \ {j}
  /\ IF IsTerminal(j)
     THEN UNCHANGED <<status, reported, asked, wait, announcing, silent, claimed>>
     ELSE /\ claimed' = claimed \cup {j}
          /\ \/ /\ status' = [status EXCEPT ![j] = "stopping"]
                /\ reported' = reported \cup {j}
                /\ asked' = asked \cup {j}
                /\ UNCHANGED <<wait, announcing, silent>>
             \/ /\ Commit(j, "failed", reported \cup {j})
                /\ UNCHANGED asked
  /\ UNCHANGED <<store, owner, done, phase, owned, noticed>>

\* Every record was visited; the disposal waits for their settlements.
Cancelled(x) ==
  /\ announcing = NoJob
  /\ phase[x] = "cancelling" /\ left = {}
  /\ phase' = [phase EXCEPT ![x] = "awaiting"]
  /\ UNCHANGED <<store, status, owner, reported, asked, done, wait, owned,
                 left, announcing, silent, noticed, claimed>>

\* All settled: the records go.
Drop(x) ==
  /\ Quiet
  /\ phase[x] = "awaiting" /\ \A j \in owned[x] : IsTerminal(j)
  /\ store' = IF x = Service THEN {} ELSE store \ owned[x]
  /\ phase' = [phase EXCEPT ![x] = "gone"]
  /\ UNCHANGED <<status, owner, reported, asked, done, wait, owned, left,
                 announcing, silent, noticed, claimed>>

Next ==
  \/ \E j \in Jobs : \/ \E o \in Owners \cup {Unowned} : Start(j, o)
                     \/ Read(j) \/ Kill(j) \/ Finish(j) \/ Settle(j) \/ Cancel(j)
  \/ \E w \in Waiters : \/ \E j \in Jobs : Wait(w, j)
                        \/ Abort(w) \/ Timeout(w) \/ Resume(w)
  \/ Announce
  \/ \E x \in Scopes : Dispose(x) \/ Cancelled(x) \/ Drop(x)

Spec == Init /\ [][Next]_vars

\* The event loop runs what is queued, and a deadline fires.  Nothing is asked of
\* a producer: it may run for ever, and also after its cancel() has returned.
Fairness ==
  /\ \A j \in Jobs : WF_vars(Settle(j)) /\ WF_vars(Cancel(j))
  /\ \A w \in Waiters : WF_vars(Timeout(w)) /\ WF_vars(Resume(w))
  /\ WF_vars(Announce)
  /\ \A x \in Scopes : WF_vars(Cancelled(x)) /\ WF_vars(Drop(x))
FairSpec == Spec /\ Fairness

---------------------------------------------------------------------------
(* Properties.                                                             *)

\* No completion of an owned job goes unheard: it was announced, or a read, kill,
\* wait or teardown reported it, or a wait that will report it is on its way.
\* The flag an abandoned wait leaves behind must not silence the notice.
CompletionIsOwed ==
  \A j \in Jobs : IsTerminal(j) /\ announcing # j /\ owner[j] # Unowned =>
     \/ j \in noticed \cup claimed
     \/ \E w \in Waiters : wait[w].at = "released" /\ wait[w].job = j

\* A completion is not told twice: a wait that was pending and answers with
\* the result has silenced the notice, also when its deadline had passed and
\* only its continuation saw the settlement.
NotTwice ==
  \A w \in Waiters : wait[w].at = "answered" => wait[w].job \notin noticed

\* An owner or a registry that is gone left no record behind, and no work
\* that was not settled first.
NothingLeft ==
  /\ \A o \in Owners : phase[o] = "gone" =>
        \A j \in Jobs : owner[j] = o => j \notin store /\ status[j] \notin Live
  /\ phase[Service] = "gone" =>
        \A j \in Jobs : j \notin store /\ status[j] \notin Live

\* What a job's end is worth, to whoever may hear of it and to whoever owned it.
CompletionsAreSound == TypeOK /\ CompletionIsOwed /\ NotTwice /\ NothingLeft

\* A step keeps settlements: the first one is final, against a late producer
\* and a late kill, and teardown is quiet: no completion is announced to an
\* owner that is being disposed, not even the one a throwing cancel() forces.
KeepsSettlements ==
  /\ \A j \in Jobs : IsTerminal(j) => status'[j] = status[j]
  /\ \A j \in noticed' \ noticed :
        phase[Service] = "live" /\ owner[j] \in Owners /\ phase[owner[j]] = "live"

\* A disposal waits for ever only for a job whose cancel() returned and whose
\* producer never settles (the stall that cancelForTeardown's comment concedes):
\* not for one whose cancel() threw, nor for one that settled by other means.
DisposalEnds ==
  \A x \in Scopes : \/ []<>(phase[x] \notin {"cancelling", "awaiting"})
                    \/ \E j \in Jobs : <>[](j \in owned[x] \cap asked /\ done[j] = "pending")

\* Every owner's settled job is heard of in the end.
CompletionIsHeard ==
  \A j \in Jobs : IsTerminal(j) /\ owner[j] # Unowned ~> j \in noticed \cup claimed
=============================================================================
