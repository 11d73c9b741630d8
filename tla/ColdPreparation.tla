-------------------------- MODULE ColdPreparation --------------------------
(***************************************************************************)
(* Reading a stored session back: the pool of unpublished preparations     *)
(* (packages/session/session-persistence/src/preparations.ts) and the      *)
(* coordinator's operations that share it (coordinator.ts: prepare, load,  *)
(* inspect, append, the publication of a prepared session, its retirement) *)
(* for ONE session id.  Other ids matter to it only by eviction.           *)
(*                                                                         *)
(* Everything that touches storage runs on the id's serialization chain;   *)
(* the pool, the live session and the callers' continuations do not, and   *)
(* interleave with it at every await.                                      *)
(***************************************************************************)
EXTENDS Naturals, Sequences, FiniteSets

CONSTANTS
  Preparers,    \* callers of prepare: the three sets are disjoint
  Loaders,      \* of load,
  Inspectors,   \* and of inspect
  MaxWrites,    \* events ever appended, by anyone
  MaxForeign,   \* of these, by another process
  MaxQueue      \* no call begins while more operations than this are queued

Callers == Preparers \cup Loaders \cup Inspectors

(* A call is of one kind, and neither the live session nor the user of     *)
(* append makes one.                                                       *)
ASSUME CallersAssumption ==
  /\ IsFiniteSet(Callers)
  /\ Preparers \cap Loaders = {} /\ (Preparers \cup Loaders) \cap Inspectors = {}
  /\ "live" \notin Callers /\ "api" \notin Callers

Entries == 1..(Cardinality(Callers) + 3)
NoEntry == 0

VARIABLES
  stored,    \* the durable log: revision, length, and what recovery has to mend
  written,   \* events appended so far, and those of other processes
  state,     \* states.get(id): cursor and owner, or NoState
  pool,      \* entries.get(id)
  entry,     \* every entry that something still refers to
  chain,     \* chains.get(id): operations queued for the id, head running
  run,       \* progress and locals of the running operation
  call,      \* the callers: what each is doing and the entry it holds
  live,      \* the published session: absent, live, or retiring
  unsaved    \* its events that no append has stored

vars == <<stored, written, state, pool, entry, chain, run, call, live, unsaved>>
storeVars == <<stored, written>>
liveVars == <<live, unsaved>>

NoState == [cursor |-> 0, owner |-> "untracked"]
NoSource == [rev |-> 0, len |-> 0, damage |-> "none"]
Damages == {"none", "torn", "open"}
Blank == [phase |-> "absent", result |-> "none", source |-> NoSource]
Idle == [pc |-> "idle", entry |-> NoEntry, result |-> "none", since |-> 0, got |-> 0,
         aborted |-> FALSE]
Rest == [step |-> "rest", source |-> NoSource, current |-> FALSE]
Job(op, who, e) == [op |-> op, who |-> who, entry |-> e, seq |-> 0, n |-> 0, dropped |-> FALSE]
Batch(who, seq, n) == [Job("append", who, NoEntry) EXCEPT !.seq = seq, !.n = n]

(* The events of a log once its open turn is closed. *)
Logical(log) == log.len + (IF log.damage = "open" THEN 1 ELSE 0)

Init ==
  /\ stored \in [rev : {1}, len : {1}, damage : Damages]
  /\ written = [all |-> 0, foreign |-> 0]
  /\ state = NoState
  /\ pool = NoEntry /\ entry = [e \in Entries |-> Blank]
  /\ chain = <<>> /\ run = Rest
  /\ call = [c \in Callers |-> Idle]
  /\ live = "absent" /\ unsaved = 0

---------------------------------------------------------------------------
(* Entries are objects: one lives while the pool, a caller or a queued     *)
(* operation refers to it.                                                 *)
Kept(f) ==
  [e \in Entries |->
     IF \/ pool' = e
        \/ \E c \in Callers : call'[c].entry = e
        \/ \E i \in DOMAIN chain' : chain'[i].entry = e
     THEN f[e] ELSE Blank]
Free == {e \in Entries : entry[e] = Blank}
Fresh == CHOOSE e \in Free : \A f \in Free : e <= f

InPool(e) == pool = e /\ e # NoEntry
Removed(e) == IF pool = e THEN NoEntry ELSE pool
Ready(e) == [entry[e] EXCEPT !.phase = "ready"]

(* serialize: the operation runs after all earlier ones for the id. *)
Enqueue(job) ==
  /\ chain' = Append(chain, job)
  /\ run' = IF chain = <<>> THEN [Rest EXCEPT !.step = "queued"] ELSE run

(* The running operation ends.  Its successor was waiting on it first, and *)
(* starts before whoever awaited the result goes on.                       *)
Dequeue ==
  /\ chain' = Tail(chain)
  /\ run' = IF Len(chain) = 1 THEN Rest ELSE [Rest EXCEPT !.step = "next"]
Resumes == run.step # "next"

Running(op, step) == chain # <<>> /\ Head(chain).op = op /\ run.step = step
Starting(op) == /\ chain # <<>> /\ Head(chain).op = op /\ ~Head(chain).dropped
                /\ run.step \in {"queued", "next"}

---------------------------------------------------------------------------
(* prepareCore: read and balance the stored log.                           *)
ReadStored ==
  /\ \/ Starting("read")
     \/ Running("append", "adoptRead")
  /\ run' = [step |-> IF Head(chain).op = "read" THEN "read" ELSE "adopted",
             source |-> stored, current |-> FALSE]
  /\ UNCHANGED <<storeVars, state, pool, entry, chain, call, liveVars>>

(* The balanced log becomes an unpublished Session, which is refused while *)
(* the id is live; otherwise the entry becomes ready if it is still        *)
(* pooled.                                                                 *)
ReadEnds(ok) ==
  /\ Running("read", "read")
  /\ ok => live # "live"
  /\ LET e == Head(chain).entry
         loaded == IF ok THEN [phase |-> IF InPool(e) THEN "ready" ELSE entry[e].phase,
                               result |-> "ok", source |-> run.source]
                         ELSE [entry[e] EXCEPT !.result = "failed"]
     IN /\ pool' = IF ok THEN pool ELSE Removed(e)
        /\ Dequeue /\ UNCHANGED call
        /\ entry' = Kept([entry EXCEPT ![e] = loaded])
  /\ UNCHANGED <<storeVars, state, liveVars>>

(* A caller that gave up before its operation started: it never runs. *)
DropStarts ==
  /\ chain # <<>> /\ Head(chain).dropped /\ run.step \in {"queued", "next"}
  /\ Dequeue /\ UNCHANGED <<pool, call>>
  /\ entry' = Kept(entry)
  /\ UNCHANGED <<storeVars, state, liveVars>>

---------------------------------------------------------------------------
(* commitPrepared, for a reservation and for an append that adopts the     *)
(* log.  The source of a reservation is its entry's.                       *)
CommitStarts ==
  /\ Starting("commit")
  /\ IF state.owner = "live"
     THEN /\ call' = [call EXCEPT ![Head(chain).who].result = "failed"]
          /\ Dequeue /\ UNCHANGED pool
          /\ entry' = Kept(entry)
     ELSE /\ run' = [run EXCEPT !.step = "adopted", !.source = entry[Head(chain).entry].source]
          /\ UNCHANGED <<chain, call, pool, entry>>
  /\ UNCHANGED <<storeVars, state, liveVars>>

(* A bug for the checks: the revision is not compared. *)
ReadRevisionUnchecked ==
  /\ run.step = "adopted"
  /\ run' = [run EXCEPT !.step = "compared", !.current = TRUE]
  /\ UNCHANGED <<storeVars, state, pool, entry, chain, call, liveVars>>

ReadRevision ==
  /\ run.step = "adopted"
  /\ run' = [run EXCEPT !.step = "compared", !.current = (stored.rev = run.source.rev)]
  /\ UNCHANGED <<storeVars, state, pool, entry, chain, call, liveVars>>

(* A repair moves the revision; the source that asked for it is dropped. *)
Mends == run.step = "compared" /\ run.current /\ run.source.damage # "none"

CommitRepair ==
  /\ Mends
  /\ stored' = [rev |-> stored.rev + 1, len |-> Logical(stored), damage |-> "none"]
  /\ run' = [run EXCEPT !.current = FALSE]
  /\ UNCHANGED <<written, state, pool, entry, chain, call, liveVars>>

CommitEnds ==
  /\ run.step = "compared" /\ ~Mends /\ Head(chain).op = "commit"
  /\ state' = IF run.current THEN [cursor |-> run.source.len, owner |-> "none"] ELSE state
  /\ call' = [call EXCEPT ![Head(chain).who].result =
                IF run.current THEN "committed" ELSE "outdated"]
  /\ Dequeue /\ UNCHANGED pool
  /\ entry' = Kept(entry)
  /\ UNCHANGED <<storeVars, liveVars>>

RepairFails ==
  /\ Mends /\ Head(chain).op = "commit"
  /\ call' = [call EXCEPT ![Head(chain).who].result = "failed"]
  /\ Dequeue /\ UNCHANGED pool
  /\ entry' = Kept(entry)
  /\ UNCHANGED <<storeVars, state, liveVars>>

---------------------------------------------------------------------------
(* appendCore.  A live session whose batch is refused while it retires is  *)
(* given up with what is unsaved.                                          *)
AppendRefused ==
  /\ live' = IF Head(chain).who = "live" /\ live = "retiring" THEN "lost" ELSE live
  /\ Dequeue /\ UNCHANGED <<pool, call, unsaved>>
  /\ entry' = Kept(entry)

(* A bug: a reservation protects the log only until it is granted.         *)
WritableOnceGranted == pool = NoEntry \/ entry[pool].phase # "committing"

Writable == pool = NoEntry \/ entry[pool].phase \notin {"committing", "reserved"}

(* adopt: a completed preparation is taken out of the pool, or the log is  *)
(* read.                                                                   *)
Adopt ==
  /\ IF pool # NoEntry /\ entry[pool].phase = "ready"
     THEN /\ run' = [step |-> "adopted", source |-> entry[pool].source, current |-> FALSE]
          /\ pool' = NoEntry
     ELSE run' = [Rest EXCEPT !.step = "adoptRead"] /\ UNCHANGED pool
  /\ UNCHANGED <<chain, call, live, unsaved>>
  /\ entry' = Kept(entry)

(* The contiguity contract. *)
Continues(cursor) ==
  IF Head(chain).seq = cursor
  THEN run' = [Rest EXCEPT !.step = "writing"] /\ UNCHANGED <<pool, entry, chain, call, live, unsaved>>
  ELSE AppendRefused

AppendStarts ==
  /\ Starting("append")
  /\ IF ~Writable THEN AppendRefused
     ELSE IF state = NoState THEN Adopt
     ELSE Continues(state.cursor)
  /\ UNCHANGED <<storeVars, state>>

AppendAdopts ==
  /\ run.step = "compared" /\ ~Mends /\ Head(chain).op = "append"
  /\ IF run.current
     THEN state' = [cursor |-> run.source.len, owner |-> "none"] /\ Continues(run.source.len)
     ELSE Adopt /\ UNCHANGED state
  /\ UNCHANGED storeVars

WriteLands ==
  /\ Running("append", "writing")
  /\ \E damage \in {"none", "open"} :
       stored' = [rev |-> stored.rev + 1, len |-> stored.len + Head(chain).n, damage |-> damage]
  /\ run' = [run EXCEPT !.step = "written"]
  /\ UNCHANGED <<written, state, pool, entry, chain, call, liveVars>>

WriteFails ==
  /\ Running("append", "writing") \/ (Mends /\ Head(chain).op = "append")
  /\ AppendRefused
  /\ UNCHANGED <<storeVars, state>>

AppendEnds ==
  /\ Running("append", "written")
  /\ state' = [state EXCEPT !.cursor = @ + Head(chain).n]
  /\ pool' = NoEntry
  /\ unsaved' = IF Head(chain).who = "live" THEN unsaved - Head(chain).n ELSE unsaved
  /\ Dequeue /\ UNCHANGED call
  /\ entry' = Kept(entry)
  /\ UNCHANGED <<storeVars, live>>

---------------------------------------------------------------------------
(* The callers.                                                            *)
Step(c, f) == call' = [call EXCEPT ![c] = f]
Leaves(c, pc) == [call[c] EXCEPT !.pc = pc, !.entry = NoEntry, !.result = "none"]
Answer(c, source) == [Leaves(c, "answered") EXCEPT !.got = Logical(source)]

Begin(c) ==
  /\ call[c].pc = "idle" /\ Len(chain) <= MaxQueue
  /\ Step(c, [Idle EXCEPT !.pc = "outside", !.since = Logical(stored)])
  /\ UNCHANGED <<storeVars, state, pool, entry, chain, run, liveVars>>

(* waitForRetirement: prepare and load go on in the next promise job, with *)
(* nothing but a disposal in between.                                      *)
PassRetirement(c) ==
  /\ call[c].pc = "outside" /\ c \notin Inspectors /\ live # "retiring"
  /\ Step(c, [call[c] EXCEPT !.pc = "passed"])
  /\ UNCHANGED <<storeVars, state, pool, entry, chain, run, liveVars>>

AtDoor(c) ==
  \/ call[c].pc = "passed"
  \/ call[c].pc = "outside" /\ c \in Inspectors /\ live # "retiring" /\ Resumes

(* A live session answers for its id; prepare refuses. *)
MeetsLive(c) ==
  /\ AtDoor(c) \/ call[c].pc = "reserved"
  /\ live = "live"
  /\ Step(c, Leaves(c, "idle"))
  /\ pool' = IF call[c].pc = "reserved" THEN Removed(call[c].entry) ELSE pool
  /\ UNCHANGED <<chain, run>>
  /\ entry' = Kept(entry)
  /\ UNCHANGED <<storeVars, state, liveVars>>

(* entryFor: share the entry, or install one and start its read. *)
Join(c) ==
  /\ AtDoor(c) /\ live # "live"
  /\ \/ /\ pool # NoEntry
        /\ Step(c, [call[c] EXCEPT !.pc = "loading", !.entry = pool])
        /\ UNCHANGED <<pool, entry, chain, run>>
     \/ /\ pool = NoEntry /\ Free # {}
        /\ pool' = Fresh
        /\ Step(c, [call[c] EXCEPT !.pc = "loading", !.entry = Fresh])
        /\ entry' = [entry EXCEPT ![Fresh] = [Blank EXCEPT !.phase = "loading", !.result = "pending"]]
        /\ Enqueue(Job("read", c, Fresh))
  /\ UNCHANGED <<storeVars, state, liveVars>>

Loaded(c) == /\ call[c].pc = "loading" /\ Resumes
             /\ entry[call[c].entry].result = "ok"

(* The read failed for whoever waits on it. *)
LoadFails(c) ==
  /\ call[c].pc = "loading" /\ entry[call[c].entry].result = "failed"
  /\ Step(c, Leaves(c, "idle"))
  /\ UNCHANGED <<pool, chain, run>>
  /\ entry' = Kept(entry)
  /\ UNCHANGED <<storeVars, state, liveVars>>

(* reserve: an entry that left the pool is tried again from the start; one *)
(* that another reservation holds is waited for.                           *)
Claim(c) ==
  /\ Loaded(c) /\ c \notin Inspectors
  /\ LET e == call[c].entry
     IN \/ /\ ~InPool(e)
           /\ Step(c, Leaves(c, "outside"))
           /\ UNCHANGED <<pool, chain, run>>
           /\ entry' = Kept(entry)
        \/ /\ InPool(e) /\ entry[e].phase = "ready"
           /\ Step(c, [call[c] EXCEPT !.pc = "committing"])
           /\ entry' = [entry EXCEPT ![e].phase = "committing"]
           /\ Enqueue(Job("commit", c, e)) /\ UNCHANGED pool
  /\ UNCHANGED <<storeVars, state, liveVars>>

(* The commit's outcome.  An abort is looked at only after a commit that   *)
(* succeeded.                                                              *)
Reserve(c) ==
  /\ call[c].pc = "committing" /\ call[c].result # "none" /\ Resumes
  /\ LET e == call[c].entry
         r == call[c].result
     IN IF r = "committed" /\ call[c].aborted
        THEN /\ Step(c, Leaves(c, "idle")) /\ UNCHANGED <<pool, chain, run>>
             /\ entry' = Kept(IF InPool(e) THEN [entry EXCEPT ![e] = Ready(e)] ELSE entry)
        ELSE IF r = "committed" /\ InPool(e)
        THEN /\ Step(c, [call[c] EXCEPT !.pc = "reserved", !.result = "none"])
             /\ entry' = [entry EXCEPT ![e].phase = "reserved"]
             /\ UNCHANGED <<pool, chain, run>>
        ELSE /\ pool' = Removed(e)
             /\ Step(c, Leaves(c, IF r = "failed" THEN "idle" ELSE "outside"))
             /\ UNCHANGED <<chain, run>>
             /\ entry' = Kept(entry)
  /\ UNCHANGED <<storeVars, state, liveVars>>

(* load consumes its reservation; prepare hands it to its caller. *)
Granted(c) ==
  /\ call[c].pc = "reserved" /\ live # "live"
  /\ IF c \in Loaders
     THEN /\ Step(c, Answer(c, entry[call[c].entry].source))
          /\ pool' = Removed(call[c].entry) /\ UNCHANGED <<chain, run>>
          /\ entry' = Kept(entry)
     ELSE Step(c, [call[c] EXCEPT !.pc = "holding"]) /\ UNCHANGED <<pool, entry, chain, run>>
  /\ UNCHANGED <<storeVars, state, liveVars>>

Answered(c) ==
  /\ call[c].pc = "answered"
  /\ Step(c, Idle)
  /\ UNCHANGED <<storeVars, state, pool, entry, chain, run, liveVars>>

---------------------------------------------------------------------------
(* inspect: the revision is compared on the chain before the view counts.  *)
AskCurrent(c) ==
  /\ Loaded(c) /\ c \in Inspectors
  /\ IF live = "live"
     THEN /\ Step(c, Leaves(c, "idle")) /\ UNCHANGED <<pool, chain, run>>
          /\ entry' = Kept(entry)
     ELSE /\ Step(c, [call[c] EXCEPT !.pc = "checking"])
          /\ Enqueue(Job("check", c, call[c].entry)) /\ UNCHANGED <<pool, entry>>
  /\ UNCHANGED <<storeVars, state, liveVars>>

CheckRevision ==
  /\ Starting("check")
  /\ LET job == Head(chain)
     IN call' = [call EXCEPT ![job.who].result =
                   IF stored.rev = entry[job.entry].source.rev THEN "current" ELSE "outdated"]
  /\ Dequeue /\ UNCHANGED pool
  /\ entry' = Kept(entry)
  /\ UNCHANGED <<storeVars, state, liveVars>>

(* A stale ready source is discarded and read again; one that a            *)
(* reservation holds is borrowed.                                          *)
Inspected(c) ==
  /\ call[c].pc = "checking" /\ call[c].result # "none" /\ Resumes
  /\ LET e == call[c].entry
         borrowed == InPool(e) /\ entry[e].phase # "ready"
         answer == Answer(c, entry[e].source)
     IN /\ Step(c, IF live = "live" THEN Leaves(c, "idle")
                   ELSE IF call[c].result = "current" THEN answer
                   ELSE IF borrowed THEN [answer EXCEPT !.result = "borrowed"]
                   ELSE Leaves(c, IF call[c].aborted THEN "idle" ELSE "outside"))
        /\ pool' = IF live = "live" \/ call[c].result = "current" \/ borrowed
                   THEN pool ELSE Removed(e)
        /\ UNCHANGED <<chain, run>>
        /\ entry' = Kept(entry)
  /\ UNCHANGED <<storeVars, state, liveVars>>

(* The caller's signal.  What has not started is dropped; a commit that    *)
(* has started decides.                                                    *)
Started(c) == \/ call[c].result # "none"
              \/ /\ chain # <<>> /\ Head(chain).who = c
                 /\ Head(chain).op \in {"commit", "check"} /\ ~Head(chain).dropped
                 /\ run.step \notin {"queued", "next"}

Cancel(c) ==
  /\ c \notin Loaders /\ ~call[c].aborted
  /\ \/ /\ call[c].pc \in {"committing", "checking"} /\ Started(c)
        /\ Step(c, [call[c] EXCEPT !.aborted = TRUE])
        /\ UNCHANGED <<pool, entry, chain, run>>
     \/ /\ call[c].pc \in {"outside", "loading"}
           \/ (call[c].pc \in {"committing", "checking"} /\ ~Started(c))
        /\ pool' = IF call[c].pc = "committing" THEN Removed(call[c].entry) ELSE pool
        /\ chain' = [i \in DOMAIN chain |->
                       IF chain[i].who = c /\ chain[i].op \in {"commit", "check"}
                       THEN [chain[i] EXCEPT !.dropped = TRUE] ELSE chain[i]]
        /\ Step(c, Idle) /\ UNCHANGED run
        /\ entry' = Kept(entry)
  /\ UNCHANGED <<storeVars, state, liveVars>>

---------------------------------------------------------------------------
(* The holder of a prepared session.  attachPrepared refuses a session     *)
(* that no longer matches the id's state.                                  *)
Matches(c) == /\ InPool(call[c].entry)
              /\ entry[call[c].entry].phase = "reserved"
              /\ state.owner = "none"
              /\ state.cursor = entry[call[c].entry].source.len

ApiQueued == \E i \in DOMAIN chain : chain[i].who = "api"

Publish(c) ==
  /\ call[c].pc = "holding" /\ live # "live" /\ Matches(c) /\ ~ApiQueued
  /\ written.all < MaxWrites
  /\ live' = "live" /\ state' = [state EXCEPT !.owner = "live"]
  /\ pool' = Removed(call[c].entry)
  /\ Step(c, Idle)
  /\ unsaved' = 1   \* the marker that ends the seed
  /\ Enqueue(Batch("live", state.cursor, 1))
  /\ written' = [written EXCEPT !.all = @ + 1]
  /\ entry' = Kept(entry)
  /\ UNCHANGED stored

(* release: reusable unless the unpublished session was changed. *)
Release(c, reusable) ==
  /\ call[c].pc = "holding"
  /\ LET e == call[c].entry
     IN /\ Step(c, Idle)
        /\ pool' = IF reusable /\ state.owner = "none" THEN pool ELSE Removed(e)
        /\ UNCHANGED <<chain, run>>
        /\ entry' = Kept(IF InPool(e) /\ reusable /\ state.owner = "none"
                         THEN [entry EXCEPT ![e] = Ready(e)] ELSE entry)
  /\ UNCHANGED <<storeVars, state, liveVars>>

LiveEvent ==
  /\ live = "live" /\ written.all < MaxWrites
  /\ unsaved' = unsaved + 1
  /\ written' = [written EXCEPT !.all = @ + 1]
  /\ UNCHANGED <<stored, state, pool, entry, chain, run, call, live>>

Writing == \E i \in DOMAIN chain : chain[i].who = "live"

(* appendLiveBatch drops what the cursor has passed, so a batch starts at  *)
(* the cursor.                                                             *)
LiveFlush ==
  /\ live \in {"live", "retiring"} /\ unsaved > 0 /\ ~Writing
  /\ Enqueue(Batch("live", state.cursor, unsaved))
  /\ UNCHANGED <<storeVars, state, pool, entry, call, liveVars>>

Dispose ==
  /\ live = "live" /\ live' = "retiring"
  /\ UNCHANGED <<storeVars, state, pool, entry, chain, run, call, unsaved>>

RetireCore ==
  /\ live = "retiring" /\ unsaved = 0 /\ ~Writing
  /\ Enqueue(Job("retire", "live", NoEntry))
  /\ UNCHANGED <<storeVars, state, pool, entry, call, liveVars>>

Retired ==
  /\ Starting("retire")
  /\ live' = "absent" /\ state' = IF state.owner = "live" THEN NoState ELSE state
  /\ Dequeue /\ UNCHANGED <<pool, call, unsaved>>
  /\ entry' = Kept(entry)
  /\ UNCHANGED storeVars

---------------------------------------------------------------------------
(* Everyone else.                                                          *)
(* The service's append, by a caller that goes on from the log it last     *)
(* saw: now, with its turn closed, or before a load closed it.  Nobody     *)
(* uses it on a live id.                                                   *)
ApiAppend ==
  /\ written.all < MaxWrites /\ live = "absent" /\ ~ApiQueued
  /\ \E seq \in (stored.len - 1)..Logical(stored) : Enqueue(Batch("api", seq, 1))
  /\ written' = [written EXCEPT !.all = @ + 1]
  /\ UNCHANGED <<stored, state, pool, entry, call, liveVars>>

ForeignWrite ==
  /\ written.all < MaxWrites /\ written.foreign < MaxForeign
  /\ \E damage \in Damages :
       stored' = [rev |-> stored.rev + 1, len |-> Logical(stored) + 1, damage |-> damage]
  /\ written' = [all |-> written.all + 1, foreign |-> written.foreign + 1]
  /\ UNCHANGED <<state, pool, entry, chain, run, call, liveVars>>

(* touch: another id's entry became ready, and this one is the oldest. *)
Evict ==
  /\ pool # NoEntry /\ entry[pool].phase = "ready"
  /\ pool' = NoEntry /\ UNCHANGED <<chain, call, run>>
  /\ entry' = Kept(entry)
  /\ UNCHANGED <<storeVars, state, liveVars>>

Chain ==
  \/ ReadStored \/ ReadEnds(TRUE) \/ ReadEnds(FALSE) \/ DropStarts
  \/ CommitStarts \/ ReadRevision \/ CommitRepair \/ CommitEnds \/ RepairFails
  \/ AppendStarts \/ AppendAdopts \/ WriteLands \/ WriteFails \/ AppendEnds
  \/ CheckRevision \/ Retired
Proceed(c) ==
  \/ PassRetirement(c) \/ MeetsLive(c) \/ Join(c) \/ LoadFails(c) \/ Claim(c)
  \/ Reserve(c) \/ Granted(c) \/ AskCurrent(c) \/ Inspected(c) \/ Answered(c)
Holder(c) == Publish(c) \/ Release(c, TRUE) \/ Release(c, FALSE)
Retirement == LiveFlush \/ RetireCore

(* What takes a few promise jobs is over before storage answers: a caller  *)
(* past the retirement it waited for, then the drain of a retiring         *)
(* session.                                                                *)
Between == \E c \in Callers : call[c].pc = "passed"
Draining == live = "retiring" /\ ~Writing

Settled == ~Between /\ ~Draining

GoThrough(c) == call[c].pc = "passed" /\ (MeetsLive(c) \/ Join(c))
Drain == ~Between /\ Draining /\ Retirement
Storage == Settled /\ Chain

Next ==
  \/ Storage \/ Drain \/ Dispose
  \/ \E c \in Callers : GoThrough(c)
  \/ /\ Settled
     /\ \/ \E c \in Callers : Begin(c) \/ Proceed(c) \/ Holder(c) \/ Cancel(c)
        \/ LiveFlush \/ LiveEvent \/ ApiAppend \/ ForeignWrite \/ Evict

Spec == Init /\ [][Next]_vars

(* Storage answers, promise jobs run, and whoever holds a prepared session *)
(* publishes or releases it.                                               *)
Fairness ==
  /\ WF_vars(Storage) /\ WF_vars(Drain)
  /\ \A c \in Callers : /\ WF_vars(GoThrough(c))
                        /\ WF_vars(Settled /\ Proceed(c))
                        /\ WF_vars(Settled /\ Holder(c))
FairSpec == Spec /\ Fairness

---------------------------------------------------------------------------
TypeOK ==
  /\ stored \in [rev : Nat, len : Nat, damage : Damages]
  /\ written \in [all : Nat, foreign : Nat]
  /\ state \in [cursor : Nat, owner : {"untracked", "none", "live"}]
  /\ pool \in Entries \cup {NoEntry}
  /\ \A e \in Entries :
       /\ entry[e].phase \in {"absent", "loading", "ready", "committing", "reserved"}
       /\ entry[e].result \in {"none", "pending", "ok", "failed"}
  /\ \A c \in Callers :
       call[c].pc \in {"idle", "outside", "passed", "loading", "committing", "checking",
                       "reserved", "holding", "answered"}
  /\ live \in {"absent", "live", "retiring", "lost"}
  /\ unsaved \in Nat

(* The callers whose reservation of the pooled entry is in force. *)
Holders == {c \in Callers : /\ call[c].pc \in {"committing", "reserved", "holding"}
                            /\ InPool(call[c].entry)}

(* An unpublished session belongs to one caller: of those that share an    *)
(* entry, wait for it and wake up together, one reserves it                *)
(* (preparations.ts reserve).                                              *)
OneHolder == Cardinality(Holders) <= 1

(* The session a caller holds is as new as its call and can be published:  *)
(* whatever was queued, cancelled, appended or evicted since the commit,   *)
(* the entry is still its own and the id's state still stands at its end   *)
(* (coordinator.ts:1196 never throws).                                     *)
HeldIsPublishable ==
  \A c \in Callers :
    call[c].pc \in {"reserved", "holding"} /\ live # "live" =>
      /\ Matches(c)
      /\ Logical(entry[call[c].entry].source) >= call[c].since

(* No answer omits an event that was durable when the call was made.  A    *)
(* view borrowed from another caller's reservation keeps this promise      *)
(* against this process's own appends.                                     *)
AnswersAreFresh ==
  \A c \in Callers :
    /\ call[c].pc = "answered"
    /\ call[c].result = "borrowed" => written.foreign = 0
    => call[c].got >= call[c].since

(* The cursor of an id that has an owner, or whose session is reserved, is *)
(* the length of its log, whatever was committed, repaired and appended    *)
(* before (another process left aside).                                    *)
CursorIsEnd ==
  /\ written.foreign = 0 /\ run.step # "written"
  /\ \/ state.owner = "live"
     \/ \E c \in Holders : call[c].pc # "committing"
  => state.cursor = stored.len

(* The append contract (index.ts:137): the first event's seq equals the    *)
(* stored next-seq.                                                        *)
AppendContinuesLog ==
  [][WriteLands => Head(chain).seq = stored.len]_vars

(* Nobody waits for nobody: an entry that is not ready has someone who     *)
(* will settle it, through every failure, refusal and cancellation, so     *)
(* those who share it are woken up.                                        *)
EntryIsAttended ==
  pool # NoEntry =>
    CASE entry[pool].phase = "loading" ->
           \E i \in DOMAIN chain : chain[i].op = "read" /\ chain[i].entry = pool
      [] entry[pool].phase = "committing" -> \E c \in Holders : call[c].pc = "committing"
      [] entry[pool].phase = "reserved" -> \E c \in Holders : call[c].pc \in {"reserved", "holding"}
      [] OTHER -> entry[pool].phase = "ready"

(* The promises of a preparation, together (preparations.ts:114,           *)
(* coordinator.ts:1196).                                                   *)
PreparationIsSound ==
  TypeOK /\ OneHolder /\ HeldIsPublishable /\ CursorIsEnd /\ EntryIsAttended

(* Once nobody starts another call and nothing is evicted, every call that *)
(* is under way returns.                                                   *)
CallsEnd ==
  <>[][\A c \in Callers : ~Begin(c) /\ ~Evict]_vars
  => <>[](\A c \in Callers : call[c].pc = "idle")
=============================================================================
