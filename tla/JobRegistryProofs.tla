------------------------- MODULE JobRegistryProofs -------------------------
(***************************************************************************)
(* Proofs about JobRegistry for any jobs, owners and calls of wait(): every*)
(* completion is owed to somebody, none is told twice, a teardown is quiet *)
(* and leaves nothing.  Then about LlmRetry for any policies and any       *)
(* number of requests: a policy keeps its limit, what is logged is         *)
(* started, and nothing is logged late.  At the end, what MCServices       *)
(* checks of both services.                                                *)
(***************************************************************************)
EXTENDS MCServices, Integers, SequenceTheorems, FiniteSetTheorems, TLAPS

---------------------------------------------------------------------------
(* The inductive invariant, in named parts.                                *)

(* A record that is live is in the store, and only started jobs are ever   *)
(* in it, settle or are noticed.  A producer that is still to settle has   *)
(* been reported only by a call or a teardown that claimed it.             *)
Recorded ==
  \A j \in Jobs :
    /\ status[j] \in Live => j \in store
    /\ j \in store => status[j] # "absent"
    /\ done[j] # "pending" => status[j] # "absent"
    /\ j \in noticed \/ announcing = j => IsTerminal(j)
    /\ j \in reported /\ ~IsTerminal(j) => j \in claimed

(* A call of wait() is counted exactly while its promise has not answered; *)
(* a notice is never sent while it is counted, nor after it told the end.  *)
CallsAreCounted ==
  \A w \in Waiters :
    LET j == wait[w].job
    IN  /\ wait[w].counted <=> wait[w].at \in {"waiting", "released"}
        /\ wait[w].at # "idle" => j \in Jobs
        /\ wait[w].at = "waiting" => ~IsTerminal(j)
        /\ wait[w].counted => j \notin noticed /\ (announcing = j => silent)
        /\ wait[w].at = "answered" => /\ IsTerminal(j) /\ announcing # j
                                      /\ j \notin noticed

(* A settlement that keeps silent was told otherwise, or a wait will tell  *)
(* it; and it keeps silent for an owner and a registry being disposed.     *)
SilenceIsCovered ==
  announcing # NoJob =>
    /\ silent => \/ announcing \in claimed
                 \/ \E w \in Waiters : wait[w].at = "released" /\ wait[w].job = announcing
    /\ ~IsLive(owner[announcing]) => silent
    /\ phase[Service] # "live" => announcing \in claimed

(* Nothing is left to cancel but in a disposal.                            *)
LeftIsKnown ==
  /\ (\A x \in Scopes : phase[x] # "cancelling") => left = {}
  /\ left \subseteq store

(* What a disposal will not have cancelled is flagged, and no job of an    *)
(* owner that is over escapes the snapshot its disposal waits for.         *)
OwnersAreWhole ==
  \A o \in Owners : phase[o] # "live" =>
    \A j \in Jobs : owner[j] = o =>
      /\ j \in store => phase[o] # "gone" /\ j \in owned[o]
      /\ status[j] \in Live => j \in reported \cup left

(* The same of the registry: what it will not have cancelled is claimed.   *)
ServiceIsWhole ==
  phase[Service] # "live" =>
    \A j \in Jobs :
      /\ j \in store => phase[Service] # "gone" /\ j \in owned[Service]
      /\ status[j] \in Live => j \in claimed \cup left

DisposalsAreWhole == LeftIsKnown /\ OwnersAreWhole /\ ServiceIsWhole

IInv == /\ TypeOK /\ Recorded /\ CallsAreCounted /\ SilenceIsCovered
        /\ DisposalsAreWhole /\ CompletionIsOwed

---------------------------------------------------------------------------
(* Facts of the vocabulary.                                                *)

LEMMA StatusFacts ==
  /\ Live \cap Terminal = {} /\ "absent" \notin Live \cup Terminal
  /\ "running" \in Live /\ "stopping" \in Live /\ "failed" \in Terminal
  /\ Service \notin Owners /\ Unowned \notin Owners /\ NoJob \notin Jobs
  BY NamesAreApart DEF Live, Terminal

LEMMA ScopeFacts ==
  Service \in Scopes /\ Owners \subseteq Scopes /\ \A x \in Scopes : x = Service \/ x \in Owners
  BY DEF Scopes

(* What is kept of a call of wait().                                       *)
WaitRecord == [at : {"idle", "waiting", "released", "answered", "expired", "rejected"},
               job : Jobs \cup {NoJob}, counted : BOOLEAN]

(* The record that Commit leaves each call of wait() with.                 *)
LEMMA CommitWaits ==
  ASSUME TypeOK, NEW j \in Jobs, NEW outcome, NEW told, Commit(j, outcome, told)
  PROVE  \A w \in Waiters :
           /\ wait'[w] \in WaitRecord
           /\ wait'[w].job = wait[w].job /\ wait'[w].counted = wait[w].counted
           /\ wait[w].job = j /\ wait[w].at = "waiting" => wait'[w].at = "released"
           /\ ~(wait[w].job = j /\ wait[w].at = "waiting") => wait'[w].at = wait[w].at
  <1> SUFFICES ASSUME NEW w \in Waiters
      PROVE  /\ wait'[w] \in WaitRecord
             /\ wait'[w].job = wait[w].job /\ wait'[w].counted = wait[w].counted
             /\ wait[w].job = j /\ wait[w].at = "waiting" => wait'[w].at = "released"
             /\ ~(wait[w].job = j /\ wait[w].at = "waiting") => wait'[w].at = wait[w].at
    OBVIOUS
  <1>1. wait'[w] = IF wait[w].job = j /\ wait[w].at = "waiting"
                   THEN [wait[w] EXCEPT !.at = "released"] ELSE wait[w]
    BY DEF Commit, Registered
  <1>2. wait[w] \in WaitRecord
    BY DEF TypeOK, WaitRecord
  <1> QED
    BY <1>1, <1>2 DEF WaitRecord

(* What the calls of wait() become when one of them takes a step.          *)
LEMMA WaitStep ==
  ASSUME TypeOK, NEW w \in Waiters, NEW a, NEW c, wait' = [wait EXCEPT ![w].at = a, ![w].counted = c]
  PROVE  /\ wait'[w].at = a /\ wait'[w].counted = c /\ wait'[w].job = wait[w].job
         /\ \A v \in Waiters : v # w => wait'[v] = wait[v]
  BY DEF TypeOK
LEMMA WaitRelease ==
  ASSUME TypeOK, NEW w \in Waiters, NEW a, wait' = [wait EXCEPT ![w].at = a]
  PROVE  /\ wait'[w].at = a /\ wait'[w].counted = wait[w].counted /\ wait'[w].job = wait[w].job
         /\ \A v \in Waiters : v # w => wait'[v] = wait[v]
  BY DEF TypeOK

---------------------------------------------------------------------------
(* Types and the bound.                                                    *)

(* The bound on the work in progress, which TypeOK ends with.              *)
Bounded == \A o \in Owners \cup {Unowned} : Cardinality(ActiveJobs(o)) <= MaxActive

(* A step that starts nothing adds nothing to anybody's work.              *)
LEMMA NothingStarted ==
  ASSUME TypeOK, store' \subseteq store, owner' = owner,
         \A j \in store : status'[j] \in Live => status[j] \in Live
  PROVE  Bounded'
  <1> SUFFICES ASSUME NEW o \in Owners \cup {Unowned} PROVE Cardinality(ActiveJobs(o)') <= MaxActive
    BY DEF Bounded
  <1>1. ActiveJobs(o)' \subseteq ActiveJobs(o) /\ ActiveJobs(o) \subseteq Jobs
    BY DEF ActiveJobs, TypeOK
  <1>2. IsFiniteSet(ActiveJobs(o))
    BY <1>1, FinitelyManyJobs, FS_Subset
  <1>3. /\ Cardinality(ActiveJobs(o)') <= Cardinality(ActiveJobs(o))
        /\ Cardinality(ActiveJobs(o)) \in Nat /\ IsFiniteSet(ActiveJobs(o)')
    BY <1>1, <1>2, FS_Subset, FS_CardinalityType
  <1>4. Cardinality(ActiveJobs(o)') \in Nat
    BY <1>3, FS_CardinalityType
  <1>5. Cardinality(ActiveJobs(o)) <= MaxActive
    BY DEF TypeOK, ActiveJobs
  <1> QED
    BY <1>3, <1>4, <1>5, MaxActiveIsANumber

(* No step starts more than an owner may have.                             *)
LEMMA BoundStep ==
  ASSUME TypeOK, Recorded, DisposalsAreWhole, [Next]_vars
  PROVE  Bounded'
  <1>1. ASSUME NEW j \in Jobs, NEW o \in Owners \cup {Unowned}, Start(j, o) PROVE Bounded'
    <2> SUFFICES ASSUME NEW p \in Owners \cup {Unowned}
        PROVE Cardinality(ActiveJobs(p)') <= MaxActive
      BY DEF Bounded
    <2>1. /\ store' = store \cup {j} /\ status' = [status EXCEPT ![j] = "running"]
          /\ owner' = [owner EXCEPT ![j] = o] /\ status[j] = "absent"
          /\ Cardinality(ActiveJobs(o)) < MaxActive
      BY <1>1 DEF Start
    <2>2. ActiveJobs(p)' = IF p = o THEN ActiveJobs(p) \cup {j} ELSE ActiveJobs(p)
      BY <2>1 DEF ActiveJobs, TypeOK, Recorded, Live
    <2>3. ActiveJobs(p) \subseteq Jobs
      BY DEF ActiveJobs, TypeOK
    <2>4. IsFiniteSet(ActiveJobs(p)) /\ j \notin ActiveJobs(p)
      BY <2>1, <2>3, FinitelyManyJobs, FS_Subset DEF ActiveJobs, Live
    <2>5. Cardinality(ActiveJobs(p)) \in Nat /\ Cardinality(ActiveJobs(p)) <= MaxActive
      BY <2>4, FS_CardinalityType DEF TypeOK, ActiveJobs
    <2>6. Cardinality(ActiveJobs(p) \cup {j}) = Cardinality(ActiveJobs(p)) + 1
      BY <2>4, FS_AddElement
    <2>7. CASE p = o
      BY <2>1, <2>2, <2>5, <2>6, <2>7, MaxActiveIsANumber
    <2>8. CASE p # o
      BY <2>2, <2>5, <2>8
    <2> QED
      BY <2>7, <2>8
  <1>2. ASSUME NEW j \in Jobs, Read(j) PROVE Bounded'
    BY <1>2, NothingStarted DEF Read, TypeOK
  <1>3. ASSUME NEW j \in Jobs, Kill(j) PROVE Bounded'
    <2>1. \A k \in store : status'[k] \in Live => status[k] \in Live
      BY <1>3 DEF Kill, TypeOK, IsTerminal, Live, Terminal, Recorded
    <2> QED
      BY <1>3, <2>1, NothingStarted DEF Kill
  <1>4. ASSUME NEW j \in Jobs, Finish(j) PROVE Bounded'
    BY <1>4, NothingStarted DEF Finish, TypeOK
  <1>5. ASSUME NEW j \in Jobs, Settle(j) PROVE Bounded'
    <2>1. \A k \in store : status'[k] \in Live => status[k] \in Live
      BY <1>5 DEF Settle, Commit, TypeOK, IsTerminal, Live, Terminal, Recorded
    <2> QED
      BY <1>5, <2>1, NothingStarted DEF Settle
  <1>6. ASSUME NEW j \in Jobs, Cancel(j) PROVE Bounded'
    <2>1. \A k \in store : status'[k] \in Live => status[k] \in Live
      BY <1>6 DEF Cancel, Commit, TypeOK, IsTerminal, Live, Terminal, Recorded
    <2> QED
      BY <1>6, <2>1, NothingStarted DEF Cancel
  <1>7. ASSUME NEW w \in Waiters, NEW j \in Jobs, Wait(w, j) PROVE Bounded'
    BY <1>7, NothingStarted DEF Wait, TypeOK
  <1>8. ASSUME NEW w \in Waiters, Abort(w) PROVE Bounded'
    BY <1>8, NothingStarted DEF Abort, TypeOK
  <1>9. ASSUME NEW w \in Waiters, Timeout(w) PROVE Bounded'
    BY <1>9, NothingStarted DEF Timeout, TypeOK
  <1>10. ASSUME NEW w \in Waiters, Resume(w) PROVE Bounded'
    BY <1>10, NothingStarted DEF Resume, TypeOK
  <1>11. CASE Announce
    BY <1>11, NothingStarted DEF Announce, TypeOK
  <1>12. ASSUME NEW x \in Scopes, Dispose(x) PROVE Bounded'
    <2>1. store' = store /\ owner' = owner /\ status' = status
      BY <1>12 DEF Dispose
    <2> QED
      BY <2>1, NothingStarted
  <1>13. ASSUME NEW x \in Scopes, Cancelled(x) PROVE Bounded'
    BY <1>13, NothingStarted DEF Cancelled, TypeOK
  <1>14. ASSUME NEW x \in Scopes, Drop(x) PROVE Bounded'
    <2>1. store' \subseteq store
      BY <1>14 DEF Drop
    <2> QED
      BY <1>14, <2>1, NothingStarted DEF Drop
  <1>15. CASE UNCHANGED vars
    BY <1>15, NothingStarted DEF vars, TypeOK
  <1> QED
    BY <1>1, <1>2, <1>3, <1>4, <1>5, <1>6, <1>7, <1>8, <1>9, <1>10,
       <1>11, <1>12, <1>13, <1>14, <1>15 DEF Next

(* Every step keeps the types.                                             *)
LEMMA TypeStep ==
  ASSUME TypeOK, Recorded, CallsAreCounted, DisposalsAreWhole, [Next]_vars
  PROVE  TypeOK'
  <1>b. \A o \in Owners \cup {Unowned} :
         Cardinality({j \in store' : owner'[j] = o /\ status'[j] \in Live}) <= MaxActive
    BY BoundStep DEF Bounded, ActiveJobs
  <1>1. ASSUME NEW j \in Jobs, NEW o \in Owners \cup {Unowned}, Start(j, o) PROVE TypeOK'
    BY <1>1, <1>b DEF Start, TypeOK, Live, Terminal
  <1>2. ASSUME NEW j \in Jobs, Read(j) PROVE TypeOK'
    BY <1>2, <1>b DEF Read, TypeOK, Live, Terminal
  <1>3. ASSUME NEW j \in Jobs, Kill(j) PROVE TypeOK'
    <2>1. status' \in [Jobs -> {"absent"} \cup Live \cup Terminal]
      BY <1>3 DEF Kill, TypeOK, Live
    <2>2. reported' \in SUBSET Jobs /\ claimed' \in SUBSET Jobs /\ asked' \in SUBSET Jobs
      BY <1>3 DEF Kill, TypeOK
    <2> QED
      BY <1>3, <1>b, <2>1, <2>2 DEF Kill, TypeOK
  <1>4. ASSUME NEW j \in Jobs, Finish(j) PROVE TypeOK'
    BY <1>4, <1>b DEF Finish, TypeOK, Live, Terminal
  <1>5. ASSUME NEW j \in Jobs, Settle(j) PROVE TypeOK'
    <2>1. CASE IsTerminal(j)
      BY <1>5, <1>b, <2>1 DEF Settle, TypeOK
    <2>2. CASE ~IsTerminal(j)
      <3> PICK outcome \in Terminal : Commit(j, outcome, reported)
        BY <1>5, <2>2 DEF Settle
      <3>1. wait' = [w \in Waiters |-> wait'[w]]
        BY DEF Commit
      <3>2. wait' \in [Waiters -> WaitRecord]
        BY <3>1, CommitWaits
      <3>3. status' \in [Jobs -> {"absent"} \cup Live \cup Terminal] /\ reported' \in SUBSET Jobs
            /\ announcing' \in Jobs /\ silent' \in BOOLEAN
        BY DEF Commit, TypeOK
      <3> QED
        BY <1>5, <1>b, <3>2, <3>3 DEF Settle, TypeOK, WaitRecord
    <2> QED
      BY <2>1, <2>2
  <1>6. ASSUME NEW j \in Jobs, Cancel(j) PROVE TypeOK'
    <2>1. CASE ~Commit(j, "failed", reported \cup {j})
      BY <1>6, <1>b, <2>1 DEF Cancel, TypeOK, Live
    <2>2. CASE Commit(j, "failed", reported \cup {j})
      <3>1. wait' = [w \in Waiters |-> wait'[w]]
        BY <2>2 DEF Commit
      <3>2. wait' \in [Waiters -> WaitRecord]
        BY <2>2, <3>1, CommitWaits
      <3>3. status' \in [Jobs -> {"absent"} \cup Live \cup Terminal] /\ reported' \in SUBSET Jobs
            /\ announcing' \in Jobs /\ silent' \in BOOLEAN
        BY <2>2 DEF Commit, TypeOK, Terminal
      <3>4. claimed' \in SUBSET Jobs /\ left' \in SUBSET Jobs /\ asked' \in SUBSET Jobs
        BY <1>6 DEF Cancel, TypeOK
      <3> QED
        BY <1>6, <1>b, <3>2, <3>3, <3>4 DEF Cancel, TypeOK, WaitRecord
    <2> QED
      BY <2>1, <2>2
  <1>7. ASSUME NEW w \in Waiters, NEW j \in Jobs, Wait(w, j) PROVE TypeOK'
    <2>0. wait \in [Waiters -> WaitRecord]
      BY DEF TypeOK, WaitRecord
    <2>a. [at |-> "expired", job |-> j, counted |-> FALSE] \in WaitRecord
          /\ [at |-> "waiting", job |-> j, counted |-> TRUE] \in WaitRecord
      BY DEF WaitRecord
    <2>1. wait' \in [Waiters -> WaitRecord]
      BY <1>7, <2>0, <2>a DEF Wait
    <2>2. reported' \in SUBSET Jobs /\ claimed' \in SUBSET Jobs
      BY <1>7 DEF Wait, TypeOK
    <2> QED
      BY <1>7, <1>b, <2>1, <2>2 DEF Wait, TypeOK, WaitRecord
  <1>8. ASSUME NEW w \in Waiters, Abort(w) PROVE TypeOK'
    <2>0. wait \in [Waiters -> WaitRecord]
      BY DEF TypeOK, WaitRecord
    <2>a. [wait[w] EXCEPT !.at = "rejected", !.counted = FALSE] \in WaitRecord
      BY <2>0 DEF WaitRecord
    <2>b. wait' = [wait EXCEPT ![w] = [wait[w] EXCEPT !.at = "rejected", !.counted = FALSE]]
      BY <1>8, <2>0 DEF Abort
    <2>1. wait' \in [Waiters -> WaitRecord]
      BY <2>0, <2>a, <2>b
    <2> QED
      BY <1>8, <1>b, <2>1 DEF Abort, TypeOK, WaitRecord
  <1>9. ASSUME NEW w \in Waiters, Timeout(w) PROVE TypeOK'
    <2>1. wait' \in [Waiters -> WaitRecord]
      <3>1. wait \in [Waiters -> WaitRecord]
        BY DEF TypeOK, WaitRecord
      <3>2. [wait[w] EXCEPT !.at = "released"] \in WaitRecord
        BY <3>1 DEF WaitRecord
      <3> QED
        BY <1>9, <3>1, <3>2 DEF Timeout
    <2> QED
      BY <1>9, <1>b, <2>1 DEF Timeout, TypeOK, WaitRecord
  <1>10. ASSUME NEW w \in Waiters, Resume(w) PROVE TypeOK'
    <2>0. wait[w].job \in Jobs
      BY <1>10 DEF Resume, CallsAreCounted
    <2>1. wait' \in [Waiters -> WaitRecord]
      BY <1>10 DEF Resume, TypeOK, WaitRecord
    <2>2. reported' \in SUBSET Jobs /\ claimed' \in SUBSET Jobs
      BY <1>10, <2>0 DEF Resume, TypeOK
    <2> QED
      BY <1>10, <1>b, <2>1, <2>2 DEF Resume, TypeOK, WaitRecord
  <1>11. CASE Announce
    BY <1>11, <1>b DEF Announce, TypeOK, Live, Terminal
  <1>12. ASSUME NEW x \in Scopes, Dispose(x) PROVE TypeOK'
    <2>1. owned' \in [Scopes -> SUBSET Jobs] /\ left' \in SUBSET Jobs
      BY <1>12 DEF Dispose, TypeOK
    <2>2. phase' \in [Scopes -> {"live", "cancelling", "awaiting", "gone"}]
      BY <1>12 DEF Dispose, TypeOK
    <2> QED
      BY <1>12, <1>b, <2>1, <2>2 DEF Dispose, TypeOK
  <1>13. ASSUME NEW x \in Scopes, Cancelled(x) PROVE TypeOK'
    BY <1>13, <1>b DEF Cancelled, TypeOK, Live, Terminal
  <1>14. ASSUME NEW x \in Scopes, Drop(x) PROVE TypeOK'
    <2>1. store' \in SUBSET Jobs
      BY <1>14 DEF Drop, TypeOK
    <2>2. phase' \in [Scopes -> {"live", "cancelling", "awaiting", "gone"}]
      BY <1>14 DEF Drop, TypeOK
    <2> QED
      BY <1>14, <1>b, <2>1, <2>2 DEF Drop, TypeOK
  <1>15. CASE UNCHANGED vars
    BY <1>15, <1>b DEF vars, TypeOK
  <1> QED
    BY <1>1, <1>2, <1>3, <1>4, <1>5, <1>6, <1>7, <1>8, <1>9, <1>10,
       <1>11, <1>12, <1>13, <1>14, <1>15 DEF Next
---------------------------------------------------------------------------
(* The parts of the invariant, one by one.                                 *)

(* Only live work is in the store, and only what ended is noticed.            *)
LEMMA RecordedStep ==
  ASSUME IInv, [Next]_vars
  PROVE  Recorded'
  <1>1. ASSUME NEW j \in Jobs, NEW o \in Owners \cup {Unowned}, Start(j, o) PROVE Recorded'
    BY <1>1, StatusFacts DEF Start, IInv, TypeOK, Recorded, IsTerminal
  <1>2. ASSUME NEW j \in Jobs, Read(j) PROVE Recorded'
    BY <1>2, StatusFacts DEF Read, IInv, TypeOK, Recorded, IsTerminal
  <1>3. ASSUME NEW j \in Jobs, Kill(j) PROVE Recorded'
    BY <1>3, StatusFacts DEF Kill, IInv, TypeOK, Recorded, IsTerminal
  <1>4. ASSUME NEW j \in Jobs, Finish(j) PROVE Recorded'
    BY <1>4, StatusFacts DEF Finish, IInv, TypeOK, Recorded, IsTerminal
  <1>5. ASSUME NEW j \in Jobs, Settle(j) PROVE Recorded'
    <2>1. CASE IsTerminal(j)
      BY <1>5, <2>1, StatusFacts DEF Settle, IInv, TypeOK, Recorded, IsTerminal
    <2>2. CASE ~IsTerminal(j)
      <3> PICK outcome \in Terminal : Commit(j, outcome, reported)
        BY <1>5, <2>2 DEF Settle
      <3>1. /\ status' = [status EXCEPT ![j] = outcome] /\ announcing' = j
            /\ reported \subseteq reported' /\ reported' \subseteq reported \cup {j}
        BY DEF Commit
      <3> QED
        BY <1>5, <3>1, StatusFacts DEF Settle, Quiet, IInv, TypeOK, Recorded, IsTerminal
    <2> QED
      BY <2>1, <2>2
  <1>6. ASSUME NEW j \in Jobs, Cancel(j) PROVE Recorded'
    <2>0. j \in store /\ announcing = NoJob
      BY <1>6 DEF Cancel, IInv, DisposalsAreWhole, LeftIsKnown, OwnersAreWhole,
         ServiceIsWhole
    <2>1. CASE ~Commit(j, "failed", reported \cup {j})
      BY <1>6, <2>0, <2>1, StatusFacts DEF Cancel, IInv, TypeOK, Recorded, IsTerminal
    <2>2. CASE ~IsTerminal(j) /\ Commit(j, "failed", reported \cup {j})
      <3>1. /\ status' = [status EXCEPT ![j] = "failed"] /\ announcing' = j
            /\ reported' = reported \cup {j}
        BY <2>2 DEF Commit
      <3> QED
        BY <1>6, <2>0, <2>2, <3>1, StatusFacts DEF Cancel, IInv, TypeOK,
           Recorded, IsTerminal
    <2>3. CASE IsTerminal(j)
      BY <1>6, <2>0, <2>3, StatusFacts DEF Cancel, IInv, TypeOK, Recorded, IsTerminal
    <2> QED
      BY <2>1, <2>2, <2>3
  <1>7. ASSUME NEW w \in Waiters, NEW j \in Jobs, Wait(w, j) PROVE Recorded'
    BY <1>7, StatusFacts DEF Wait, IInv, TypeOK, Recorded, IsTerminal
  <1>8. ASSUME NEW w \in Waiters, Abort(w) PROVE Recorded'
    BY <1>8, StatusFacts DEF Abort, IInv, TypeOK, Recorded, IsTerminal
  <1>9. ASSUME NEW w \in Waiters, Timeout(w) PROVE Recorded'
    BY <1>9, StatusFacts DEF Timeout, IInv, TypeOK, Recorded, IsTerminal
  <1>10. ASSUME NEW w \in Waiters, Resume(w) PROVE Recorded'
    BY <1>10, StatusFacts DEF Resume, IInv, TypeOK, Recorded, IsTerminal
  <1>11. CASE Announce
    BY <1>11, StatusFacts DEF Announce, IInv, TypeOK, Recorded, IsTerminal
  <1>12. ASSUME NEW x \in Scopes, Dispose(x) PROVE Recorded'
    BY <1>12, StatusFacts DEF Dispose, IInv, TypeOK, Recorded, IsTerminal
  <1>13. ASSUME NEW x \in Scopes, Cancelled(x) PROVE Recorded'
    BY <1>13, StatusFacts DEF Cancelled, IInv, TypeOK, Recorded, IsTerminal
  <1>14. ASSUME NEW x \in Scopes, Drop(x) PROVE Recorded'
    <2>1. store' \subseteq store /\ UNCHANGED <<status, done, noticed, announcing, reported, claimed>>
      BY <1>14 DEF Drop
    <2>2. ASSUME NEW j \in Jobs, status[j] \in Live PROVE j \in store'
      <3>1. j \in store /\ ~IsTerminal(j)
        BY <2>2, StatusFacts DEF IInv, Recorded, IsTerminal
      <3>2. x # Service => x \in Owners
        BY ScopeFacts
      <3>3. j \notin owned[x]
        BY <1>14, <3>1 DEF Drop
      <3>4. CASE x = Service
        BY <1>14, <3>1, <3>3, <3>4 DEF Drop, IInv, DisposalsAreWhole,
           LeftIsKnown, OwnersAreWhole, ServiceIsWhole
      <3>5. CASE x # Service
        BY <1>14, <3>1, <3>3, <3>5 DEF Drop
      <3> QED
        BY <3>4, <3>5
    <2> QED
      BY <2>1, <2>2 DEF IInv, Recorded, IsTerminal
  <1>15. CASE UNCHANGED vars
    BY <1>15, StatusFacts DEF vars, IInv, TypeOK, Recorded, IsTerminal
  <1> QED
    BY <1>1, <1>2, <1>3, <1>4, <1>5, <1>6, <1>7, <1>8, <1>9, <1>10,
       <1>11, <1>12, <1>13, <1>14, <1>15 DEF Next

LEMMA CommitAnnounces ==
  ASSUME NEW j \in Jobs, NEW outcome, NEW told, Commit(j, outcome, told)
  PROVE  announcing' # NoJob
  BY StatusFacts DEF Commit

(* A settlement resolves the calls that wait for it, and keeps silent for  *)
(* them.                                                                   *)
LEMMA CommitCalls ==
  ASSUME TypeOK, Recorded, CallsAreCounted, announcing = NoJob, noticed' = noticed,
         NEW j \in Jobs, ~IsTerminal(j), NEW outcome \in Terminal, NEW told,
         Commit(j, outcome, told)
  PROVE  CallsAreCounted'
  <1>1. \A w \in Waiters :
          /\ wait'[w].job = wait[w].job /\ wait'[w].counted = wait[w].counted
          /\ wait[w].job = j /\ wait[w].at = "waiting" => wait'[w].at = "released"
          /\ ~(wait[w].job = j /\ wait[w].at = "waiting") => wait'[w].at = wait[w].at
    BY CommitWaits
  <1>2. \A k \in Jobs : IF k = j THEN IsTerminal(k)' ELSE IsTerminal(k)' <=> IsTerminal(k)
    BY DEF Commit, TypeOK, IsTerminal
  <1>3. announcing' = j /\ j \notin noticed
    BY DEF Commit, Recorded
  <1>4. \A w \in Waiters : wait[w].job = j /\ wait[w].counted => silent'
    BY DEF Commit, Counted
  <1> SUFFICES ASSUME NEW w \in Waiters
      PROVE  /\ wait'[w].counted <=> wait'[w].at \in {"waiting", "released"}
             /\ wait'[w].at # "idle" => wait'[w].job \in Jobs
             /\ wait'[w].at = "waiting" => ~IsTerminal(wait[w].job)'
             /\ wait'[w].counted => wait'[w].job \notin noticed' /\ (announcing' = wait'[w].job => silent')
             /\ wait'[w].at = "answered" => /\ IsTerminal(wait[w].job)' /\ announcing' # wait'[w].job
                                            /\ wait'[w].job \notin noticed'
    BY DEF CallsAreCounted
  <1>5. /\ wait[w].counted <=> wait[w].at \in {"waiting", "released"}
        /\ wait[w].at # "idle" => wait[w].job \in Jobs
        /\ wait[w].at = "waiting" => ~IsTerminal(wait[w].job)
        /\ wait[w].counted => wait[w].job \notin noticed
        /\ wait[w].at = "answered" => IsTerminal(wait[w].job) /\ wait[w].job \notin noticed
    BY DEF CallsAreCounted
  <1>6. wait[w].at \in {"waiting", "answered"} => wait[w].job \in Jobs
    BY <1>5
  <1>7. wait'[w].job = wait[w].job
    BY <1>1
  <1>8. wait'[w].at = "waiting" => ~IsTerminal(wait[w].job)'
    BY <1>1, <1>2, <1>5, <1>6, <1>7
  <1>9. wait'[w].at = "answered" => IsTerminal(wait[w].job)' /\ wait[w].job # j
    BY <1>1, <1>2, <1>5, <1>6, <1>7
  <1> QED
    BY <1>1, <1>3, <1>4, <1>5, <1>7, <1>8, <1>9

(* Calls are counted while they wait, and hear an end once.                   *)
LEMMA CallsStep ==
  ASSUME IInv, [Next]_vars
  PROVE  CallsAreCounted'
  <1>1. ASSUME NEW j \in Jobs, NEW o \in Owners \cup {Unowned}, Start(j, o) PROVE CallsAreCounted'
    BY <1>1, StatusFacts DEF Start, IInv, TypeOK, Recorded, CallsAreCounted, IsTerminal
  <1>2. ASSUME NEW j \in Jobs, Read(j) PROVE CallsAreCounted'
    BY <1>2, StatusFacts DEF Read, IInv, TypeOK, Recorded, CallsAreCounted, IsTerminal
  <1>3. ASSUME NEW j \in Jobs, Kill(j) PROVE CallsAreCounted'
    BY <1>3, StatusFacts DEF Kill, IInv, TypeOK, Recorded, CallsAreCounted, IsTerminal
  <1>4. ASSUME NEW j \in Jobs, Finish(j) PROVE CallsAreCounted'
    BY <1>4, StatusFacts DEF Finish, IInv, TypeOK, Recorded, CallsAreCounted, IsTerminal
  <1>5. ASSUME NEW j \in Jobs, Settle(j) PROVE CallsAreCounted'
    <2>1. CASE IsTerminal(j)
      BY <1>5, <2>1 DEF Settle, IInv, CallsAreCounted, IsTerminal
    <2>2. CASE ~IsTerminal(j)
      <3> PICK outcome \in Terminal : Commit(j, outcome, reported)
        BY <1>5, <2>2 DEF Settle
      <3>1. noticed' = noticed /\ announcing = NoJob
        BY <1>5 DEF Settle, Quiet
      <3> QED
        BY <2>2, <3>1, CommitCalls DEF IInv
    <2> QED
      BY <2>1, <2>2
  <1>6. ASSUME NEW j \in Jobs, Cancel(j) PROVE CallsAreCounted'
    <2>0. noticed' = noticed /\ announcing = NoJob
      BY <1>6 DEF Cancel
    <2>1. CASE UNCHANGED wait /\ UNCHANGED announcing
      <3>1. \A k \in Jobs : IsTerminal(k)' <=> IsTerminal(k)
        BY <1>6, <2>1, StatusFacts, CommitAnnounces DEF Cancel, IInv, TypeOK, IsTerminal
      <3> QED
        BY <2>0, <2>1, <3>1, StatusFacts DEF IInv, CallsAreCounted
    <2>2. CASE ~IsTerminal(j) /\ Commit(j, "failed", reported \cup {j})
      BY <2>0, <2>2, StatusFacts, CommitCalls DEF IInv
    <2> QED
      BY <1>6, <2>1, <2>2 DEF Cancel
  <1>7. ASSUME NEW w \in Waiters, NEW j \in Jobs, Wait(w, j) PROVE CallsAreCounted'
    <2>1. j \notin noticed \/ IsTerminal(j)
      BY DEF IInv, Recorded
    <2>2. \A v \in Waiters : v # w => wait'[v] = wait[v]
      BY <1>7 DEF Wait, IInv, TypeOK
    <2>3. IF IsTerminal(j) THEN wait'[w] = [at |-> "expired", job |-> j, counted |-> FALSE]
          ELSE wait'[w] = [at |-> "waiting", job |-> j, counted |-> TRUE]
      BY <1>7 DEF Wait, IInv, TypeOK
    <2>4. announcing = j => IsTerminal(j)
      BY DEF IInv, Recorded
    <2> QED
      BY <1>7, <2>1, <2>2, <2>3, <2>4 DEF Wait, IInv, CallsAreCounted, IsTerminal
  <1>8. ASSUME NEW w \in Waiters, Abort(w) PROVE CallsAreCounted'
    <2>1. /\ wait[w].at = "waiting" /\ wait'[w].at = "rejected"
          /\ ~wait'[w].counted /\ wait'[w].job = wait[w].job
          /\ \A v \in Waiters : v # w => wait'[v] = wait[v]
      BY <1>8, WaitStep DEF Abort, IInv
    <2>2. UNCHANGED <<status, announcing, noticed, silent>>
      BY <1>8 DEF Abort
    <2>3. \A k : IsTerminal(k)' <=> IsTerminal(k)
      BY <2>2 DEF IsTerminal
    <2>4. CallsAreCounted /\ wait[w].job \in Jobs
      BY <2>1 DEF IInv, CallsAreCounted
    <2>5. announcing' = announcing /\ noticed' = noticed /\ (silent' <=> silent)
      BY <2>2
    <2> QED
      BY <2>1, <2>3, <2>4, <2>5 DEF CallsAreCounted
  <1>9. ASSUME NEW w \in Waiters, Timeout(w) PROVE CallsAreCounted'
    <2>1. /\ wait'[w].at = "released" /\ wait'[w].counted = wait[w].counted /\ wait'[w].job = wait[w].job
          /\ \A v \in Waiters : v # w => wait'[v] = wait[v]
      BY <1>9, WaitRelease DEF Timeout, IInv
    <2> QED
      BY <1>9, <2>1 DEF Timeout, IInv, CallsAreCounted, IsTerminal
  <1>10. ASSUME NEW w \in Waiters, Resume(w) PROVE CallsAreCounted'
    <2>1. /\ wait'[w].at = IF IsTerminal(wait[w].job) THEN "answered" ELSE "expired"
          /\ ~wait'[w].counted /\ wait'[w].job = wait[w].job
          /\ \A v \in Waiters : v # w => wait'[v] = wait[v]
      <3>1. ASSUME IsTerminal(wait[w].job)
            PROVE  wait' = [wait EXCEPT ![w].at = "answered", ![w].counted = FALSE]
        BY <1>10, <3>1 DEF Resume
      <3>2. ASSUME ~IsTerminal(wait[w].job)
            PROVE  wait' = [wait EXCEPT ![w].at = "expired", ![w].counted = FALSE]
        BY <1>10, <3>2 DEF Resume
      <3>3. TypeOK
        BY DEF IInv
      <3>4. CASE IsTerminal(wait[w].job)
        <4>1. wait' = [wait EXCEPT ![w].at = "answered", ![w].counted = FALSE]
          BY <3>1, <3>4
        <4> QED
          BY <3>3, <3>4, <4>1 DEF TypeOK
      <3>5. CASE ~IsTerminal(wait[w].job)
        <4>1. wait' = [wait EXCEPT ![w].at = "expired", ![w].counted = FALSE]
          BY <3>2, <3>5
        <4> QED
          BY <3>3, <3>5, <4>1 DEF TypeOK
      <3> QED
        BY <3>4, <3>5
    <2>2. announcing = NoJob /\ wait[w].job \in Jobs
      BY <1>10 DEF Resume, Quiet, IInv, CallsAreCounted
    <2> QED
      BY <1>10, <2>1, <2>2, StatusFacts DEF Resume, IInv, CallsAreCounted, IsTerminal
  <1>11. CASE Announce
    BY <1>11, StatusFacts DEF Announce, IInv, TypeOK, Recorded, CallsAreCounted, IsTerminal
  <1>12. ASSUME NEW x \in Scopes, Dispose(x) PROVE CallsAreCounted'
    BY <1>12, StatusFacts DEF Dispose, IInv, TypeOK, Recorded, CallsAreCounted, IsTerminal
  <1>13. ASSUME NEW x \in Scopes, Cancelled(x) PROVE CallsAreCounted'
    BY <1>13, StatusFacts DEF Cancelled, IInv, TypeOK, Recorded, CallsAreCounted, IsTerminal
  <1>14. ASSUME NEW x \in Scopes, Drop(x) PROVE CallsAreCounted'
    BY <1>14, StatusFacts DEF Drop, IInv, TypeOK, Recorded, CallsAreCounted, IsTerminal
  <1>15. CASE UNCHANGED vars
    BY <1>15, StatusFacts DEF vars, IInv, TypeOK, Recorded, CallsAreCounted, IsTerminal
  <1> QED
    BY <1>1, <1>2, <1>3, <1>4, <1>5, <1>6, <1>7, <1>8, <1>9, <1>10,
       <1>11, <1>12, <1>13, <1>14, <1>15 DEF Next

(* A settlement keeps silent when its job was told, or a call waits for it.*)
LEMMA CommitSilence ==
  ASSUME TypeOK, CallsAreCounted, NEW j \in Jobs, NEW outcome, NEW told, Commit(j, outcome, told)
  PROVE  /\ announcing' = j
         /\ j \in told => silent'
         /\ silent' => \/ j \in told
                       \/ \E w \in Waiters : wait'[w].at = "released" /\ wait'[w].job = j
  <1>1. announcing' = j /\ (silent' <=> j \in told \/ Counted(j) # {})
    BY DEF Commit
  <1>2. ASSUME NEW w \in Waiters, wait[w].job = j, wait[w].counted
        PROVE  wait'[w].at = "released" /\ wait'[w].job = j
    <2>1. wait[w].at \in {"waiting", "released"}
      BY <1>2 DEF CallsAreCounted
    <2> QED
      BY <1>2, <2>1, CommitWaits
  <1> QED
    BY <1>1, <1>2 DEF Counted

(* A silent settlement is told otherwise, and a teardown is silent.           *)
LEMMA SilenceStep ==
  ASSUME IInv, [Next]_vars
  PROVE  SilenceIsCovered'
  <1>1. ASSUME NEW j \in Jobs, NEW o \in Owners \cup {Unowned}, Start(j, o) PROVE SilenceIsCovered'
    <2>1. announcing # NoJob => announcing \in Jobs /\ announcing # j
      BY <1>1, StatusFacts DEF Start, IInv, TypeOK, Recorded, IsTerminal
    <2>2. announcing # NoJob => owner'[announcing] = owner[announcing]
      BY <1>1, <2>1 DEF Start, IInv, TypeOK
    <2> QED
      BY <1>1, <2>2 DEF Start, IInv, SilenceIsCovered, IsLive
  <1>2. ASSUME NEW j \in Jobs, Read(j) PROVE SilenceIsCovered'
    BY <1>2, StatusFacts DEF Read, IInv, TypeOK, SilenceIsCovered, IsLive
  <1>3. ASSUME NEW j \in Jobs, Kill(j) PROVE SilenceIsCovered'
    BY <1>3, StatusFacts DEF Kill, IInv, TypeOK, SilenceIsCovered, IsLive
  <1>4. ASSUME NEW j \in Jobs, Finish(j) PROVE SilenceIsCovered'
    BY <1>4, StatusFacts DEF Finish, IInv, TypeOK, SilenceIsCovered, IsLive
  <1>5. ASSUME NEW j \in Jobs, Settle(j) PROVE SilenceIsCovered'
    <2>0. announcing = NoJob /\ (\A x \in Scopes : phase[x] # "cancelling")
          /\ UNCHANGED <<owner, phase, claimed>>
      BY <1>5 DEF Settle, Quiet
    <2>1. CASE IsTerminal(j)
      BY <1>5, <2>0, <2>1 DEF Settle, SilenceIsCovered
    <2>2. CASE ~IsTerminal(j)
      <3> PICK outcome \in Terminal : Commit(j, outcome, reported)
        BY <1>5, <2>2 DEF Settle
      <3>1. left = {} /\ status[j] \in Live
        <4>1. done[j] # "pending" /\ status[j] \in {"absent"} \cup Live \cup Terminal
          BY <1>5 DEF Settle, IInv, TypeOK
        <4> QED
          BY <2>0, <2>2, <4>1 DEF IInv, DisposalsAreWhole, LeftIsKnown,
             OwnersAreWhole, ServiceIsWhole, Recorded, IsTerminal
      <3>2. ~IsLive(owner[j]) => j \in reported
        BY <3>1 DEF IInv, DisposalsAreWhole, LeftIsKnown, OwnersAreWhole,
           ServiceIsWhole, IsLive
      <3>3. phase[Service] # "live" => j \in claimed
        BY <3>1 DEF IInv, DisposalsAreWhole, LeftIsKnown, OwnersAreWhole, ServiceIsWhole
      <3>4. j \in reported => j \in claimed
        BY <2>2 DEF IInv, Recorded
      <3>5. /\ announcing' = j
            /\ j \in reported => silent'
            /\ silent' => \/ j \in reported
                          \/ \E w \in Waiters : wait'[w].at = "released" /\ wait'[w].job = j
        BY CommitSilence DEF IInv
      <3> QED
        BY <2>0, <3>2, <3>3, <3>4, <3>5 DEF SilenceIsCovered, IsLive
    <2> QED
      BY <2>1, <2>2
  <1>6. ASSUME NEW j \in Jobs, Cancel(j) PROVE SilenceIsCovered'
    <2>0. announcing = NoJob /\ UNCHANGED <<owner, phase>>
      BY <1>6 DEF Cancel
    <2>1. CASE UNCHANGED announcing
      BY <2>0, <2>1 DEF SilenceIsCovered
    <2>2. CASE Commit(j, "failed", reported \cup {j}) /\ claimed' = claimed \cup {j}
      <3>1. announcing' = j /\ silent' /\ j \in claimed'
        BY <2>2, CommitSilence DEF IInv
      <3> QED
        BY <3>1 DEF SilenceIsCovered
    <2> QED
      BY <1>6, <2>1, <2>2 DEF Cancel
  <1>7. ASSUME NEW w \in Waiters, NEW j \in Jobs, Wait(w, j) PROVE SilenceIsCovered'
    <2>1. wait[w].at = "idle" /\ \A v \in Waiters : v # w => wait'[v] = wait[v]
      BY <1>7 DEF Wait, IInv, TypeOK
    <2>2. UNCHANGED <<owner, phase, announcing, silent>> /\ claimed \subseteq claimed'
      BY <1>7 DEF Wait
    <2> QED
      BY <2>1, <2>2 DEF IInv, SilenceIsCovered, IsLive
  <1>8. ASSUME NEW w \in Waiters, Abort(w) PROVE SilenceIsCovered'
    <2>1. /\ wait[w].at = "waiting" /\ wait'[w].at = "rejected"
          /\ \A v \in Waiters : v # w => wait'[v] = wait[v]
      BY <1>8, WaitStep DEF Abort, IInv
    <2>2. UNCHANGED <<owner, phase, announcing, silent, claimed>>
      BY <1>8 DEF Abort
    <2> QED
      BY <2>1, <2>2 DEF IInv, SilenceIsCovered, IsLive
  <1>9. ASSUME NEW w \in Waiters, Timeout(w) PROVE SilenceIsCovered'
    <2>1. announcing = NoJob /\ announcing' = NoJob
      BY <1>9 DEF Timeout, Quiet
    <2> QED
      BY <2>1 DEF SilenceIsCovered
  <1>10. ASSUME NEW w \in Waiters, Resume(w) PROVE SilenceIsCovered'
    <2>1. announcing = NoJob /\ announcing' = NoJob
      BY <1>10 DEF Resume, Quiet
    <2> QED
      BY <2>1 DEF SilenceIsCovered
  <1>11. CASE Announce
    BY <1>11, StatusFacts DEF Announce, IInv, TypeOK, SilenceIsCovered, IsLive
  <1>12. ASSUME NEW x \in Scopes, Dispose(x) PROVE SilenceIsCovered'
    <2>1. announcing = NoJob /\ announcing' = NoJob
      BY <1>12 DEF Dispose, Quiet
    <2> QED
      BY <2>1 DEF SilenceIsCovered
  <1>13. ASSUME NEW x \in Scopes, Cancelled(x) PROVE SilenceIsCovered'
    <2>1. announcing = NoJob /\ announcing' = NoJob
      BY <1>13 DEF Cancelled
    <2> QED
      BY <2>1 DEF SilenceIsCovered
  <1>14. ASSUME NEW x \in Scopes, Drop(x) PROVE SilenceIsCovered'
    <2>1. announcing = NoJob /\ announcing' = NoJob
      BY <1>14 DEF Drop, Quiet
    <2> QED
      BY <2>1 DEF SilenceIsCovered
  <1>15. CASE UNCHANGED vars
    BY <1>15, StatusFacts DEF vars, IInv, TypeOK, SilenceIsCovered, IsLive
  <1> QED
    BY <1>1, <1>2, <1>3, <1>4, <1>5, <1>6, <1>7, <1>8, <1>9, <1>10,
       <1>11, <1>12, <1>13, <1>14, <1>15 DEF Next

LEMMA CommitOwed ==
  ASSUME TypeOK, CompletionIsOwed, announcing = NoJob, noticed' = noticed, claimed \subseteq claimed',
         owner' = owner,
         NEW j \in Jobs, NEW outcome, NEW told, Commit(j, outcome, told)
  PROVE  CompletionIsOwed'
  <1>1. announcing' = j /\ \A k \in Jobs : k # j => status'[k] = status[k]
    BY DEF Commit, TypeOK
  <1>2. \A w \in Waiters : wait[w].at = "released" => wait'[w].at = "released" /\ wait'[w].job = wait[w].job
    BY CommitWaits
  <1>3. \A k \in Jobs : announcing # k
    BY StatusFacts
  <1> QED
    BY <1>1, <1>2, <1>3 DEF CompletionIsOwed, IsTerminal

(* An end that was not told is still to be told.                              *)
LEMMA OwedStep ==
  ASSUME IInv, [Next]_vars
  PROVE  CompletionIsOwed'
  <1>1. ASSUME NEW j \in Jobs, NEW o \in Owners \cup {Unowned}, Start(j, o) PROVE CompletionIsOwed'
    BY <1>1, StatusFacts DEF Start, IInv, TypeOK, CompletionIsOwed, IsTerminal
  <1>2. ASSUME NEW j \in Jobs, Read(j) PROVE CompletionIsOwed'
    BY <1>2, StatusFacts DEF Read, IInv, TypeOK, CompletionIsOwed, IsTerminal
  <1>3. ASSUME NEW j \in Jobs, Kill(j) PROVE CompletionIsOwed'
    BY <1>3, StatusFacts DEF Kill, IInv, TypeOK, CompletionIsOwed, IsTerminal
  <1>4. ASSUME NEW j \in Jobs, Finish(j) PROVE CompletionIsOwed'
    BY <1>4, StatusFacts DEF Finish, IInv, TypeOK, CompletionIsOwed, IsTerminal
  <1>5. ASSUME NEW j \in Jobs, Settle(j) PROVE CompletionIsOwed'
    <2>1. CASE IsTerminal(j)
      BY <1>5, <2>1 DEF Settle, IInv, CompletionIsOwed, IsTerminal
    <2>2. CASE ~IsTerminal(j)
      <3> PICK outcome \in Terminal : Commit(j, outcome, reported)
        BY <1>5, <2>2 DEF Settle
      <3>1. noticed' = noticed /\ announcing = NoJob /\ claimed' = claimed /\ owner' = owner
        BY <1>5 DEF Settle, Quiet
      <3> QED
        BY <3>1, CommitOwed DEF IInv
    <2> QED
      BY <2>1, <2>2
  <1>6. ASSUME NEW j \in Jobs, Cancel(j) PROVE CompletionIsOwed'
    <2>0. noticed' = noticed /\ announcing = NoJob /\ claimed \subseteq claimed' /\ owner' = owner
      BY <1>6 DEF Cancel
    <2>1. CASE UNCHANGED wait /\ UNCHANGED announcing
      <3>1. \A k \in Jobs : IsTerminal(k)' <=> IsTerminal(k)
        BY <1>6, <2>1, StatusFacts, CommitAnnounces DEF Cancel, IInv, TypeOK, IsTerminal
      <3> QED
        BY <2>0, <2>1, <3>1, StatusFacts DEF IInv, CompletionIsOwed
    <2>2. CASE ~IsTerminal(j) /\ Commit(j, "failed", reported \cup {j})
      BY <2>0, <2>2, StatusFacts, CommitOwed DEF IInv
    <2> QED
      BY <1>6, <2>1, <2>2 DEF Cancel
  <1>7. ASSUME NEW w \in Waiters, NEW j \in Jobs, Wait(w, j) PROVE CompletionIsOwed'
    <2>1. wait[w].at = "idle" /\ \A v \in Waiters : v # w => wait'[v] = wait[v]
      BY <1>7 DEF Wait, IInv, TypeOK
    <2>2. UNCHANGED <<status, owner, announcing, noticed>> /\ claimed \subseteq claimed'
      BY <1>7 DEF Wait
    <2> QED
      BY <2>1, <2>2 DEF IInv, CompletionIsOwed, IsTerminal
  <1>8. ASSUME NEW w \in Waiters, Abort(w) PROVE CompletionIsOwed'
    <2>1. /\ wait[w].at = "waiting" /\ wait'[w].at = "rejected"
          /\ \A v \in Waiters : v # w => wait'[v] = wait[v]
      BY <1>8, WaitStep DEF Abort, IInv
    <2>2. UNCHANGED <<status, owner, announcing, noticed, claimed>>
      BY <1>8 DEF Abort
    <2> QED
      BY <2>1, <2>2 DEF IInv, CompletionIsOwed, IsTerminal
  <1>9. ASSUME NEW w \in Waiters, Timeout(w) PROVE CompletionIsOwed'
    <2>1. /\ wait[w].at = "waiting" /\ \A v \in Waiters : v # w => wait'[v] = wait[v]
      BY <1>9, WaitRelease DEF Timeout, IInv
    <2>2. UNCHANGED <<status, owner, announcing, noticed, claimed>>
      BY <1>9 DEF Timeout
    <2> QED
      BY <2>1, <2>2 DEF IInv, CompletionIsOwed, IsTerminal
  <1>10. ASSUME NEW w \in Waiters, Resume(w) PROVE CompletionIsOwed'
    <2>1. \A v \in Waiters : v # w => wait'[v] = wait[v]
      BY <1>10 DEF Resume, IInv, TypeOK
    <2>2. UNCHANGED <<status, owner, announcing, noticed>> /\ claimed \subseteq claimed'
      BY <1>10 DEF Resume
    <2>3. IsTerminal(wait[w].job) => wait[w].job \in claimed'
      BY <1>10 DEF Resume
    <2> QED
      BY <2>1, <2>2, <2>3 DEF IInv, CompletionIsOwed, IsTerminal
  <1>11. CASE Announce
    <2>1. announcing \in Jobs /\ announcing' = NoJob /\ noticed \subseteq noticed'
          /\ UNCHANGED <<status, owner, wait, claimed>>
      BY <1>11 DEF Announce, IInv, TypeOK
    <2>2. \/ announcing \in noticed' \cup claimed
          \/ owner[announcing] = Unowned
          \/ \E w \in Waiters : wait[w].at = "released" /\ wait[w].job = announcing
      BY <1>11 DEF Announce, IInv, SilenceIsCovered
    <2> QED
      BY <2>1, <2>2 DEF IInv, CompletionIsOwed, IsTerminal
  <1>12. ASSUME NEW x \in Scopes, Dispose(x) PROVE CompletionIsOwed'
    BY <1>12, StatusFacts DEF Dispose, IInv, TypeOK, CompletionIsOwed, IsTerminal
  <1>13. ASSUME NEW x \in Scopes, Cancelled(x) PROVE CompletionIsOwed'
    BY <1>13, StatusFacts DEF Cancelled, IInv, TypeOK, CompletionIsOwed, IsTerminal
  <1>14. ASSUME NEW x \in Scopes, Drop(x) PROVE CompletionIsOwed'
    BY <1>14, StatusFacts DEF Drop, IInv, TypeOK, CompletionIsOwed, IsTerminal
  <1>15. CASE UNCHANGED vars
    BY <1>15, StatusFacts DEF vars, IInv, TypeOK, CompletionIsOwed, IsTerminal
  <1> QED
    BY <1>1, <1>2, <1>3, <1>4, <1>5, <1>6, <1>7, <1>8, <1>9, <1>10,
       <1>11, <1>12, <1>13, <1>14, <1>15 DEF Next

(* What ends a job, or asks it to end, starts none and flags what it asks. *)
LEMMA SettleFlags ==
  ASSUME IInv, NEW j \in Jobs, Settle(j)
  PROVE  /\ \A k \in Jobs : status'[k] \in Live => status[k] \in Live
         /\ reported \subseteq reported'
         /\ UNCHANGED <<store, owner, phase, owned, left, claimed>>
  <1>1. CASE IsTerminal(j)
    BY <1>1 DEF Settle
  <1>2. CASE ~IsTerminal(j)
    <2> PICK outcome \in Terminal : Commit(j, outcome, reported)
      BY <1>2 DEF Settle
    <2> QED
      BY StatusFacts DEF Settle, Commit, IInv, TypeOK
  <1> QED
    BY <1>1, <1>2

LEMMA CancelFlags ==
  ASSUME IInv, NEW j \in Jobs, Cancel(j)
  PROVE  /\ \A k \in Jobs : status'[k] \in Live => status[k] \in Live
         /\ reported \subseteq reported' /\ claimed \subseteq claimed'
         /\ status[j] \in Live => j \in reported' /\ j \in claimed'
         /\ left' = left \ {j}
         /\ UNCHANGED <<store, owner, phase, owned>>
  <1>0. left' = left \ {j} /\ UNCHANGED <<store, owner, phase, owned>>
    BY DEF Cancel
  <1>1. CASE IsTerminal(j)
    BY <1>0, <1>1, StatusFacts DEF Cancel, IsTerminal
  <1>2. CASE ~IsTerminal(j)
    <2>1. status[j] \in Live
      BY <1>2 DEF Cancel, IInv, TypeOK, DisposalsAreWhole, LeftIsKnown, Recorded, IsTerminal
    <2>2. /\ reported' = reported \cup {j} \/ reported' = (reported \cup {j}) \cup {j}
          /\ claimed' = claimed \cup {j}
          /\ \E s : status' = [status EXCEPT ![j] = s]
      BY <1>2 DEF Cancel, Commit
    <2> QED
      BY <1>0, <2>1, <2>2 DEF IInv, TypeOK
  <1> QED
    BY <1>1, <1>2

(* The disposals of the owners and of the registry, scope by scope.        *)

(* Only a disposal leaves something to cancel, and it is in the store.         *)
LEMMA LeftStep ==
  ASSUME IInv, [Next]_vars
  PROVE  LeftIsKnown'
  <1>1. ASSUME NEW j \in Jobs, NEW o \in Owners \cup {Unowned}, Start(j, o) PROVE LeftIsKnown'
    BY <1>1, StatusFacts DEF Start, IInv, TypeOK, DisposalsAreWhole, LeftIsKnown,
       OwnersAreWhole, ServiceIsWhole
  <1>2. ASSUME NEW j \in Jobs, Read(j) PROVE LeftIsKnown'
    BY <1>2, StatusFacts DEF Read, IInv, TypeOK, DisposalsAreWhole, LeftIsKnown,
       OwnersAreWhole, ServiceIsWhole
  <1>3. ASSUME NEW j \in Jobs, Kill(j) PROVE LeftIsKnown'
    BY <1>3, StatusFacts DEF Kill, IInv, TypeOK, DisposalsAreWhole, LeftIsKnown,
       OwnersAreWhole, ServiceIsWhole
  <1>4. ASSUME NEW j \in Jobs, Finish(j) PROVE LeftIsKnown'
    BY <1>4, StatusFacts DEF Finish, IInv, TypeOK, DisposalsAreWhole, LeftIsKnown,
       OwnersAreWhole, ServiceIsWhole
  <1>5. ASSUME NEW j \in Jobs, Settle(j) PROVE LeftIsKnown'
    BY <1>5, StatusFacts DEF Settle, IInv, TypeOK, DisposalsAreWhole, LeftIsKnown,
       OwnersAreWhole, ServiceIsWhole
  <1>6. ASSUME NEW j \in Jobs, Cancel(j) PROVE LeftIsKnown'
    <2>1. left # {} /\ left' \subseteq left /\ phase' = phase /\ store' = store
      BY <1>6 DEF Cancel
    <2> QED
      BY <2>1 DEF IInv, DisposalsAreWhole, LeftIsKnown, OwnersAreWhole, ServiceIsWhole
  <1>7. ASSUME NEW w \in Waiters, NEW j \in Jobs, Wait(w, j) PROVE LeftIsKnown'
    BY <1>7, StatusFacts DEF Wait, IInv, TypeOK, DisposalsAreWhole, LeftIsKnown,
       OwnersAreWhole, ServiceIsWhole
  <1>8. ASSUME NEW w \in Waiters, Abort(w) PROVE LeftIsKnown'
    BY <1>8, StatusFacts DEF Abort, IInv, TypeOK, DisposalsAreWhole, LeftIsKnown,
       OwnersAreWhole, ServiceIsWhole
  <1>9. ASSUME NEW w \in Waiters, Timeout(w) PROVE LeftIsKnown'
    BY <1>9, StatusFacts DEF Timeout, IInv, TypeOK, DisposalsAreWhole, LeftIsKnown,
       OwnersAreWhole, ServiceIsWhole
  <1>10. ASSUME NEW w \in Waiters, Resume(w) PROVE LeftIsKnown'
    BY <1>10, StatusFacts DEF Resume, IInv, TypeOK, DisposalsAreWhole, LeftIsKnown,
       OwnersAreWhole, ServiceIsWhole
  <1>11. CASE Announce
    BY <1>11, StatusFacts DEF Announce, IInv, TypeOK, DisposalsAreWhole,
       LeftIsKnown, OwnersAreWhole, ServiceIsWhole
  <1>12. ASSUME NEW x \in Scopes, Dispose(x) PROVE LeftIsKnown'
    <2>1. phase'[x] = "cancelling" /\ left' \subseteq store /\ store' = store
      BY <1>12 DEF Dispose, IInv, TypeOK
    <2> QED
      BY <2>1 DEF LeftIsKnown
  <1>13. ASSUME NEW x \in Scopes, Cancelled(x) PROVE LeftIsKnown'
    BY <1>13 DEF Cancelled, LeftIsKnown
  <1>14. ASSUME NEW x \in Scopes, Drop(x) PROVE LeftIsKnown'
    <2>1. left = {}
      BY <1>14 DEF Drop, Quiet, IInv, DisposalsAreWhole, LeftIsKnown,
         OwnersAreWhole, ServiceIsWhole
    <2> QED
      BY <1>14, <2>1 DEF Drop, LeftIsKnown
  <1>15. CASE UNCHANGED vars
    BY <1>15, StatusFacts DEF vars, IInv, TypeOK, DisposalsAreWhole, LeftIsKnown,
       OwnersAreWhole, ServiceIsWhole
  <1> QED
    BY <1>1, <1>2, <1>3, <1>4, <1>5, <1>6, <1>7, <1>8, <1>9, <1>10,
       <1>11, <1>12, <1>13, <1>14, <1>15 DEF Next

(* No job of an owner that is over escapes the snapshot or its flag.          *)
LEMMA OwnersStep ==
  ASSUME IInv, [Next]_vars
  PROVE  OwnersAreWhole'
  <1>1. ASSUME NEW j \in Jobs, NEW o \in Owners \cup {Unowned}, Start(j, o) PROVE OwnersAreWhole'
    <2>1. /\ store' = store \cup {j} /\ status' = [status EXCEPT ![j] = "running"]
          /\ owner' = [owner EXCEPT ![j] = o] /\ IsLive(o)
          /\ UNCHANGED <<reported, phase, owned, left>>
      BY <1>1 DEF Start
    <2>2. \A p \in Owners : phase[p] # "live" => owner'[j] # p
      BY <2>1 DEF IsLive, IInv, TypeOK
    <2>3. \A k \in Jobs : k # j => owner'[k] = owner[k] /\ status'[k] = status[k]
      BY <2>1 DEF IInv, TypeOK
    <2> QED
      BY <2>1, <2>2, <2>3 DEF IInv, DisposalsAreWhole, OwnersAreWhole
  <1>2. ASSUME NEW j \in Jobs, Read(j) PROVE OwnersAreWhole'
    BY <1>2, StatusFacts DEF Read, IInv, TypeOK, DisposalsAreWhole, LeftIsKnown,
       OwnersAreWhole, ServiceIsWhole
  <1>3. ASSUME NEW j \in Jobs, Kill(j) PROVE OwnersAreWhole'
    BY <1>3, StatusFacts DEF Kill, IInv, TypeOK, DisposalsAreWhole, LeftIsKnown,
       OwnersAreWhole, ServiceIsWhole
  <1>4. ASSUME NEW j \in Jobs, Finish(j) PROVE OwnersAreWhole'
    BY <1>4, StatusFacts DEF Finish, IInv, TypeOK, DisposalsAreWhole, LeftIsKnown,
       OwnersAreWhole, ServiceIsWhole
  <1>5. ASSUME NEW j \in Jobs, Settle(j) PROVE OwnersAreWhole'
    BY <1>5, SettleFlags DEF IInv, DisposalsAreWhole, OwnersAreWhole
  <1>6. ASSUME NEW j \in Jobs, Cancel(j) PROVE OwnersAreWhole'
    BY <1>6, CancelFlags DEF IInv, DisposalsAreWhole, OwnersAreWhole
  <1>7. ASSUME NEW w \in Waiters, NEW j \in Jobs, Wait(w, j) PROVE OwnersAreWhole'
    BY <1>7, StatusFacts DEF Wait, IInv, TypeOK, DisposalsAreWhole, LeftIsKnown,
       OwnersAreWhole, ServiceIsWhole
  <1>8. ASSUME NEW w \in Waiters, Abort(w) PROVE OwnersAreWhole'
    BY <1>8, StatusFacts DEF Abort, IInv, TypeOK, DisposalsAreWhole, LeftIsKnown,
       OwnersAreWhole, ServiceIsWhole
  <1>9. ASSUME NEW w \in Waiters, Timeout(w) PROVE OwnersAreWhole'
    BY <1>9, StatusFacts DEF Timeout, IInv, TypeOK, DisposalsAreWhole, LeftIsKnown,
       OwnersAreWhole, ServiceIsWhole
  <1>10. ASSUME NEW w \in Waiters, Resume(w) PROVE OwnersAreWhole'
    BY <1>10, StatusFacts DEF Resume, IInv, TypeOK, DisposalsAreWhole, LeftIsKnown,
       OwnersAreWhole, ServiceIsWhole
  <1>11. CASE Announce
    BY <1>11, StatusFacts DEF Announce, IInv, TypeOK, DisposalsAreWhole,
       LeftIsKnown, OwnersAreWhole, ServiceIsWhole
  <1>12. ASSUME NEW x \in Scopes, Dispose(x) PROVE OwnersAreWhole'
    <2>1. left = {} /\ phase[x] = "live" /\ UNCHANGED <<store, status, owner, reported>>
      BY <1>12 DEF Dispose, Quiet, IInv, DisposalsAreWhole, LeftIsKnown
    <2>2. /\ phase' = [phase EXCEPT ![x] = "cancelling"]
          /\ owned' = [owned EXCEPT ![x] = left']
          /\ left' = IF x = Service THEN store ELSE {j \in store : owner[j] = x}
      BY <1>12 DEF Dispose
    <2>3. \A j \in Jobs : status[j] \in Live => j \in store
      BY DEF IInv, Recorded
    <2> SUFFICES ASSUME NEW o \in Owners, phase'[o] # "live", NEW j \in Jobs, owner[j] = o
        PROVE  /\ j \in store => phase'[o] # "gone" /\ j \in owned'[o]
               /\ status[j] \in Live => j \in reported \cup left'
      BY <2>1 DEF OwnersAreWhole
    <2>4. o \in Scopes /\ o # Service
      BY ScopeFacts, StatusFacts
    <2>5. CASE o = x
      BY <2>2, <2>3, <2>4, <2>5 DEF IInv, TypeOK
    <2>6. CASE o # x
      <3>1. phase'[o] = phase[o] /\ owned'[o] = owned[o]
        BY <2>2, <2>4, <2>6 DEF IInv, TypeOK
      <3> QED
        BY <2>1, <3>1 DEF IInv, DisposalsAreWhole, OwnersAreWhole
    <2> QED
      BY <2>5, <2>6
  <1>13. ASSUME NEW x \in Scopes, Cancelled(x) PROVE OwnersAreWhole'
    BY <1>13, StatusFacts DEF Cancelled, IInv, TypeOK, DisposalsAreWhole,
       LeftIsKnown, OwnersAreWhole, ServiceIsWhole
  <1>14. ASSUME NEW x \in Scopes, Drop(x) PROVE OwnersAreWhole'
    BY <1>14, StatusFacts DEF Drop, IInv, TypeOK, DisposalsAreWhole, LeftIsKnown,
       OwnersAreWhole, ServiceIsWhole
  <1>15. CASE UNCHANGED vars
    BY <1>15, StatusFacts DEF vars, IInv, TypeOK, DisposalsAreWhole, LeftIsKnown,
       OwnersAreWhole, ServiceIsWhole
  <1> QED
    BY <1>1, <1>2, <1>3, <1>4, <1>5, <1>6, <1>7, <1>8, <1>9, <1>10,
       <1>11, <1>12, <1>13, <1>14, <1>15 DEF Next

(* No job escapes the disposal of the registry or its claim.                  *)
LEMMA ServiceStep ==
  ASSUME IInv, [Next]_vars
  PROVE  ServiceIsWhole'
  <1>1. ASSUME NEW j \in Jobs, NEW o \in Owners \cup {Unowned}, Start(j, o) PROVE ServiceIsWhole'
    BY <1>1, StatusFacts DEF Start, IInv, TypeOK, DisposalsAreWhole, LeftIsKnown,
       OwnersAreWhole, ServiceIsWhole
  <1>2. ASSUME NEW j \in Jobs, Read(j) PROVE ServiceIsWhole'
    BY <1>2, StatusFacts DEF Read, IInv, TypeOK, DisposalsAreWhole, LeftIsKnown,
       OwnersAreWhole, ServiceIsWhole
  <1>3. ASSUME NEW j \in Jobs, Kill(j) PROVE ServiceIsWhole'
    BY <1>3, StatusFacts DEF Kill, IInv, TypeOK, DisposalsAreWhole, LeftIsKnown,
       OwnersAreWhole, ServiceIsWhole
  <1>4. ASSUME NEW j \in Jobs, Finish(j) PROVE ServiceIsWhole'
    BY <1>4, StatusFacts DEF Finish, IInv, TypeOK, DisposalsAreWhole, LeftIsKnown,
       OwnersAreWhole, ServiceIsWhole
  <1>5. ASSUME NEW j \in Jobs, Settle(j) PROVE ServiceIsWhole'
    BY <1>5, SettleFlags DEF IInv, DisposalsAreWhole, ServiceIsWhole
  <1>6. ASSUME NEW j \in Jobs, Cancel(j) PROVE ServiceIsWhole'
    BY <1>6, CancelFlags DEF IInv, DisposalsAreWhole, ServiceIsWhole
  <1>7. ASSUME NEW w \in Waiters, NEW j \in Jobs, Wait(w, j) PROVE ServiceIsWhole'
    BY <1>7, StatusFacts DEF Wait, IInv, TypeOK, DisposalsAreWhole, LeftIsKnown,
       OwnersAreWhole, ServiceIsWhole
  <1>8. ASSUME NEW w \in Waiters, Abort(w) PROVE ServiceIsWhole'
    BY <1>8, StatusFacts DEF Abort, IInv, TypeOK, DisposalsAreWhole, LeftIsKnown,
       OwnersAreWhole, ServiceIsWhole
  <1>9. ASSUME NEW w \in Waiters, Timeout(w) PROVE ServiceIsWhole'
    BY <1>9, StatusFacts DEF Timeout, IInv, TypeOK, DisposalsAreWhole, LeftIsKnown,
       OwnersAreWhole, ServiceIsWhole
  <1>10. ASSUME NEW w \in Waiters, Resume(w) PROVE ServiceIsWhole'
    BY <1>10, StatusFacts DEF Resume, IInv, TypeOK, DisposalsAreWhole, LeftIsKnown,
       OwnersAreWhole, ServiceIsWhole
  <1>11. CASE Announce
    BY <1>11, StatusFacts DEF Announce, IInv, TypeOK, DisposalsAreWhole,
       LeftIsKnown, OwnersAreWhole, ServiceIsWhole
  <1>12. ASSUME NEW x \in Scopes, Dispose(x) PROVE ServiceIsWhole'
    <2>1. left = {} /\ phase[x] = "live" /\ UNCHANGED <<store, status, claimed>>
      BY <1>12 DEF Dispose, Quiet, IInv, DisposalsAreWhole, LeftIsKnown
    <2>2. /\ phase' = [phase EXCEPT ![x] = "cancelling"]
          /\ owned' = [owned EXCEPT ![x] = left']
          /\ x = Service => left' = store
      BY <1>12 DEF Dispose
    <2>3. \A j \in Jobs : status[j] \in Live => j \in store
      BY DEF IInv, Recorded
    <2>4. CASE x = Service
      BY <2>1, <2>2, <2>3, <2>4 DEF IInv, TypeOK, ServiceIsWhole
    <2>5. CASE x # Service
      <3>1. phase'[Service] = phase[Service] /\ owned'[Service] = owned[Service]
        BY <2>2, <2>5, ScopeFacts DEF IInv, TypeOK
      <3> QED
        BY <2>1, <3>1 DEF IInv, DisposalsAreWhole, ServiceIsWhole
    <2> QED
      BY <2>4, <2>5
  <1>13. ASSUME NEW x \in Scopes, Cancelled(x) PROVE ServiceIsWhole'
    BY <1>13, StatusFacts DEF Cancelled, IInv, TypeOK, DisposalsAreWhole,
       LeftIsKnown, OwnersAreWhole, ServiceIsWhole
  <1>14. ASSUME NEW x \in Scopes, Drop(x) PROVE ServiceIsWhole'
    BY <1>14, StatusFacts DEF Drop, IInv, TypeOK, DisposalsAreWhole, LeftIsKnown,
       OwnersAreWhole, ServiceIsWhole
  <1>15. CASE UNCHANGED vars
    BY <1>15, StatusFacts DEF vars, IInv, TypeOK, DisposalsAreWhole, LeftIsKnown,
       OwnersAreWhole, ServiceIsWhole
  <1> QED
    BY <1>1, <1>2, <1>3, <1>4, <1>5, <1>6, <1>7, <1>8, <1>9, <1>10,
       <1>11, <1>12, <1>13, <1>14, <1>15 DEF Next
---------------------------------------------------------------------------
(* The invariant and what follows from it.                                 *)

(* No record is known at first, nothing is said and every scope is live.   *)
LEMMA InitInvariant == Init => IInv
  <1> SUFFICES ASSUME Init PROVE IInv
    OBVIOUS
  <1>1. TypeOK
    <2>1. \A o \in Owners \cup {Unowned} : {j \in store : owner[j] = o /\ status[j] \in Live} = {}
      BY DEF Init
    <2>2. Cardinality({}) = 0
      BY FS_EmptySet
    <2>3. \A o \in Owners \cup {Unowned} :
            Cardinality({j \in store : owner[j] = o /\ status[j] \in Live}) <= MaxActive
      BY <2>1, <2>2, MaxActiveIsANumber
    <2> QED
      BY <2>3 DEF Init, TypeOK
  <1>2. Recorded /\ CallsAreCounted /\ SilenceIsCovered /\ CompletionIsOwed
    BY StatusFacts DEF Init, Recorded, CallsAreCounted, SilenceIsCovered,
       CompletionIsOwed, IsTerminal
  <1>3. DisposalsAreWhole
    BY ScopeFacts DEF Init, DisposalsAreWhole, LeftIsKnown, OwnersAreWhole, ServiceIsWhole
  <1> QED
    BY <1>1, <1>2, <1>3 DEF IInv

LEMMA StepInvariant == IInv /\ [Next]_vars => IInv'
  <1> SUFFICES ASSUME IInv, [Next]_vars PROVE IInv'
    OBVIOUS
  <1>1. TypeOK'
    BY TypeStep DEF IInv
  <1>2. Recorded' /\ CallsAreCounted' /\ SilenceIsCovered' /\ CompletionIsOwed'
    BY RecordedStep, CallsStep, SilenceStep, OwedStep
  <1>3. DisposalsAreWhole'
    BY LeftStep, OwnersStep, ServiceStep DEF DisposalsAreWhole
  <1> QED
    BY <1>1, <1>2, <1>3 DEF IInv

(* The inductive invariant holds in every reachable state.                 *)
LEMMA Inductive == Spec => []IInv
  BY InitInvariant, StepInvariant, PTL DEF Spec

(* What is gone left nothing: its snapshot was whole and had ended.        *)
LEMMA GoneIsEmpty == IInv => NothingLeft
  <1> SUFFICES ASSUME IInv PROVE NothingLeft
    OBVIOUS
  <1>1. ASSUME NEW j \in Jobs, j \notin store PROVE status[j] \notin Live
    BY <1>1 DEF IInv, Recorded
  <1>2. ASSUME NEW o \in Owners, phase[o] = "gone", NEW j \in Jobs, owner[j] = o
        PROVE j \notin store
    BY <1>2 DEF IInv, DisposalsAreWhole, OwnersAreWhole
  <1>3. ASSUME phase[Service] = "gone", NEW j \in Jobs PROVE j \notin store
    BY <1>3 DEF IInv, DisposalsAreWhole, ServiceIsWhole
  <1> QED
    BY <1>1, <1>2, <1>3 DEF NothingLeft

(* Every variable of the registry has its type, and no owner ever has more *)
(* work in progress than the limit allows (start, activeTaskCount).        *)
THEOREM TypeCorrect == Spec => []TypeOK
  <1>1. IInv => TypeOK
    BY DEF IInv
  <1> QED
    BY Inductive, <1>1, PTL

(* The end of every job with an owner is heard of or owed to a waiting     *)
(* call, no job's is told both ways, and whoever is gone left no job       *)
(* behind (settle, the reporter's onJobDone listener, wait, disposeOwned,  *)
(* disposeAll).                                                            *)
THEOREM CompletionsStaySound == Spec => []CompletionsAreSound
  <1>1. IInv => CompletionsAreSound
    BY GoneIsEmpty DEF IInv, CompletionsAreSound, CallsAreCounted, NotTwice
  <1> QED
    BY Inductive, <1>1, PTL

(* A settlement is final, and a teardown announces nothing (settle,        *)
(* cancelForTeardown).                                                     *)
THEOREM SettlementsAreKept == Spec => [][KeepsSettlements]_vars
  <1>1. IInv /\ [Next]_vars => [KeepsSettlements]_vars
    <2> SUFFICES ASSUME IInv, Next PROVE KeepsSettlements
      OBVIOUS
    <2>1. ASSUME NEW j \in Jobs, IsTerminal(j) PROVE status'[j] = status[j]
      <3>1. ASSUME NEW k \in Jobs, Settle(k) PROVE status'[j] = status[j]
        BY <2>1, <3>1 DEF Settle, Commit, IInv, TypeOK
      <3>2. ASSUME NEW k \in Jobs, Cancel(k) PROVE status'[j] = status[j]
        BY <2>1, <3>2 DEF Cancel, Commit, IInv, TypeOK
      <3>3. ASSUME NEW k \in Jobs, Kill(k) PROVE status'[j] = status[j]
        BY <2>1, <3>3 DEF Kill, IInv, TypeOK
      <3>4. ASSUME NEW k \in Jobs, NEW o, Start(k, o) PROVE status'[j] = status[j]
        BY <2>1, <3>4, StatusFacts DEF Start, IInv, TypeOK, IsTerminal
      <3>5. CASE UNCHANGED status
        BY <3>5
      <3> QED
        BY <3>1, <3>2, <3>3, <3>4, <3>5 DEF Next, Read, Finish, Wait, Abort,
           Timeout, Resume, Announce, Dispose, Cancelled, Drop
    <2>2. ASSUME NEW j \in noticed' \ noticed
          PROVE phase[Service] = "live" /\ owner[j] \in Owners /\ phase[owner[j]] = "live"
      <3>1. CASE Announce
        <4>1. announcing # NoJob /\ j = announcing /\ ~silent /\ phase[Service] = "live"
              /\ owner[j] # Unowned
          BY <2>2, <3>1 DEF Announce
        <4>2. j \in Jobs /\ owner[j] \in Owners
          BY <4>1 DEF IInv, TypeOK
        <4> QED
          BY <4>1, <4>2 DEF IInv, SilenceIsCovered, IsLive
      <3>2. CASE UNCHANGED noticed
        BY <2>2, <3>2
      <3> QED
        BY <3>1, <3>2 DEF Next, Start, Read, Kill, Finish, Settle, Cancel, Wait,
           Abort, Timeout, Resume, Dispose, Cancelled, Drop
    <2> QED
      BY <2>1, <2>2 DEF KeepsSettlements
  <1> QED
    BY Inductive, <1>1, PTL DEF Spec

---------------------------------------------------------------------------
(* The retries of a step.                                                  *)

(* A key spells out its policy, and the bound of the model is a bound.     *)
Meant == Retries!PoliciesAreKeyed /\ MaxRequests \in Nat \ {0} /\ MaxReloads \in Nat

(* They are.                                                               *)
LEMMA PoliciesAreMeant == Meant
  BY PoliciesAssumption, BoundsAssumption DEF Meant

(* The inductive invariant, in named parts.                                *)

EntryOf(type, number) == [type |-> type, key |-> policy.key, retry |-> number, life |-> reloads]

(* This installation has started every retry that it logged; or it can log *)
(* no other.                                                               *)
Whole == log # <<>> => \/ log[Len(log)].type = "started" \/ log[Len(log)].life < reloads
                       \/ plugin # "on"

(* The retry that waits is the last one logged, by a plugin that is still  *)
(* there; and only it may be left without a start: a request that is sent  *)
(* again, or a failure that is still looked at, finds the log whole.       *)
WaitsForLast ==
  /\ at \in {"request", "waterfall", "next", "downstream"} => Whole
  /\ at = "answered" => aborted \/ Whole
  /\ at = "delay" => /\ log # <<>> /\ pending \in 1 .. MaxRequests
                     /\ log[Len(log)] = EntryOf("retry", pending)
                     /\ active = TRUE /\ captured \in {"live", "dead"}
                     /\ captured = "dead" => plugin = "disposing"

(* Each request adds one to the numbers at most.                           *)
LogIsShort ==
  \A i \in DOMAIN log :
    /\ log[i].retry <= requests
    /\ at \in {"request", "waterfall", "next", "downstream"} => log[i].retry <= requests - 1

(* The retries of a policy are numbered upwards, up to its limit, and no   *)
(* entry comes from an installation that is still to be made.              *)
Numbered ==
  \A i \in DOMAIN log : log[i].life <= reloads /\ (log[i].type = "retry" =>
    /\ \A p \in Policies : p.key = log[i].key /\ p.mode = "normal" => log[i].retry <= p.max
    /\ \A j \in DOMAIN log : log[j].type = "retry" /\ log[j].key = log[i].key /\ i < j =>
         log[i].retry < log[j].retry)

(* Among the retries of a policy there is a last one.                      *)
LastExists ==
  \A p \in Policies : Retries!RetriesOf(p.key) # {} =>
    \E i \in Retries!RetriesOf(p.key) : \A j \in Retries!RetriesOf(p.key) : j <= i

(* A callback is live only while the plugin is on; what it has entered it  *)
(* stays in, dead or alive; and it never hands an always policy on.        *)
CallbackIsPlugin ==
  /\ captured = "live" => plugin = "on"
  /\ at \in {"downstream", "delay"} => captured # "none"
  /\ at = "next" /\ policy.mode = "always" => captured # "live"

RetriesInv == /\ Retries!TypeOK /\ Retries!LoggedIsStarted /\ Retries!AlwaysGoesOn
              /\ WaitsForLast /\ LogIsShort
              /\ Numbered /\ LastExists /\ CallbackIsPlugin

---------------------------------------------------------------------------
(* The log.                                                                *)

LogEntry == [type : {"retry", "started"}, key : {p.key : p \in Policies}, retry : 1 .. MaxRequests,
             life : 0 .. MaxReloads]
RetryEntry == EntryOf("retry", Retries!Number)
StartEntry == EntryOf("started", pending)

(* What is kept of the log by itself.                                      *)
LogIsSound == log \in Seq(LogEntry) /\ Retries!LoggedIsStarted /\ Numbered /\ LastExists

LEMMA SameLog ==
  ASSUME Meant, LogIsSound, UNCHANGED log, reloads \in Nat, reloads' \in {reloads, reloads + 1}
  PROVE  LogIsSound'
  <1>1. \A k : Retries!RetriesOf(k)' = Retries!RetriesOf(k)
    BY DEF Retries!RetriesOf
  <1>2. LastExists'
    BY <1>1 DEF LogIsSound, LastExists
  <1>3. Retries!LoggedIsStarted'
    BY DEF LogIsSound, Retries!LoggedIsStarted
  <1>4. Numbered'
    <2>0. \A i \in DOMAIN log : log[i] \in LogEntry
      BY DEF LogIsSound
    <2>1. \A i \in DOMAIN log : log[i].life \in Nat
      BY <2>0 DEF LogEntry, Meant
    <2>2. \A i \in DOMAIN log : log[i].life <= reloads'
      BY <2>1 DEF LogIsSound, Numbered
    <2> QED
      BY <2>2 DEF LogIsSound, Numbered
  <1> QED
    BY <1>2, <1>3, <1>4 DEF LogIsSound

(* The number of the last retry of the policy is the greatest one.         *)
LEMMA PreviousIsLast ==
  ASSUME Meant, Retries!TypeOK, LogIsSound
  PROVE  /\ Retries!Previous \in Nat
         /\ \A i \in Retries!RetriesOf(policy.key) : log[i].retry <= Retries!Previous
         /\ Retries!Previous = 0 \/ \E k \in Retries!RetriesOf(policy.key) : Retries!Previous = log[k].retry
  <1>1. CASE Retries!RetriesOf(policy.key) = {}
    BY <1>1 DEF Retries!Previous
  <1>2. CASE Retries!RetriesOf(policy.key) # {}
    <2> DEFINE k == CHOOSE i \in Retries!RetriesOf(policy.key) :
                      \A j \in Retries!RetriesOf(policy.key) : j <= i
    <2>1. \E i \in Retries!RetriesOf(policy.key) : \A j \in Retries!RetriesOf(policy.key) : j <= i
      BY <1>2 DEF Retries!TypeOK, LogIsSound, LastExists
    <2>2. k \in Retries!RetriesOf(policy.key) /\ \A j \in Retries!RetriesOf(policy.key) : j <= k
      BY <2>1
    <2>3. Retries!Previous = log[k].retry
      BY <1>2 DEF Retries!Previous
    <2> HIDE DEF k
    <2>4. k \in DOMAIN log /\ log[k].type = "retry" /\ log[k].key = policy.key /\ log[k] \in LogEntry
      BY <2>2 DEF Retries!RetriesOf, LogIsSound
    <2>5. log[k].retry \in Nat
      BY <2>4 DEF LogEntry, Meant
    <2>6. ASSUME NEW i \in Retries!RetriesOf(policy.key) PROVE log[i].retry <= log[k].retry
      <3>1. /\ i \in DOMAIN log /\ log[i].type = "retry" /\ log[i].key = policy.key
            /\ i \in Nat /\ k \in Nat /\ i <= k
        BY <2>2, <2>4 DEF Retries!RetriesOf, LogIsSound
      <3>2. CASE i = k
        BY <2>5, <3>2
      <3>3. CASE i < k
        <4>1. log[i].retry < log[k].retry
          BY <2>4, <3>1, <3>3 DEF LogIsSound, Numbered
        <4>2. log[i] \in LogEntry
          BY <3>1 DEF LogIsSound
        <4> QED
          BY <2>5, <4>1, <4>2 DEF LogEntry, Meant
      <3> QED
        BY <3>1, <3>2, <3>3
    <2> QED
      BY <2>2, <2>3, <2>5, <2>6
  <1> QED
    BY <1>1, <1>2

(* A retry that is logged on a whole log has the next number of its policy.*)
LEMMA LogRetry ==
  ASSUME Meant, Retries!TypeOK, LogIsSound, Whole, plugin = "on",
         \A i \in DOMAIN log : log[i].retry <= requests - 1,
         ~Retries!Spent, UNCHANGED <<policy, reloads>>,
         log' = Append(log, RetryEntry)
  PROVE  /\ LogIsSound' /\ Len(log') = Len(log) + 1 /\ log' # <<>>
         /\ log'[Len(log')] = RetryEntry /\ Retries!Number \in 1 .. MaxRequests
  <1> DEFINE n == Len(log)
  <1>1. /\ n \in Nat /\ DOMAIN log = 1 .. n /\ log \in Seq(LogEntry)
        /\ Len(log') = n + 1 /\ DOMAIN log' = 1 .. (n + 1)
        /\ log'[n + 1] = RetryEntry /\ \A i \in 1 .. n : log'[i] = log[i]
    BY DEF LogIsSound
  <1>2. n # 0 => log[n].type = "started" \/ log[n].life < reloads
    BY <1>1 DEF Whole
  <1>r. reloads \in Nat /\ reloads \in 0 .. MaxReloads
    BY DEF Retries!TypeOK, Meant
  <1> HIDE DEF n
  <1>3. \A i \in 1 .. n : log[i] \in LogEntry
    BY <1>1
  <1>4. /\ Retries!Previous \in Nat /\ Retries!Number = Retries!Previous + 1
        /\ \A i \in Retries!RetriesOf(policy.key) : log[i].retry <= Retries!Previous
    BY PreviousIsLast DEF Retries!Number
  <1>5. Retries!Number <= requests /\ requests \in 1 .. MaxRequests /\ MaxRequests \in Nat
    <2>0. requests \in 1 .. MaxRequests /\ MaxRequests \in Nat
      BY DEF Retries!TypeOK, Meant
    <2>1. CASE Retries!Previous = 0
      BY <1>4, <2>0, <2>1
    <2>2. CASE Retries!Previous # 0
      <3> PICK k \in Retries!RetriesOf(policy.key) : Retries!Previous = log[k].retry
        BY <2>2, PreviousIsLast
      <3>1. k \in DOMAIN log
        BY DEF Retries!RetriesOf
      <3> QED
        BY <1>4, <2>0, <3>1
    <2> QED
      BY <2>0, <2>1, <2>2
  <1>6. Retries!Number \in 1 .. MaxRequests
    BY <1>4, <1>5
  <1>7. /\ RetryEntry \in LogEntry /\ RetryEntry.type = "retry"
        /\ RetryEntry.key = policy.key /\ RetryEntry.retry = Retries!Number
        /\ RetryEntry.life = reloads
    BY <1>6, <1>r DEF RetryEntry, EntryOf, LogEntry, Retries!TypeOK
  <1>8. log' \in Seq(LogEntry)
    BY <1>1, <1>7, AppendProperties
  <1>9. Retries!LoggedIsStarted'
    <2> SUFFICES ASSUME NEW i \in 1 .. (n + 1)
        PROVE  /\ log'[i].type = "retry" /\ i < n + 1 =>
                    \/ log'[i + 1] = [log'[i] EXCEPT !.type = "started"]
                    \/ log'[i + 1].life > log'[i].life
               /\ log'[i].type = "started" => i > 1 /\ log'[i - 1] = [log'[i] EXCEPT !.type = "retry"]
      BY <1>1 DEF Retries!LoggedIsStarted
    <2>1. CASE i = n + 1
      BY <1>1, <1>7, <2>1
    <2>2. CASE i = n
      <3>1. i \in 1 .. n /\ log'[i] = log[i] /\ log'[i + 1] = RetryEntry
        BY <1>1, <2>2
      <3>2. log[i].type = "started" => i > 1 /\ log[i - 1] = [log[i] EXCEPT !.type = "retry"]
        BY <1>1, <3>1 DEF LogIsSound, Retries!LoggedIsStarted
      <3>3. i > 1 => log'[i - 1] = log[i - 1]
        BY <1>1, <3>1
      <3>4. log[i].life \in Nat
        BY <1>3, <3>1 DEF LogEntry, Meant
      <3>5. log[i].type = "retry" => log'[i + 1].life > log'[i].life
        BY <1>1, <1>2, <1>7, <1>r, <2>2, <3>1, <3>4
      <3> QED
        BY <2>2, <3>1, <3>2, <3>3, <3>5
    <2>3. CASE i < n
      <3>1. i \in 1 .. n /\ i + 1 \in 1 .. n /\ log'[i] = log[i] /\ log'[i + 1] = log[i + 1]
        BY <1>1, <2>3
      <3>2. /\ log[i].type = "retry" => \/ log[i + 1] = [log[i] EXCEPT !.type = "started"]
                                         \/ log[i + 1].life > log[i].life
            /\ log[i].type = "started" => i > 1 /\ log[i - 1] = [log[i] EXCEPT !.type = "retry"]
        BY <1>1, <2>3, <3>1 DEF LogIsSound, Retries!LoggedIsStarted, n
      <3>3. i > 1 => log'[i - 1] = log[i - 1]
        BY <1>1, <3>1
      <3> QED
        BY <3>1, <3>2, <3>3
    <2>4. i = n + 1 \/ i = n \/ i < n
      BY <1>1
    <2> QED
      BY <2>1, <2>2, <2>3, <2>4
  <1>10. Numbered'
    <2>0. \A i \in 1 .. (n + 1) : log'[i].life <= reloads'
      <3>1. \A i \in 1 .. n : log[i].life <= reloads
        BY <1>1 DEF LogIsSound, Numbered
      <3> QED
        BY <1>1, <1>7, <1>r, <3>1
    <2> SUFFICES ASSUME NEW i \in 1 .. (n + 1), log'[i].type = "retry"
        PROVE  /\ \A p \in Policies : p.key = log'[i].key /\ p.mode = "normal" => log'[i].retry <= p.max
               /\ \A j \in 1 .. (n + 1) : log'[j].type = "retry" /\ log'[j].key = log'[i].key /\ i < j =>
                    log'[i].retry < log'[j].retry
      BY <1>1, <2>0 DEF Numbered
    <2>1. CASE i = n + 1
      <3>1. ASSUME NEW p \in Policies, p.key = policy.key, p.mode = "normal"
            PROVE Retries!Number <= p.max
        <4>1. p = policy
          BY <3>1 DEF Meant, Retries!PoliciesAreKeyed, Retries!TypeOK
        <4>2. p.max \in Nat
          BY DEF Meant, Retries!PoliciesAreKeyed
        <4> QED
          BY <1>4, <3>1, <4>1, <4>2 DEF Retries!Spent
      <3> QED
        BY <1>1, <1>4, <1>5, <1>7, <2>1, <3>1
    <2>2. CASE i # n + 1
      <3>1. i \in 1 .. n /\ log'[i] = log[i]
        BY <1>1, <2>2
      <3>2. /\ \A p \in Policies : p.key = log[i].key /\ p.mode = "normal" => log[i].retry <= p.max
            /\ \A j \in 1 .. n : log[j].type = "retry" /\ log[j].key = log[i].key /\ i < j =>
                 log[i].retry < log[j].retry
        BY <1>1, <3>1 DEF LogIsSound, Numbered
      <3>3. log[i].key = policy.key => log[i].retry < Retries!Number
        <4>1. log[i].key = policy.key => i \in Retries!RetriesOf(policy.key)
          BY <1>1, <3>1 DEF Retries!RetriesOf
        <4>2. log[i].retry \in Nat
          BY <1>3, <3>1 DEF LogEntry, Meant
        <4> QED
          BY <1>4, <4>1, <4>2
      <3>4. ASSUME NEW j \in 1 .. (n + 1), log'[j].type = "retry", log'[j].key = log[i].key, i < j
            PROVE  log[i].retry < log'[j].retry
        <4>1. CASE j = n + 1
          BY <1>1, <1>7, <3>3, <3>4, <4>1
        <4>2. CASE j # n + 1
          BY <1>1, <3>2, <3>4, <4>2
        <4> QED
          BY <4>1, <4>2
      <3> QED
        BY <3>1, <3>2, <3>4
    <2> QED
      BY <2>1, <2>2
  <1>11. LastExists'
    <2> SUFFICES ASSUME NEW p \in Policies, Retries!RetriesOf(p.key)' # {}
        PROVE  \E i \in Retries!RetriesOf(p.key)' : \A j \in Retries!RetriesOf(p.key)' : j <= i
      BY DEF LastExists
    <2>1. Retries!RetriesOf(p.key)' =
            IF p.key = policy.key THEN Retries!RetriesOf(p.key) \cup {n + 1} ELSE Retries!RetriesOf(p.key)
      BY <1>1, <1>7 DEF Retries!RetriesOf
    <2>2. Retries!RetriesOf(p.key) \subseteq 1 .. n
      BY <1>1 DEF Retries!RetriesOf
    <2>3. CASE p.key = policy.key
      BY <1>1, <2>1, <2>2, <2>3
    <2>4. CASE p.key # policy.key
      BY <2>1, <2>4 DEF LogIsSound, LastExists
    <2> QED
      BY <2>3, <2>4
  <1> QED
    BY <1>1, <1>6, <1>8, <1>9, <1>10, <1>11, EmptySeq DEF LogIsSound, n

(* A start that is logged belongs to the retry in front of it.             *)
LEMMA LogStart ==
  ASSUME Meant, Retries!TypeOK, LogIsSound, log # <<>>, pending \in 1 .. MaxRequests,
         log[Len(log)] = EntryOf("retry", pending), UNCHANGED reloads,
         log' = Append(log, StartEntry)
  PROVE  LogIsSound' /\ Len(log') = Len(log) + 1 /\ Whole'
  <1> DEFINE n == Len(log)
  <1>1. /\ n \in Nat /\ n # 0 /\ DOMAIN log = 1 .. n /\ log \in Seq(LogEntry)
        /\ Len(log') = n + 1 /\ DOMAIN log' = 1 .. (n + 1)
        /\ log'[n + 1] = StartEntry /\ \A i \in 1 .. n : log'[i] = log[i]
    BY EmptySeq DEF LogIsSound
  <1>2. log[n] = EntryOf("retry", pending)
    OBVIOUS
  <1>r. reloads \in Nat /\ reloads \in 0 .. MaxReloads
    BY DEF Retries!TypeOK, Meant
  <1> HIDE DEF n
  <1>3. StartEntry \in LogEntry /\ StartEntry.type = "started"
        /\ StartEntry = [log[n] EXCEPT !.type = "started"] /\ log[n] = [StartEntry EXCEPT !.type = "retry"]
        /\ log[n].type = "retry" /\ StartEntry.life = reloads
    BY <1>2, <1>r DEF StartEntry, EntryOf, LogEntry, Retries!TypeOK
  <1>4. log' \in Seq(LogEntry)
    BY <1>1, <1>3, AppendProperties
  <1>5. Retries!LoggedIsStarted'
    <2> SUFFICES ASSUME NEW i \in 1 .. (n + 1)
        PROVE  /\ log'[i].type = "retry" /\ i < n + 1 =>
                    \/ log'[i + 1] = [log'[i] EXCEPT !.type = "started"]
                    \/ log'[i + 1].life > log'[i].life
               /\ log'[i].type = "started" => i > 1 /\ log'[i - 1] = [log'[i] EXCEPT !.type = "retry"]
      BY <1>1 DEF Retries!LoggedIsStarted
    <2>1. CASE i = n + 1
      <3>1. n \in 1 .. n /\ i - 1 = n /\ i > 1
        BY <1>1, <2>1
      <3>2. log'[i] = StartEntry /\ log'[i - 1] = log[n]
        BY <1>1, <2>1, <3>1
      <3> QED
        BY <1>3, <2>1, <3>1, <3>2
    <2>2. CASE i = n
      <3>1. n \in 1 .. n /\ log'[i] = log[n] /\ log'[i + 1] = StartEntry
        BY <1>1, <2>2
      <3> QED
        BY <1>3, <2>2, <3>1
    <2>3. CASE i < n
      <3>1. i \in 1 .. n /\ i + 1 \in 1 .. n /\ log'[i] = log[i] /\ log'[i + 1] = log[i + 1]
        BY <1>1, <2>3
      <3>2. /\ log[i].type = "retry" => \/ log[i + 1] = [log[i] EXCEPT !.type = "started"]
                                         \/ log[i + 1].life > log[i].life
            /\ log[i].type = "started" => i > 1 /\ log[i - 1] = [log[i] EXCEPT !.type = "retry"]
        BY <1>1, <2>3, <3>1 DEF LogIsSound, Retries!LoggedIsStarted, n
      <3>3. i > 1 => log'[i - 1] = log[i - 1]
        BY <1>1, <3>1
      <3> QED
        BY <3>1, <3>2, <3>3
    <2>4. i = n + 1 \/ i = n \/ i < n
      BY <1>1
    <2> QED
      BY <2>1, <2>2, <2>3, <2>4
  <1>6. \A k : Retries!RetriesOf(k)' = Retries!RetriesOf(k)
    BY <1>1, <1>3 DEF Retries!RetriesOf
  <1>7. Numbered'
    <2>1. \A i \in DOMAIN log' : log'[i].type = "retry" => i \in DOMAIN log /\ log'[i] = log[i]
      BY <1>1, <1>3
    <2>0. \A i \in DOMAIN log' : log'[i].life <= reloads'
      <3>1. \A i \in 1 .. n : log[i].life <= reloads
        BY <1>1 DEF LogIsSound, Numbered
      <3> QED
        BY <1>1, <1>3, <1>r, <3>1
    <2> SUFFICES ASSUME NEW i \in DOMAIN log', log'[i].type = "retry"
        PROVE  /\ \A p \in Policies : p.key = log'[i].key /\ p.mode = "normal" => log'[i].retry <= p.max
               /\ \A j \in DOMAIN log' : log'[j].type = "retry" /\ log'[j].key = log'[i].key /\ i < j =>
                    log'[i].retry < log'[j].retry
      BY <2>0 DEF Numbered
    <2>2. i \in DOMAIN log /\ log'[i] = log[i] /\ log[i].type = "retry"
      BY <2>1
    <2>3. /\ \A p \in Policies : p.key = log[i].key /\ p.mode = "normal" => log[i].retry <= p.max
          /\ \A j \in DOMAIN log : log[j].type = "retry" /\ log[j].key = log[i].key /\ i < j =>
               log[i].retry < log[j].retry
      BY <2>2 DEF LogIsSound, Numbered
    <2> QED
      BY <2>1, <2>2, <2>3
  <1>8. LastExists'
    BY <1>6 DEF LogIsSound, LastExists
  <1> QED
    BY <1>1, <1>3, <1>4, <1>5, <1>7, <1>8 DEF LogIsSound, Whole, n

(* What a recovery may do.                                                 *)
LEMMA RecoverCases ==
  ASSUME Retries!Recover
  PROVE  \/ /\ policy.mode = "normal" /\ at' = "next" /\ active' = TRUE
            /\ UNCHANGED <<log, pending, action>>
         \/ /\ Retries!Cancelled /\ at' = "answered" /\ action' = "none" /\ active' = FALSE
            /\ UNCHANGED <<log, pending>>
         \/ /\ ~Retries!Cancelled /\ ~Retries!Spent
            /\ at' = "delay" /\ active' = TRUE /\ pending' = Retries!Number
            /\ log' = Append(log, RetryEntry) /\ UNCHANGED action
  <1>1. CASE Retries!Spent \/ (policy.mode = "normal" /\ failure.after = "long")
    BY <1>1 DEF Retries!Recover, Retries!Go, Retries!Spent
  <1>2. CASE /\ ~(Retries!Spent \/ (policy.mode = "normal" /\ failure.after = "long"))
             /\ Retries!Cancelled
    BY <1>2 DEF Retries!Recover, Retries!Answer, Retries!LeavesActive
  <1>3. CASE /\ ~(Retries!Spent \/ (policy.mode = "normal" /\ failure.after = "long"))
             /\ ~Retries!Cancelled
    BY <1>3 DEF Retries!Recover, RetryEntry, EntryOf, Retries!Entry
  <1> QED
    BY <1>1, <1>2, <1>3

(* What the plugin's callback may do with a failure.                       *)
LEMMA EnterCases ==
  ASSUME Retries!Enter
  PROVE  /\ at = "waterfall" /\ UNCHANGED <<policy, failure, requests, aborted, plugin, reloads, captured>>
         /\ \/ /\ captured # "live" \/ policy.mode # "always"
               /\ at' = "next" /\ active' \in BOOLEAN /\ UNCHANGED <<log, pending, action>>
            \/ /\ captured = "dead" \/ aborted
               /\ at' = "answered" /\ action' = "none" /\ active' = FALSE /\ UNCHANGED <<log, pending>>
            \/ /\ captured = "live" /\ at' = "downstream" /\ active' = TRUE
               /\ UNCHANGED <<log, pending, action>>
            \/ captured = "live" /\ Retries!Recover
  <1>1. at = "waterfall" /\ UNCHANGED <<policy, failure, requests, aborted, plugin, reloads, captured>>
    BY DEF Retries!Enter, Retries!request, Retries!life
  <1>2. CASE captured = "none" /\ Retries!Go("next", FALSE)
    BY <1>1, <1>2 DEF Retries!Go
  <1>3. CASE captured = "dead" /\ Retries!Answer("none") /\ UNCHANGED log
    BY <1>1, <1>3 DEF Retries!Answer, Retries!LeavesActive
  <1>4. CASE captured = "live" /\ policy.mode = "always"
    BY <1>1, <1>4 DEF Retries!Enter, Retries!Go, Retries!Answer, Retries!LeavesActive
  <1>5. CASE captured = "live" /\ policy.mode # "always"
    BY <1>1, <1>5 DEF Retries!Enter, Retries!Go
  <1> QED
    BY <1>2, <1>3, <1>4, <1>5 DEF Retries!Enter

(* What a recovery does after the listeners behind it.                     *)
LEMMA DownstreamCases ==
  ASSUME NEW a \in {"retry", "none"}, Retries!DownstreamSettles(a)
  PROVE  /\ at = "downstream" /\ UNCHANGED <<policy, failure, requests, aborted, plugin, reloads, captured>>
         /\ \/ /\ Retries!Cancelled /\ at' = "answered" /\ action' = "none" /\ active' = FALSE
               /\ UNCHANGED <<log, pending>>
            \/ /\ at' = "answered" /\ action' = "retry" /\ active' = FALSE
               /\ UNCHANGED <<log, pending>>
            \/ ~Retries!Cancelled /\ Retries!Recover
  <1>1. at = "downstream" /\ UNCHANGED <<policy, failure, requests, aborted, plugin, reloads, captured>>
    BY DEF Retries!DownstreamSettles, Retries!request, Retries!life
  <1>2. CASE Retries!Cancelled
    BY <1>1, <1>2 DEF Retries!DownstreamSettles, Retries!Answer, Retries!LeavesActive
  <1>3. CASE ~Retries!Cancelled /\ a = "retry"
    BY <1>1, <1>3 DEF Retries!DownstreamSettles, Retries!Answer, Retries!LeavesActive
  <1>4. CASE ~Retries!Cancelled /\ a # "retry"
    BY <1>1, <1>4 DEF Retries!DownstreamSettles
  <1> QED
    BY <1>2, <1>3, <1>4

(* How a wait ends.                                                        *)
LEMMA DelayCases ==
  ASSUME Retries!DelayEnds
  PROVE  /\ at = "delay" /\ at' = "answered" /\ active' = FALSE
         /\ UNCHANGED <<policy, failure, requests, aborted, plugin, reloads, captured, pending>>
         /\ \/ Retries!Cancelled /\ action' = "none" /\ UNCHANGED log
            \/ ~Retries!Cancelled /\ action' = "retry" /\ log' = Append(log, StartEntry)
  <1>1. CASE Retries!Cancelled
    BY <1>1 DEF Retries!DelayEnds, Retries!Answer, Retries!LeavesActive,
       Retries!request, Retries!life
  <1>2. CASE ~Retries!Cancelled
    BY <1>2 DEF Retries!DelayEnds, Retries!Answer, Retries!LeavesActive, StartEntry, EntryOf,
       Retries!Entry,
       Retries!request, Retries!life
  <1> QED
    BY <1>1, <1>2

---------------------------------------------------------------------------
(* The steps.                                                              *)

(* Every step keeps the log sound.                                         *)
LEMMA LogStep ==
  ASSUME Meant, Retries!TypeOK, LogIsSound, WaitsForLast, LogIsShort, CallbackIsPlugin,
         [Retries!Next]_(Retries!vars)
  PROVE  LogIsSound'
  <1>0. reloads \in Nat
    BY DEF Retries!TypeOK, Meant
  <1>1. CASE UNCHANGED log /\ reloads' \in {reloads, reloads + 1}
    BY <1>0, <1>1, SameLog
  <1>2. CASE /\ Retries!Recover /\ at \in {"waterfall", "downstream"} /\ captured # "none"
             /\ UNCHANGED <<policy, reloads>>
    <2>1. CASE UNCHANGED log
      BY <1>1, <1>2, <2>1
    <2>2. CASE ~Retries!Cancelled /\ ~Retries!Spent /\ log' = Append(log, RetryEntry)
      <3>1. plugin = "on"
        BY <1>2, <2>2 DEF Retries!Cancelled, Retries!TypeOK, CallbackIsPlugin
      <3> QED
        BY <1>2, <2>2, <3>1, LogRetry DEF WaitsForLast, LogIsShort
    <2> QED
      BY <1>2, <2>1, <2>2, RecoverCases
  <1>3. CASE Retries!DelayEnds
    BY <1>1, <1>3, DelayCases, LogStart DEF WaitsForLast
  <1>4. CASE Retries!Enter
    BY <1>1, <1>2, <1>4, EnterCases
  <1>5. ASSUME NEW a \in {"retry", "none"}, Retries!DownstreamSettles(a) PROVE LogIsSound'
    BY <1>1, <1>2, <1>5, DownstreamCases DEF CallbackIsPlugin
  <1> QED
    BY <1>1, <1>3, <1>4, <1>5 DEF Retries!Next, Retries!Settles, Retries!Succeed, Retries!Fail,
       Retries!Outside,
       Retries!NextSettles, Retries!Return, Retries!Abort, Retries!life,
       Retries!Dispose, Retries!Drained, Retries!Install, Retries!vars

(* Every step keeps the types.                                             *)
LEMMA RetriesTypeStep ==
  ASSUME Meant, Retries!TypeOK, LogIsSound, WaitsForLast, LogIsShort, CallbackIsPlugin,
         [Retries!Next]_(Retries!vars)
  PROVE  Retries!TypeOK'
  <1>log. log' \in Seq([type : {"retry", "started"},
                        key : {p.key : p \in Policies}, retry : 1 .. MaxRequests,
                        life : 0 .. MaxReloads])
    BY LogStep DEF LogIsSound, LogEntry
  <1>rec. ASSUME Retries!Recover, at \in {"waterfall", "downstream"}, captured # "none",
                 UNCHANGED <<policy, failure, requests, aborted, plugin, reloads, captured>>
          PROVE  Retries!TypeOK'
    <2>1. Retries!Number \in 1 .. MaxRequests \/ UNCHANGED pending
      <3>1. CASE ~Retries!Cancelled /\ ~Retries!Spent /\ log' = Append(log, RetryEntry)
        <4>1. plugin = "on"
          BY <1>rec, <3>1 DEF Retries!Cancelled, Retries!TypeOK, CallbackIsPlugin
        <4> QED
          BY <1>rec, <3>1, <4>1, LogRetry DEF WaitsForLast, LogIsShort
      <3> QED
        BY <1>rec, <3>1, RecoverCases
    <2>2. pending' \in 0 .. MaxRequests
      <3>1. pending' = pending \/ pending' = Retries!Number
        BY <1>rec, RecoverCases
      <3>2. pending \in 0 .. MaxRequests /\ MaxRequests \in Nat
        BY DEF Retries!TypeOK, Meant
      <3>3. CASE pending' = pending
        BY <3>2, <3>3
      <3>4. CASE pending' = Retries!Number
        BY <2>1, <3>2, <3>4
      <3> QED
        BY <3>1, <3>3, <3>4
    <2>3. at' \in {"next", "answered", "delay"}
      BY <1>rec, RecoverCases
    <2>4. action' \in {"retry", "none"}
      BY <1>rec, RecoverCases DEF Retries!TypeOK
    <2>5. active' \in BOOLEAN
      BY <1>rec, RecoverCases
    <2> QED
      BY <1>rec, <1>log, <2>2, <2>3, <2>4, <2>5 DEF Retries!TypeOK
  <1>1. CASE Retries!Succeed
    BY <1>1, <1>log DEF Retries!Succeed, Retries!TypeOK, Retries!request, Retries!life
  <1>2. CASE Retries!Fail
    BY <1>2, <1>log DEF Retries!Fail, Retries!TypeOK, Retries!request, Retries!life
  <1>3. CASE Retries!Enter
    BY <1>3, <1>log, <1>rec, EnterCases DEF Retries!TypeOK
  <1>4. ASSUME NEW a \in {"retry", "none"}, Retries!Outside(a) PROVE Retries!TypeOK'
    BY <1>4, <1>log DEF Retries!Outside, Retries!Answer, Retries!LeavesActive, Retries!TypeOK,
       Retries!request, Retries!life
  <1>5. ASSUME NEW a \in {"retry", "none"}, Retries!NextSettles(a) PROVE Retries!TypeOK'
    BY <1>5, <1>log DEF Retries!NextSettles, Retries!Answer, Retries!LeavesActive, Retries!TypeOK,
       Retries!request, Retries!life
  <1>6. ASSUME NEW a \in {"retry", "none"}, Retries!DownstreamSettles(a) PROVE Retries!TypeOK'
    BY <1>6, <1>log, <1>rec, DownstreamCases DEF Retries!TypeOK, CallbackIsPlugin
  <1>7. CASE Retries!DelayEnds
    BY <1>7, <1>log, DelayCases DEF Retries!TypeOK
  <1>8. ASSUME NEW a \in {"retry", "none"}, Retries!Return(a) PROVE Retries!TypeOK'
    <2>1. requests' \in 1 .. MaxRequests
      BY <1>8 DEF Retries!Return, Retries!TypeOK, Meant
    <2> QED
      BY <1>8, <1>log, <2>1 DEF Retries!Return, Retries!TypeOK, Retries!life
  <1>9. CASE Retries!Abort
    BY <1>9, <1>log DEF Retries!Abort, Retries!TypeOK, Retries!request, Retries!life
  <1>10. CASE Retries!Dispose
    BY <1>10, <1>log DEF Retries!Dispose, Retries!TypeOK, Retries!request, Retries!life
  <1>11. CASE Retries!Drained
    BY <1>11, <1>log DEF Retries!Drained, Retries!TypeOK, Retries!request, Retries!life
  <1>12. CASE Retries!Install
    <2>1. reloads' \in 0 .. MaxReloads
      BY <1>12 DEF Retries!Install, Retries!TypeOK, Meant
    <2> QED
      BY <1>12, <1>log, <2>1 DEF Retries!Install, Retries!TypeOK, Retries!request
  <1>13. CASE UNCHANGED Retries!vars
    BY <1>13, <1>log DEF Retries!vars, Retries!TypeOK, Retries!request, Retries!life
  <1> QED
    BY <1>1, <1>2, <1>3, <1>4, <1>5, <1>6, <1>7, <1>8, <1>9, <1>10,
       <1>11, <1>12, <1>13 DEF Retries!Next, Retries!Settles

(* The log is whole whenever no retry waits for its start.                 *)
LEMMA WaitsStep ==
  ASSUME Meant, Retries!TypeOK, LogIsSound, WaitsForLast, LogIsShort, CallbackIsPlugin,
         [Retries!Next]_(Retries!vars)
  PROVE  WaitsForLast'
  <1>rec. ASSUME Retries!Recover, at \in {"waterfall", "downstream"}, captured # "none",
                 UNCHANGED <<policy, failure, requests, aborted, plugin, reloads, captured>>
          PROVE  WaitsForLast'
    <2>1. CASE UNCHANGED log /\ at' # "delay"
      BY <1>rec, <2>1 DEF WaitsForLast, Whole
    <2>2. CASE /\ ~Retries!Cancelled /\ ~Retries!Spent /\ log' = Append(log, RetryEntry)
               /\ at' = "delay" /\ pending' = Retries!Number /\ active' = TRUE
      <3>1. captured = "live" /\ plugin = "on"
        BY <1>rec, <2>2 DEF Retries!Cancelled, Retries!TypeOK, CallbackIsPlugin
      <3>2. /\ log'[Len(log')] = RetryEntry /\ Retries!Number \in 1 .. MaxRequests /\ log' # <<>>
        BY <1>rec, <2>2, <3>1, LogRetry DEF WaitsForLast, LogIsShort
      <3> QED
        BY <1>rec, <2>2, <3>1, <3>2 DEF WaitsForLast, RetryEntry, EntryOf
    <2> QED
      BY <1>rec, <2>1, <2>2, RecoverCases
  <1>1. CASE Retries!Succeed
    BY <1>1 DEF Retries!Succeed, WaitsForLast, Whole, Retries!request, Retries!life
  <1>2. CASE Retries!Fail
    BY <1>2 DEF Retries!Fail, WaitsForLast, Whole, Retries!request, Retries!life
  <1>3. CASE Retries!Enter
    BY <1>3, <1>rec, EnterCases DEF WaitsForLast, Whole
  <1>4. ASSUME NEW a \in {"retry", "none"}, Retries!Outside(a) PROVE WaitsForLast'
    BY <1>4 DEF Retries!Outside, Retries!Answer, Retries!LeavesActive, WaitsForLast, Whole,
       Retries!request, Retries!life
  <1>5. ASSUME NEW a \in {"retry", "none"}, Retries!NextSettles(a) PROVE WaitsForLast'
    BY <1>5 DEF Retries!NextSettles, Retries!Answer, Retries!LeavesActive, WaitsForLast, Whole,
       Retries!request, Retries!life
  <1>6. ASSUME NEW a \in {"retry", "none"}, Retries!DownstreamSettles(a) PROVE WaitsForLast'
    <2>1. UNCHANGED log => (Whole => Whole')
      BY <1>6, DownstreamCases DEF Whole
    <2> QED
      BY <1>6, <1>rec, <2>1, DownstreamCases DEF WaitsForLast, CallbackIsPlugin
  <1>7. CASE Retries!DelayEnds
    <2>1. CASE Retries!Cancelled /\ UNCHANGED log
      <3>1. aborted' \/ plugin' # "on"
        BY <1>7, <2>1, DelayCases DEF WaitsForLast, Retries!Cancelled
      <3> QED
        BY <1>7, <2>1, <3>1, DelayCases DEF WaitsForLast, Whole
    <2>2. CASE log' = Append(log, StartEntry)
      <3>1. Whole'
        BY <1>7, <2>2, DelayCases, LogStart DEF WaitsForLast
      <3> QED
        BY <1>7, <3>1, DelayCases DEF WaitsForLast
    <2> QED
      BY <1>7, <2>1, <2>2, DelayCases
  <1>8. ASSUME NEW a \in {"retry", "none"}, Retries!Return(a) PROVE WaitsForLast'
    <2>1. /\ at = "answered" /\ UNCHANGED <<log, aborted, plugin, reloads>>
          /\ at' = "ended" \/ (~aborted /\ at' = "request")
      BY <1>8 DEF Retries!Return, Retries!life
    <2>2. Whole => Whole'
      BY <2>1 DEF Whole
    <2> QED
      BY <2>1, <2>2 DEF WaitsForLast
  <1>9. CASE Retries!Abort
    BY <1>9 DEF Retries!Abort, WaitsForLast, Whole, EntryOf, Retries!request, Retries!life
  <1>10. CASE Retries!Dispose
    BY <1>10 DEF Retries!Dispose, WaitsForLast, Whole, EntryOf, Retries!request, Retries!life
  <1>11. CASE Retries!Drained
    BY <1>11 DEF Retries!Drained, WaitsForLast, Whole, EntryOf, Retries!request, Retries!life
  <1>12. CASE Retries!Install
    <2>1. Whole'
      <3>1. CASE log = <<>>
        BY <1>12, <3>1 DEF Retries!Install, Whole
      <3>2. CASE log # <<>>
        <4>1. Len(log) \in DOMAIN log
          BY <3>2 DEF LogIsSound
        <4>2. log[Len(log)] \in LogEntry /\ log[Len(log)].life <= reloads
          BY <4>1 DEF LogIsSound, Numbered
        <4>3. log[Len(log)].life \in Nat /\ reloads \in Nat
          BY <4>2 DEF LogEntry, Retries!TypeOK, Meant
        <4>4. log[Len(log)].life < reloads + 1 /\ log' = log /\ reloads' = reloads + 1
          BY <1>12, <4>2, <4>3 DEF Retries!Install
        <4> QED
          BY <4>4 DEF Whole
      <3> QED
        BY <3>1, <3>2
    <2>2. at' = at /\ at # "delay"
      BY <1>12 DEF Retries!Install, WaitsForLast, CallbackIsPlugin
    <2> QED
      BY <2>1, <2>2 DEF WaitsForLast
  <1>13. CASE UNCHANGED Retries!vars
    BY <1>13 DEF Retries!vars, WaitsForLast, Whole, EntryOf, Retries!request, Retries!life
  <1> QED
    BY <1>1, <1>2, <1>3, <1>4, <1>5, <1>6, <1>7, <1>8, <1>9, <1>10,
       <1>11, <1>12, <1>13 DEF Retries!Next, Retries!Settles

(* Each request adds one to the numbers at most.                           *)
LEMMA ShortStep ==
  ASSUME Meant, Retries!TypeOK, LogIsSound, WaitsForLast, LogIsShort, CallbackIsPlugin,
         [Retries!Next]_(Retries!vars)
  PROVE  LogIsShort'
  <1>0. requests \in Nat
    BY DEF Retries!TypeOK, Meant
  <1>len. \A i \in DOMAIN log : log[i].retry \in Nat /\ log[i].retry <= requests
    <2>1. \A i \in DOMAIN log : log[i] \in LogEntry
      BY DEF LogIsSound
    <2> QED
      BY <2>1 DEF LogEntry, LogIsShort, Meant
  <1>rec. ASSUME Retries!Recover, at \in {"waterfall", "downstream"}, captured # "none",
                 UNCHANGED <<policy, failure, requests, aborted, plugin, reloads, captured>>
          PROVE  LogIsShort'
    <2>1. CASE UNCHANGED log
      BY <1>rec, <1>len, <2>1, RecoverCases DEF LogIsShort
    <2>2. CASE /\ ~Retries!Cancelled /\ ~Retries!Spent /\ log' = Append(log, RetryEntry)
               /\ at' = "delay"
      <3>1. plugin = "on"
        BY <1>rec, <2>2 DEF Retries!Cancelled, Retries!TypeOK, CallbackIsPlugin
      <3>2. LogIsSound /\ Whole /\ \A i \in DOMAIN log : log[i].retry <= requests - 1
        BY <1>rec DEF WaitsForLast, LogIsShort
      <3>3. Retries!Number <= requests
        <4>1. /\ Retries!Previous \in Nat
              /\ Retries!Previous = 0 \/ \E k \in Retries!RetriesOf(policy.key) :
                                          Retries!Previous = log[k].retry
          BY PreviousIsLast
        <4>2. Retries!Previous <= requests - 1
          <5>1. CASE Retries!Previous = 0
            BY <5>1 DEF Retries!TypeOK, Meant
          <5>2. ASSUME NEW k \in Retries!RetriesOf(policy.key), Retries!Previous = log[k].retry
                PROVE  Retries!Previous <= requests - 1
            BY <3>2, <5>2 DEF Retries!RetriesOf
          <5> QED
            BY <4>1, <5>1, <5>2
        <4> QED
          BY <1>0, <4>1, <4>2 DEF Retries!Number
      <3>4. \A i \in DOMAIN log' : log'[i] = RetryEntry \/ (i \in DOMAIN log /\ log'[i] = log[i])
        BY <2>2 DEF LogIsSound
      <3>5. RetryEntry.retry = Retries!Number
        BY DEF RetryEntry, EntryOf
      <3> QED
        BY <1>rec, <1>len, <2>2, <3>3, <3>4, <3>5 DEF LogIsShort
    <2> QED
      BY <1>rec, <2>1, <2>2, RecoverCases
  <1>1. CASE Retries!Succeed
    BY <1>1, <1>len DEF Retries!Succeed, LogIsShort, Retries!TypeOK, Retries!request, Retries!life
  <1>2. CASE Retries!Fail
    BY <1>2, <1>len DEF Retries!Fail, LogIsShort, Retries!TypeOK, Retries!request, Retries!life
  <1>3. CASE Retries!Enter
    BY <1>3, <1>len, <1>rec, EnterCases DEF LogIsShort
  <1>4. ASSUME NEW a \in {"retry", "none"}, Retries!Outside(a) PROVE LogIsShort'
    BY <1>4, <1>len DEF Retries!Outside, Retries!Answer, Retries!LeavesActive, LogIsShort,
       Retries!TypeOK, Retries!request, Retries!life
  <1>5. ASSUME NEW a \in {"retry", "none"}, Retries!NextSettles(a) PROVE LogIsShort'
    BY <1>5, <1>len DEF Retries!NextSettles, Retries!Answer, Retries!LeavesActive, LogIsShort,
       Retries!TypeOK, Retries!request, Retries!life
  <1>6. ASSUME NEW a \in {"retry", "none"}, Retries!DownstreamSettles(a) PROVE LogIsShort'
    BY <1>6, <1>len, <1>rec, DownstreamCases DEF LogIsShort, CallbackIsPlugin
  <1>7. CASE Retries!DelayEnds
    <2>1. CASE UNCHANGED log
      BY <1>7, <1>len, <2>1, DelayCases DEF LogIsShort
    <2>2. CASE log' = Append(log, StartEntry)
      <3>1. /\ log # <<>> /\ log[Len(log)] = EntryOf("retry", pending) /\ Len(log) \in DOMAIN log
        BY <1>7, DelayCases DEF WaitsForLast, LogIsSound
      <3>2. StartEntry.retry = log[Len(log)].retry
        BY <3>1 DEF StartEntry, EntryOf
      <3>3. \A i \in DOMAIN log' : log'[i] = StartEntry \/ (i \in DOMAIN log /\ log'[i] = log[i])
        BY <2>2 DEF LogIsSound
      <3> QED
        BY <1>7, <1>len, <3>1, <3>2, <3>3, DelayCases DEF LogIsShort
    <2> QED
      BY <1>7, <2>1, <2>2, DelayCases
  <1>8. ASSUME NEW a \in {"retry", "none"}, Retries!Return(a) PROVE LogIsShort'
    BY <1>8, <1>0, <1>len DEF Retries!Return, LogIsShort, Retries!request, Retries!life
  <1>9. CASE Retries!Abort
    BY <1>9, <1>len DEF Retries!Abort, LogIsShort, Retries!TypeOK, Retries!request, Retries!life
  <1>10. CASE Retries!Dispose
    BY <1>10, <1>len DEF Retries!Dispose, LogIsShort, Retries!TypeOK, Retries!request, Retries!life
  <1>11. CASE Retries!Drained
    BY <1>11, <1>len DEF Retries!Drained, LogIsShort, Retries!TypeOK, Retries!request, Retries!life
  <1>12. CASE Retries!Install
    BY <1>12, <1>len DEF Retries!Install, LogIsShort, Retries!TypeOK, Retries!request, Retries!life
  <1>13. CASE UNCHANGED Retries!vars
    BY <1>13, <1>len DEF Retries!vars, LogIsShort, Retries!TypeOK, Retries!request, Retries!life
  <1> QED
    BY <1>1, <1>2, <1>3, <1>4, <1>5, <1>6, <1>7, <1>8, <1>9, <1>10,
       <1>11, <1>12, <1>13 DEF Retries!Next, Retries!Settles

(* A live callback belongs to an installed plugin.                         *)
LEMMA CallbackStep ==
  ASSUME Retries!TypeOK, CallbackIsPlugin, [Retries!Next]_(Retries!vars)
  PROVE  CallbackIsPlugin'
  <1>1. CASE Retries!Succeed
    BY <1>1 DEF Retries!Succeed, CallbackIsPlugin, Retries!TypeOK, Retries!request, Retries!life
  <1>2. CASE Retries!Fail
    BY <1>2 DEF Retries!Fail, CallbackIsPlugin, Retries!TypeOK, Retries!request, Retries!life
  <1>3. CASE Retries!Enter
    <2>1. CASE captured = "live" /\ Retries!Recover
      BY <1>3, <2>1, EnterCases, RecoverCases DEF CallbackIsPlugin
    <2> QED
      BY <1>3, <2>1, EnterCases DEF CallbackIsPlugin
  <1>4. ASSUME NEW a \in {"retry", "none"}, Retries!Outside(a) PROVE CallbackIsPlugin'
    BY <1>4 DEF Retries!Outside, Retries!Answer, Retries!LeavesActive, CallbackIsPlugin,
       Retries!TypeOK, Retries!request, Retries!life
  <1>5. ASSUME NEW a \in {"retry", "none"}, Retries!NextSettles(a) PROVE CallbackIsPlugin'
    BY <1>5 DEF Retries!NextSettles, Retries!Answer, Retries!LeavesActive, CallbackIsPlugin,
       Retries!TypeOK, Retries!request, Retries!life
  <1>6. ASSUME NEW a \in {"retry", "none"}, Retries!DownstreamSettles(a) PROVE CallbackIsPlugin'
    <2>1. CASE Retries!Recover
      BY <1>6, <2>1, DownstreamCases, RecoverCases DEF CallbackIsPlugin
    <2> QED
      BY <1>6, <2>1, DownstreamCases DEF CallbackIsPlugin
  <1>7. CASE Retries!DelayEnds
    BY <1>7, DelayCases DEF CallbackIsPlugin
  <1>8. ASSUME NEW a \in {"retry", "none"}, Retries!Return(a) PROVE CallbackIsPlugin'
    BY <1>8 DEF Retries!Return, CallbackIsPlugin, Retries!TypeOK, Retries!request, Retries!life
  <1>9. CASE Retries!Abort
    BY <1>9 DEF Retries!Abort, CallbackIsPlugin, Retries!TypeOK, Retries!request, Retries!life
  <1>10. CASE Retries!Dispose
    BY <1>10 DEF Retries!Dispose, CallbackIsPlugin, Retries!TypeOK, Retries!request, Retries!life
  <1>11. CASE Retries!Drained
    BY <1>11 DEF Retries!Drained, CallbackIsPlugin, Retries!TypeOK, Retries!request, Retries!life
  <1>12. CASE Retries!Install
    BY <1>12 DEF Retries!Install, CallbackIsPlugin, Retries!TypeOK, Retries!request, Retries!life
  <1>13. CASE UNCHANGED Retries!vars
    BY <1>13 DEF Retries!vars, CallbackIsPlugin, Retries!TypeOK, Retries!request, Retries!life
  <1> QED
    BY <1>1, <1>2, <1>3, <1>4, <1>5, <1>6, <1>7, <1>8, <1>9, <1>10,
       <1>11, <1>12, <1>13 DEF Retries!Next, Retries!Settles

(* An always policy is given up only for the turn.                         *)
LEMMA AlwaysStep ==
  ASSUME Retries!TypeOK, CallbackIsPlugin, Retries!AlwaysGoesOn, [Retries!Next]_(Retries!vars)
  PROVE  Retries!AlwaysGoesOn'
  <1>1. CASE Retries!Succeed
    BY <1>1 DEF Retries!Succeed, Retries!AlwaysGoesOn, CallbackIsPlugin, Retries!request,
       Retries!life
  <1>2. CASE Retries!Fail
    BY <1>2 DEF Retries!Fail, Retries!AlwaysGoesOn, CallbackIsPlugin, Retries!request, Retries!life
  <1>3. CASE Retries!Enter
    <2>1. CASE captured = "live" /\ Retries!Recover
      BY <1>3, <2>1, EnterCases, RecoverCases DEF Retries!AlwaysGoesOn, Retries!Cancelled
    <2> QED
      BY <1>3, <2>1, EnterCases DEF Retries!AlwaysGoesOn
  <1>4. ASSUME NEW a \in {"retry", "none"}, Retries!Outside(a) PROVE Retries!AlwaysGoesOn'
    BY <1>4 DEF Retries!Outside, Retries!Answer, Retries!LeavesActive, Retries!AlwaysGoesOn,
       CallbackIsPlugin, Retries!request, Retries!life
  <1>5. ASSUME NEW a \in {"retry", "none"}, Retries!NextSettles(a) PROVE Retries!AlwaysGoesOn'
    BY <1>5 DEF Retries!NextSettles, Retries!Answer, Retries!LeavesActive, Retries!AlwaysGoesOn,
       CallbackIsPlugin,
       Retries!request, Retries!life
  <1>6. ASSUME NEW a \in {"retry", "none"}, Retries!DownstreamSettles(a) PROVE Retries!AlwaysGoesOn'
    <2>1. CASE Retries!Recover
      BY <1>6, <2>1, DownstreamCases, RecoverCases DEF Retries!AlwaysGoesOn, Retries!Cancelled
    <2> QED
      BY <1>6, <2>1, DownstreamCases DEF Retries!AlwaysGoesOn, Retries!Cancelled
  <1>7. CASE Retries!DelayEnds
    BY <1>7, DelayCases DEF Retries!AlwaysGoesOn, Retries!Cancelled
  <1>8. ASSUME NEW a \in {"retry", "none"}, Retries!Return(a) PROVE Retries!AlwaysGoesOn'
    BY <1>8 DEF Retries!Return, Retries!AlwaysGoesOn, CallbackIsPlugin, Retries!request,
       Retries!life
  <1>9. CASE Retries!Abort
    BY <1>9 DEF Retries!Abort, Retries!AlwaysGoesOn, CallbackIsPlugin, Retries!request, Retries!life
  <1>10. CASE Retries!Dispose
    BY <1>10 DEF Retries!Dispose, Retries!AlwaysGoesOn, CallbackIsPlugin, Retries!request,
       Retries!life
  <1>11. CASE Retries!Drained
    BY <1>11 DEF Retries!Drained, Retries!AlwaysGoesOn, CallbackIsPlugin, Retries!request,
       Retries!life
  <1>12. CASE Retries!Install
    BY <1>12 DEF Retries!Install, Retries!AlwaysGoesOn, CallbackIsPlugin, Retries!request,
       Retries!life
  <1>13. CASE UNCHANGED Retries!vars
    BY <1>13 DEF Retries!vars, Retries!AlwaysGoesOn, CallbackIsPlugin, Retries!request, Retries!life
  <1> QED
    BY <1>1, <1>2, <1>3, <1>4, <1>5, <1>6, <1>7, <1>8, <1>9, <1>10,
       <1>11, <1>12, <1>13 DEF Retries!Next, Retries!Settles
---------------------------------------------------------------------------
(* The invariant and what follows from it.                                 *)

(* Nothing is logged at first.                                             *)
LEMMA RetriesInit == ASSUME Meant, Retries!Init PROVE RetriesInv
  <1>1. log = <<>> /\ Len(log) = 0 /\ DOMAIN log = {}
    BY DEF Retries!Init
  <1>2. Retries!TypeOK
    <2>1. log \in Seq([type : {"retry", "started"},
                      key : {p.key : p \in Policies}, retry : 1 .. MaxRequests,
                      life : 0 .. MaxReloads])
      BY <1>1
    <2>2. requests \in 1 .. MaxRequests /\ pending \in 0 .. MaxRequests /\ reloads \in 0 .. MaxReloads
      BY DEF Retries!Init, Meant
    <2>3. policy \in Policies /\ failure \in Retries!Failures
      BY DEF Retries!Init, Retries!Failures
    <2> QED
      BY <2>1, <2>2, <2>3 DEF Retries!Init, Retries!TypeOK
  <1>3. Retries!LoggedIsStarted /\ Numbered /\ LastExists
    BY <1>1 DEF Retries!LoggedIsStarted, Numbered, LastExists, Retries!RetriesOf
  <1>4. WaitsForLast /\ LogIsShort /\ CallbackIsPlugin /\ Retries!AlwaysGoesOn
    BY <1>1 DEF Retries!Init, WaitsForLast, Whole, LogIsShort, CallbackIsPlugin,
       Retries!AlwaysGoesOn
  <1> QED
    BY <1>2, <1>3, <1>4 DEF RetriesInv

LEMMA RetriesStep == ASSUME Meant, RetriesInv, [Retries!Next]_(Retries!vars) PROVE RetriesInv'
  <1>1. LogIsSound
    BY DEF RetriesInv, LogIsSound, Retries!TypeOK, LogEntry
  <1>2. LogIsSound' /\ Retries!TypeOK' /\ WaitsForLast' /\ LogIsShort'
    BY <1>1, LogStep, RetriesTypeStep, WaitsStep, ShortStep DEF RetriesInv
  <1>3. CallbackIsPlugin' /\ Retries!AlwaysGoesOn'
    BY CallbackStep, AlwaysStep DEF RetriesInv
  <1> QED
    BY <1>2, <1>3 DEF RetriesInv, LogIsSound

(* The inductive invariant holds in every reachable state.                 *)
LEMMA RetriesInductive == ASSUME Meant PROVE Retries!Spec => []RetriesInv
  BY RetriesInit, RetriesStep, PTL DEF Retries!Spec

LEMMA CountsTo == ASSUME NEW n \in Nat PROVE IsFiniteSet(1 .. n) /\ Cardinality(1 .. n) = n
  <1>1. IsFiniteSet(1 .. n) /\ Cardinality(1 .. n) = IF 1 > n THEN 0 ELSE n - 1 + 1
    BY FS_Interval
  <1> QED
    BY <1>1

(* Numbers that grow and stay within the limit count what they number.     *)
LEMMA LimitHolds == ASSUME Meant, RetriesInv PROVE Retries!WithinLimit
  <1> SUFFICES ASSUME NEW p \in Policies, p.mode = "normal"
      PROVE  Cardinality(Retries!RetriesOf(p.key)) <= p.max
    BY DEF Retries!WithinLimit, Retries!Cardinality, Cardinality
  <1> DEFINE R == Retries!RetriesOf(p.key)
             number == [i \in R |-> log[i].retry]
  <1>1. p.max \in Nat
    BY DEF Meant, Retries!PoliciesAreKeyed
  <1>2. /\ \A i \in R : i \in DOMAIN log /\ log[i].type = "retry" /\ log[i].key = p.key
        /\ DOMAIN log \subseteq Nat /\ \A i \in DOMAIN log : log[i].retry \in 1 .. MaxRequests
    <2>1. log \in Seq(LogEntry)
      BY DEF RetriesInv, Retries!TypeOK, LogEntry
    <2>2. \A i \in DOMAIN log : log[i] \in LogEntry
      BY <2>1
    <2>3. DOMAIN log \subseteq Nat
      BY <2>1
    <2> QED
      BY <2>2, <2>3 DEF Retries!RetriesOf, LogEntry
  <1>3. ASSUME NEW i \in R PROVE number[i] \in 1 .. p.max
    <2>1. number[i] = log[i].retry /\ log[i].retry <= p.max
      BY <1>2 DEF RetriesInv, Numbered
    <2> QED
      BY <1>1, <1>2, <2>1 DEF Meant
  <1>4. ASSUME NEW i \in R, NEW j \in R, number[i] = number[j] PROVE i = j
    <2>1. log[i].retry = log[j].retry
      BY <1>4
    <2>2. ~(i < j) /\ ~(j < i)
      <3>1. i < j => log[i].retry < log[j].retry
        BY <1>2 DEF RetriesInv, Numbered
      <3>2. j < i => log[j].retry < log[i].retry
        BY <1>2 DEF RetriesInv, Numbered
      <3> QED
        BY <1>2, <2>1, <3>1, <3>2 DEF Meant
    <2> QED
      BY <1>2, <2>2
  <1>5. number \in Injection(R, 1 .. p.max)
    BY <1>3, <1>4 DEF Injection, IsInjective
  <1>6. IsFiniteSet(1 .. p.max) /\ Cardinality(1 .. p.max) = p.max
    BY <1>1, CountsTo
  <1> QED
    <2> HIDE DEF number
    <2> QED
      BY <1>5, <1>6, FS_Injection

(* Every variable of a recovery has its type.                              *)
THEOREM RetriesTypeCorrect == ASSUME Meant PROVE Retries!Spec => []Retries!TypeOK
  <1>1. RetriesInv => Retries!TypeOK
    BY DEF RetriesInv
  <1> QED
    BY RetriesInductive, <1>1, PTL

(* Nothing is logged after the turn is cancelled, or by a plugin whose     *)
(* disposal has begun (backoff, llm-retry).                                *)
THEOREM NothingIsLoggedLate == ASSUME Meant
  PROVE Retries!Spec => [][Retries!LogsInTime]_(Retries!vars)
  <1>1. RetriesInv /\ [Retries!Next]_(Retries!vars) => [Retries!LogsInTime]_(Retries!vars)
    <2> SUFFICES ASSUME RetriesInv, Retries!Next, log' # log
        PROVE ~aborted /\ captured = "live" /\ plugin = "on"
      BY DEF Retries!LogsInTime
    <2>1. captured = "live" => plugin = "on"
      BY DEF RetriesInv, CallbackIsPlugin
    <2>2. CASE Retries!Enter
      BY <2>1, <2>2, EnterCases, RecoverCases DEF Retries!Cancelled
    <2>3. ASSUME ~Retries!Cancelled, at \in {"downstream", "delay"}
          PROVE ~aborted /\ captured = "live"
      BY <2>3 DEF Retries!Cancelled, RetriesInv, CallbackIsPlugin, Retries!TypeOK
    <2>4. ASSUME NEW a \in {"retry", "none"}, Retries!DownstreamSettles(a)
          PROVE ~Retries!Cancelled /\ at = "downstream"
      BY <2>4, DownstreamCases
    <2>5. CASE Retries!DelayEnds
      BY <2>1, <2>3, <2>5, DelayCases
    <2> QED
      BY <2>1, <2>2, <2>3, <2>4, <2>5 DEF Retries!Next, Retries!Settles, Retries!Succeed,
         Retries!Fail, Retries!Outside,
         Retries!NextSettles, Retries!Return, Retries!Abort,
         Retries!Dispose, Retries!Drained, Retries!Install
  <1> QED
    BY RetriesInductive, <1>1, PTL DEF Retries!Spec


(* The services as the run looks at them: a behaviour of MCServices is one *)
(* of the registry and one of the retries.                                 *)
LEMMA RetriesBehave == MCSpec => Retries!Spec
<1>1. MCInit => Retries!Init
  BY DEF MCInit
<1>2. [MCNext]_<<service, vars, retries>> => [Retries!Next]_(Retries!vars)
  BY DEF MCNext, retries, Retries!vars, Retries!request, Retries!life
<1> QED
  BY <1>1, <1>2, PTL DEF MCSpec, Retries!Spec

(* The same for the registry.                                              *)
LEMMA RegistryBehaves == MCSpec => Spec
<1>1. MCInit => Init
  BY DEF MCInit
<1>2. [MCNext]_<<service, vars, retries>> => [Next]_vars
  BY DEF MCNext
<1> QED
  BY <1>1, <1>2, PTL DEF MCSpec, Spec

(* In every behaviour that the run of the services looks at, a normal      *)
(* policy keeps its limit in a step, every logged retry is started unless  *)
(* it is the last of the installation that logged it, and an always policy *)
(* gives up only for the turn (recover, backoff, llm-retry).               *)
THEOREM RetriesStaySound == MCSpec => []RetriesAreSound
<1>1. RetriesInv => RetriesAreSound
  BY PoliciesAreMeant, LimitHolds DEF RetriesInv, Retries!RetriesAreSound, RetriesAreSound
<1> QED
  BY PoliciesAreMeant, RetriesInductive, RetriesBehave, <1>1, PTL

(* Neither service does anything late: a settlement is final and teardown  *)
(* quiet, and no retry is logged after its turn was cancelled or by a      *)
(* plugin that is being disposed (settle, recover).                        *)
THEOREM NothingStaysLate == MCSpec => NothingComesLate
<1>1. [KeepsSettlements]_vars => KeepsSettlements
  BY DEF KeepsSettlements, vars
<1>2. [Retries!LogsInTime]_(Retries!vars) => Retries!LogsInTime
  BY DEF Retries!LogsInTime, Retries!vars, Retries!request, Retries!life
<1> QED
  BY <1>1, <1>2, PoliciesAreMeant, NothingIsLoggedLate, RetriesBehave, RegistryBehaves,
     SettlementsAreKept, PTL DEF NothingComesLate
=============================================================================
