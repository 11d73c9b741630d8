---------------------- MODULE ColdPreparationProofs ----------------------
(***************************************************************************)
(* Proofs about ColdPreparation for any preparers, loaders and inspectors  *)
(* and any number of appends, foreign writes and queued operations: a      *)
(* preparation has one holder who can publish it, the cursor stands at the *)
(* end of the log, nobody waits for an entry that nobody settles, and no   *)
(* answer is older than the call that gets it.                             *)
(***************************************************************************)
EXTENDS ColdPreparation, TLAPS, SequenceTheorems, NaturalsInduction,
        WellFoundedInduction, FiniteSetTheorems

---------------------------------------------------------------------------
(* The inductive invariant.                                                *)

Writers == {"live", "api"}
EntryIds == Entries \cup {NoEntry}
Sources == [rev : Nat, len : Nat, damage : Damages]
EntryStates == [phase : {"absent", "loading", "ready", "committing", "reserved"},
                result : {"none", "pending", "ok", "failed"}, source : Sources]
Jobs == [op : {"read", "commit", "check", "append", "retire"}, who : Callers \cup Writers,
         entry : EntryIds, seq : Nat, n : Nat, dropped : BOOLEAN]
Runs == [step : {"rest", "queued", "next", "read", "adoptRead", "adopted", "compared",
                 "writing", "written"},
         source : Sources, current : BOOLEAN]
CallStates == [pc : {"idle", "outside", "passed", "loading", "committing", "checking",
                     "reserved", "holding", "answered"},
               entry : EntryIds,
               result : {"none", "committed", "outdated", "failed", "current", "borrowed"},
               since : Nat, got : Nat, aborted : BOOLEAN]

Typed ==
  /\ stored \in Sources /\ stored.rev > 0 /\ stored.len > 0
  /\ written \in [all : Nat, foreign : Nat]
  /\ state \in [cursor : Nat, owner : {"untracked", "none", "live"}]
  /\ pool \in EntryIds
  /\ entry \in [Entries -> EntryStates]
  /\ chain \in Seq(Jobs)
  /\ run \in Runs
  /\ call \in [Callers -> CallStates]
  /\ live \in {"absent", "live", "retiring", "lost"}
  /\ unsaved \in Nat

Grants(r) == r.pc \in {"reserved", "holding"} \/ (r.pc = "committing" /\ r.result = "committed")
Granting(c) == Grants(call[c])
Fresher(c) == Logical(entry[call[c].entry].source) >= call[c].since

\* What a caller knows of its entry, and what it was promised.
CallFits(c) ==
  /\ call[c].pc \in {"loading", "checking", "committing", "reserved", "holding"}
     <=> call[c].entry # NoEntry
  /\ call[c].result # "none" => call[c].pc \in {"committing", "checking", "answered"}
  /\ call[c].since <= Logical(stored)
  /\ call[c].pc \in {"checking", "committing", "reserved", "holding"}
     => entry[call[c].entry].result = "ok"
  /\ call[c].pc \in {"reserved", "holding"} => pool = call[c].entry
  /\ Granting(c) => Fresher(c)
  /\ Granting(c) /\ pool = call[c].entry
     => state.owner = "none" /\ state.cursor = entry[call[c].entry].source.len
  /\ call[c].pc = "checking" /\ call[c].result = "current" => Fresher(c)
  /\ call[c].pc = "checking" /\ call[c].result # "none" /\ pool = call[c].entry
     /\ written.foreign = 0 => Fresher(c)
  /\ call[c].pc = "answered" /\ (call[c].result = "borrowed" => written.foreign = 0)
     => call[c].got >= call[c].since

Asks(j) == j.op \in {"commit", "check"} /\ ~j.dropped

\* What a queued operation finds: its entry, and the caller that waits for it.
JobFits(j) ==
  /\ j.op \in {"read", "commit", "check"} => j.entry # NoEntry /\ j.who \in Callers
  /\ j.op \in {"append", "retire"} => j.entry = NoEntry /\ j.who \in Writers
  /\ j.op = "append" => j.n > 0
  /\ j.op = "retire" => j.who = "live"
  /\ j.dropped => j.op \in {"commit", "check"}
  /\ j.op = "read" => entry[j.entry].result = "pending" /\ entry[j.entry].phase = "loading"
  /\ j.op \in {"commit", "check"} => entry[j.entry].result = "ok"
  /\ Asks(j) => /\ call[j.who].pc = (IF j.op = "commit" THEN "committing" ELSE "checking")
                /\ call[j.who].result = "none"
                /\ call[j.who].entry = j.entry
  /\ j.who = "live" => /\ live \in {"live", "retiring"}
                       /\ j.op = "append" => j.n <= unsaved
                       /\ j.op = "retire" => live = "retiring"
  /\ j.op = "commit" /\ j.entry = pool => ~j.dropped

Clash(a, b) ==
  \/ a.op = "read" /\ b.op = "read" /\ a.entry = b.entry
  \/ Asks(a) /\ Asks(b) /\ a.who = b.who
  \/ a.who = "live" /\ b.who = "live"

Pairs == \A i, j \in DOMAIN chain : i # j => ~Clash(chain[i], chain[j])

\* What was queued for an entry that left the pool comes before the read of
\* the one that took its place.
InOrder ==
  \A i \in DOMAIN chain :
    chain[i].op = "commit" /\ pool # NoEntry /\ chain[i].entry # pool
    => \E j \in DOMAIN chain : j > i /\ chain[j].op = "read" /\ chain[j].entry = pool

Referenced(e) ==
  \/ pool = e
  \/ \E c \in Callers : call[c].entry = e
  \/ \E i \in DOMAIN chain : chain[i].entry = e

References ==
  \A e \in Entries :
    /\ entry[e].phase = "absent" => entry[e] = Blank /\ ~Referenced(e)
    /\ entry[e].phase # "absent" => entry[e].result # "none"

PoolFits ==
  /\ \A c \in Holders :
       entry[pool].phase = IF call[c].pc = "committing" THEN "committing" ELSE "reserved"
  /\ \A c, d \in Holders : c = d
  /\ pool # NoEntry =>
       /\ entry[pool].phase = "committing" => \E c \in Holders : call[c].pc = "committing"
       /\ entry[pool].phase = "reserved" => \E c \in Holders : call[c].pc # "committing"
       /\ entry[pool].phase = "loading" =>
            \E i \in DOMAIN chain : chain[i].op = "read" /\ chain[i].entry = pool
       /\ entry[pool].phase \in {"ready", "committing", "reserved"} => entry[pool].result = "ok"
       /\ live # "live"

Living ==
  /\ live = "absent" <=> state.owner # "live"
  /\ state.owner = "untracked" => state.cursor = 0

Steps == run.step \notin {"rest", "queued", "next"}

RunFits ==
  /\ chain = <<>> <=> run.step = "rest"
  /\ Steps => ~Head(chain).dropped
  /\ run.step = "read" => Head(chain).op = "read"
  /\ run.step \in {"adoptRead", "writing", "written"} => Head(chain).op = "append"
  /\ run.step \in {"adopted", "compared"} => Head(chain).op \in {"commit", "append"}
  /\ run.current => run.step = "compared"
  /\ Steps /\ Head(chain).op \in {"append", "commit"} => \A c \in Holders : ~Granting(c)
  /\ Steps /\ Head(chain).op = "commit" =>
       /\ state.owner # "live" /\ run.source = entry[Head(chain).entry].source
       /\ run.current => Logical(run.source) >= call[Head(chain).who].since
  /\ run.step \in {"adoptRead", "adopted", "compared"} /\ Head(chain).op = "append"
     => state.owner = "untracked"
  /\ run.step \in {"writing", "written"} => state.owner # "untracked"

Copies(s) == s.rev <= stored.rev /\ (s.rev = stored.rev => s = stored)
Copied == Copies(run.source) /\ \A e \in Entries : Copies(entry[e].source)

\* Without another process, what is read stays what is stored.
Alone ==
  written.foreign = 0 =>
    /\ run.step # "written" /\ pool # NoEntry /\ entry[pool].result = "ok"
       => Logical(entry[pool].source) = Logical(stored)
    /\ run.step = "read" \/ run.current => run.source = stored
    /\ run.step # "written" /\ (state.owner = "live" \/ \E c \in Holders : Granting(c))
       => state.cursor = stored.len
    /\ run.step = "written" /\ state.owner = "live"
       => state.cursor + Head(chain).n = stored.len

Calls == \A c \in Callers : CallFits(c)
Queue == \A i \in DOMAIN chain : JobFits(chain[i])

IInv == /\ Typed /\ Calls /\ Queue /\ Pairs /\ InOrder /\ References /\ PoolFits /\ Living
        /\ RunFits /\ Copied /\ Alone

---------------------------------------------------------------------------
(* Sequences, entries and what a step leaves alone.                        *)

(* A queue without its head: every other operation moves up by one.        *)
LEMMA TailFacts ==
  ASSUME NEW S, NEW s \in Seq(S), s # <<>>
  PROVE  /\ Len(s) \in Nat \ {0} /\ Head(s) = s[1] /\ s[1] \in S /\ Tail(s) \in Seq(S)
         /\ DOMAIN s = 1..Len(s) /\ DOMAIN Tail(s) = 1..(Len(s) - 1)
         /\ \A i \in DOMAIN Tail(s) : Tail(s)[i] = s[i + 1] /\ i + 1 \in DOMAIN s
         /\ Tail(s) = <<>> <=> Len(s) = 1
  <1>1. Len(s) \in Nat \ {0} /\ Head(s) = s[1] /\ DOMAIN s = 1..Len(s)
    OBVIOUS
  <1>2. Tail(s) \in Seq(S) /\ Len(Tail(s)) = Len(s) - 1
    OBVIOUS
  <1>3. s[1] \in S
    BY <1>1
  <1>4. \A i \in 1..Len(Tail(s)) : Tail(s)[i] = s[i + 1]
    BY HeadTailProperties
  <1>5. Tail(s) = <<>> <=> Len(s) = 1
    <2> DEFINE t == Tail(s)
    <2>1. t \in Seq(S) /\ Len(t) = Len(s) - 1
      BY <1>2
    <2> HIDE DEF t
    <2>2. t = <<>> <=> Len(t) = 0
      BY <2>1, EmptySeq
    <2>3. t = <<>> <=> Len(s) = 1
      BY <1>1, <2>1, <2>2
    <2> QED
      BY <2>3 DEF t
  <1> QED
    BY <1>1, <1>2, <1>3, <1>4, <1>5

(* A queue that grows keeps its operations in their places.                *)
LEMMA AppendFacts ==
  ASSUME NEW S, NEW s \in Seq(S), NEW x \in S
  PROVE  /\ Append(s, x) \in Seq(S) /\ Append(s, x) # <<>> /\ Len(s) \in Nat
         /\ DOMAIN s = 1..Len(s) /\ DOMAIN Append(s, x) = 1..(Len(s) + 1)
         /\ \A i \in DOMAIN s : Append(s, x)[i] = s[i] /\ i \in DOMAIN Append(s, x)
         /\ Append(s, x)[Len(s) + 1] = x
         /\ s # <<>> => Head(Append(s, x)) = Head(s)
         /\ s = <<>> => Head(Append(s, x)) = x
         /\ \A i \in DOMAIN Append(s, x) : i \in DOMAIN s \/ i = Len(s) + 1
  <1>1. Append(s, x) \in Seq(S) /\ Append(s, x) # <<>> /\ Len(Append(s, x)) = Len(s) + 1
    BY AppendProperties
  <1>2. \A i \in 1..Len(s) : Append(s, x)[i] = s[i]
    BY AppendProperties
  <1>3. Append(s, x)[Len(s) + 1] = x
    BY AppendProperties
  <1>4. Head(Append(s, x)) = IF s = <<>> THEN x ELSE Head(s)
    BY HeadTailAppend
  <1>5. Len(s) \in Nat /\ DOMAIN s = 1..Len(s) /\ DOMAIN Append(s, x) = 1..(Len(s) + 1)
    BY <1>1
  <1> QED
    BY <1>1, <1>2, <1>3, <1>4, <1>5

(* The entry that is installed is one that nothing refers to.              *)
LEMMA FreshIsFree ==
  ASSUME Free # {}
  PROVE  Fresh \in Free
  <1>1. Free \subseteq Nat
    <2>1. Cardinality(Callers) \in Nat
      BY CallersAssumption, FS_CardinalityType
    <2> QED
      BY <2>1 DEF Free, Entries
  <1> DEFINE R == OpToRel(<, Nat)
  <1>2. IsWellFoundedOn(R, Nat)
    BY NatLessThanWellFounded
  <1>3. \A x, y \in Nat : x < y => <<x, y>> \in R
    BY DEF OpToRel
  <1> HIDE DEF R
  <1>4. \E x \in Free : \A y \in Free : ~(<<y, x>> \in R)
    BY <1>1, <1>2, WFMin
  <1>5. PICK x \in Free : \A y \in Free : ~(<<y, x>> \in R)
    BY <1>4
  <1>6. ASSUME NEW y \in Free PROVE x <= y
    <2>1. x \in Nat /\ y \in Nat
      BY <1>1
    <2>2. ~(y < x)
      BY <2>1, <1>3, <1>5
    <2> QED
      BY <2>1, <2>2
  <1> QED
    BY <1>5, <1>6 DEF Fresh

(* What Kept leaves: the entries that are still referred to.               *)
LEMMA KeptIs ==
  ASSUME NEW f, entry' = Kept(f)
  PROVE  \A e \in Entries : entry'[e] = IF Referenced(e)' THEN f[e] ELSE Blank
  BY DEF Kept, Referenced

(* A blank entry is an entry.                                              *)
LEMMA BlankIsTyped == Blank \in EntryStates
  BY DEF Blank, EntryStates, NoSource, Sources, Damages

(* The entries stay typed when those that nobody refers to are dropped.    *)
LEMMA KeptIsTyped ==
  ASSUME NEW f, entry' = Kept(f), \A e \in Entries : f[e] \in EntryStates
  PROVE  entry' \in [Entries -> EntryStates]
  <1>1. entry' = [e \in Entries |-> IF Referenced(e)' THEN f[e] ELSE Blank]
    BY DEF Kept, Referenced
  <1> QED
    BY <1>1, BlankIsTyped

(* Nothing but a new call brings a forgotten entry back.                   *)
LEMMA StillReferenced ==
  ASSUME References, NEW f, entry' = Kept(f),
         \A e \in Entries : /\ f[e].phase = "absent" => entry[e].phase = "absent"
                            /\ f[e].phase # "absent" => f[e].result # "none"
                            /\ Referenced(e)' => Referenced(e)
  PROVE  References'
  <1>1. \A e \in Entries : entry'[e] = IF Referenced(e)' THEN f[e] ELSE Blank
    BY KeptIs
  <1>2. Blank.phase = "absent"
    BY DEF Blank
  <1> HIDE DEF Referenced
  <1>3. ASSUME NEW e \in Entries
        PROVE  /\ entry'[e].phase = "absent" => entry'[e] = Blank /\ ~Referenced(e)'
               /\ entry'[e].phase # "absent" => entry'[e].result # "none"
    BY <1>1, <1>2, <1>3 DEF References
  <1> QED
    BY <1>3 DEF References, Referenced

(* Whether an entry is new enough for a call is between the two.           *)
LEMMA FresherStays ==
  ASSUME NEW c, entry'[call'[c].entry].source = entry[call[c].entry].source,
         call'[c].since = call[c].since
  PROVE  Fresher(c)' <=> Fresher(c)
  BY DEF Fresher, Logical

(* A caller that a step does not touch keeps what it knows.                *)
LEMMA CallStays ==
  ASSUME NEW c \in Callers, Typed, CallFits(c), call'[c] = call[c],
         call[c].entry # NoEntry =>
           /\ entry'[call[c].entry].source = entry[call[c].entry].source
           /\ entry[call[c].entry].result = "ok" => entry'[call[c].entry].result = "ok",
         Logical(stored) <= Logical(stored)', Logical(stored)' \in Nat,
         written'.foreign = 0 => written.foreign = 0,
         pool' # pool => /\ pool' = NoEntry \/ pool' # call[c].entry
                         /\ call[c].pc \notin {"reserved", "holding"},
         Granting(c) /\ pool = call[c].entry => state' = state
  PROVE  CallFits(c)'
  <1>1. call[c].since \in Nat /\ Logical(stored) \in Nat
    BY DEF Typed, CallStates, Logical, Sources
  <1>2. Granting(c)' <=> Granting(c)
    BY DEF Granting, Grants
  <1>3. Granting(c) => call[c].entry # NoEntry
    BY DEF Granting, Grants, CallFits
  <1>4. call[c].entry # NoEntry => (Fresher(c)' <=> Fresher(c))
    BY DEF Fresher, Logical
  <1>5. call'[c].since <= Logical(stored)'
    BY <1>1 DEF CallFits
  <1>6. Granting(c)' /\ pool' = call'[c].entry
        => state'.owner = "none" /\ state'.cursor = entry'[call'[c].entry].source.len
    BY <1>2, <1>3 DEF CallFits
  <1>7. /\ Granting(c)' => Fresher(c)'
        /\ call'[c].pc = "checking" /\ call'[c].result = "current" => Fresher(c)'
        /\ call'[c].pc = "checking" /\ call'[c].result # "none" /\ pool' = call'[c].entry
           /\ written'.foreign = 0 => Fresher(c)'
    BY <1>2, <1>3, <1>4 DEF CallFits
  <1>8. /\ call'[c].pc \in {"loading", "checking", "committing", "reserved", "holding"}
           <=> call'[c].entry # NoEntry
        /\ call'[c].result # "none" => call'[c].pc \in {"committing", "checking", "answered"}
        /\ call'[c].pc \in {"checking", "committing", "reserved", "holding"}
           => entry'[call'[c].entry].result = "ok"
        /\ call'[c].pc \in {"reserved", "holding"} => pool' = call'[c].entry
        /\ call'[c].pc = "answered" /\ (call'[c].result = "borrowed" => written'.foreign = 0)
           => call'[c].got >= call'[c].since
    BY DEF CallFits
  <1> QED
    BY <1>5, <1>6, <1>7, <1>8 DEF CallFits

(* Nor does an operation lose what it finds.                               *)
LEMMA JobStays ==
  ASSUME NEW j, JobFits(j),
         j.op = "read" => /\ entry'[j.entry].result = entry[j.entry].result
                          /\ entry'[j.entry].phase = entry[j.entry].phase,
         j.op \in {"commit", "check"} /\ entry[j.entry].result = "ok"
           => entry'[j.entry].result = "ok",
         Asks(j) => /\ call'[j.who].pc = call[j.who].pc
                    /\ call'[j.who].result = call[j.who].result
                    /\ call'[j.who].entry = call[j.who].entry,
         j.who = "live" => /\ live' = live \/ (live' = "retiring" /\ live = "live")
                           /\ j.op = "append" => j.n <= unsaved',
         j.op = "commit" /\ pool' = j.entry => pool = j.entry
  PROVE  JobFits(j)'
  <1>1. Asks(j)' <=> Asks(j)
    BY DEF Asks
  <1> QED
    BY <1>1 DEF JobFits

(* Operations that do not clash stay so when the first one ends,           *)
LEMMA PairsTail ==
  ASSUME Typed, Pairs, chain # <<>>, chain' = Tail(chain)
  PROVE  Pairs'
  <1>1. \A i \in DOMAIN chain' : chain'[i] = chain[i + 1] /\ i + 1 \in DOMAIN chain /\ i \in Nat
    BY TailFacts DEF Typed
  <1>2. ASSUME NEW i \in DOMAIN chain', NEW j \in DOMAIN chain', i # j
        PROVE  ~Clash(chain'[i], chain'[j])
    <2>1. i + 1 # j + 1
      BY <1>1, <1>2
    <2> QED
      BY <1>1, <1>2, <2>1 DEF Pairs
  <1> QED
    BY <1>2 DEF Pairs, Clash, Asks

(* and when one is queued that clashes with none.                          *)
LEMMA PairsAppend ==
  ASSUME Typed, Pairs, NEW job \in Jobs, chain' = Append(chain, job),
         \A i \in DOMAIN chain : ~Clash(chain[i], job)
  PROVE  Pairs'
  <1>1. /\ \A i \in DOMAIN chain : chain'[i] = chain[i]
        /\ chain'[Len(chain) + 1] = job
        /\ \A i \in DOMAIN chain' : i \in DOMAIN chain \/ i = Len(chain) + 1
    BY AppendFacts DEF Typed
  <1>2. \A a, b : Clash(a, b) <=> Clash(b, a)
    BY DEF Clash
  <1>3. ASSUME NEW i \in DOMAIN chain', NEW j \in DOMAIN chain', i # j
        PROVE  ~Clash(chain'[i], chain'[j])
    <2>1. CASE i \in DOMAIN chain /\ j \in DOMAIN chain
      BY <2>1, <1>1, <1>3 DEF Pairs
    <2>2. CASE i \in DOMAIN chain /\ j = Len(chain) + 1
      BY <2>2, <1>1
    <2>3. CASE i = Len(chain) + 1 /\ j \in DOMAIN chain
      BY <2>3, <1>1, <1>2
    <2> QED
      BY <1>1, <1>3, <2>1, <2>2, <2>3
  <1> QED
    BY <1>3 DEF Pairs, Clash, Asks

(* The order of the queue, when its head is done and the pool keeps its    *)
(* entry or gives it up,                                                   *)
LEMMA InOrderTail ==
  ASSUME Typed, InOrder, chain # <<>>, chain' = Tail(chain), pool' = pool \/ pool' = NoEntry
  PROVE  InOrder'
  <1>1. /\ \A i \in DOMAIN chain' : chain'[i] = chain[i + 1] /\ i + 1 \in DOMAIN chain
        /\ DOMAIN chain' = 1..(Len(chain) - 1) /\ DOMAIN chain = 1..Len(chain)
        /\ Len(chain) \in Nat
    BY TailFacts DEF Typed
  <1> SUFFICES ASSUME NEW i \in DOMAIN chain', chain'[i].op = "commit", pool' # NoEntry,
                      chain'[i].entry # pool'
               PROVE  \E j \in DOMAIN chain' :
                        j > i /\ chain'[j].op = "read" /\ chain'[j].entry = pool'
    BY DEF InOrder
  <1>2. PICK j \in DOMAIN chain : j > i + 1 /\ chain[j].op = "read" /\ chain[j].entry = pool
    BY <1>1 DEF InOrder
  <1>3. j - 1 \in DOMAIN chain' /\ j - 1 > i /\ chain'[j - 1] = chain[j]
    <2>1. j \in Nat /\ j \in 1..Len(chain) /\ i \in Nat
      BY <1>1
    <2>2. j - 1 \in DOMAIN chain' /\ j - 1 > i /\ (j - 1) + 1 = j
      BY <1>1, <1>2, <2>1
    <2> QED
      BY <1>1, <2>2
  <1> QED
    BY <1>2, <1>3

(* and when an operation is queued, a commit for the pooled entry only.    *)
LEMMA InOrderAppend ==
  ASSUME Typed, InOrder, NEW job \in Jobs, chain' = Append(chain, job),
         pool' = pool \/ pool' = NoEntry,
         job.op = "commit" => job.entry = pool'
  PROVE  InOrder'
  <1>1. /\ \A i \in DOMAIN chain : chain'[i] = chain[i] /\ i \in DOMAIN chain'
        /\ chain'[Len(chain) + 1] = job
        /\ \A i \in DOMAIN chain' : i \in DOMAIN chain \/ i = Len(chain) + 1
    BY AppendFacts DEF Typed
  <1> SUFFICES ASSUME NEW i \in DOMAIN chain', chain'[i].op = "commit", pool' # NoEntry,
                      chain'[i].entry # pool'
               PROVE  \E j \in DOMAIN chain' :
                        j > i /\ chain'[j].op = "read" /\ chain'[j].entry = pool'
    BY DEF InOrder
  <1>2. i \in DOMAIN chain /\ chain[i].op = "commit" /\ chain[i].entry # pool
    BY <1>1
  <1> QED
    BY <1>1, <1>2 DEF InOrder

(* An empty pool promises nothing.                                         *)
LEMMA PoolGone ==
  ASSUME pool' = NoEntry
  PROVE  PoolFits' /\ InOrder'
  BY DEF PoolFits, InOrder, Holders, InPool

(* The pooled entry keeps its phase, its holder and its read.              *)
LEMMA PoolStays ==
  ASSUME PoolFits, pool' = pool,
         pool # NoEntry => /\ entry'[pool].phase = entry[pool].phase
                           /\ entry[pool].result = "ok" => entry'[pool].result = "ok"
                           /\ live' # "live",
         \A c \in Callers : /\ c \in Holders' <=> c \in Holders
                            /\ c \in Holders => (call'[c].pc = "committing"
                                                 <=> call[c].pc = "committing"),
         \A i \in DOMAIN chain : chain[i].op = "read" /\ chain[i].entry = pool
           => \E j \in DOMAIN chain' : chain'[j].op = "read" /\ chain'[j].entry = pool
  PROVE  PoolFits'
  <1>1. \A c : c \in Holders => c \in Callers
    BY DEF Holders
  <1>2. \A c : c \in Holders' => c \in Callers
    BY DEF Holders
  <1>3. \A c \in Holders' : c \in Holders
    BY <1>2
  <1>4. \A c \in Holders : c \in Holders'
    BY <1>1
  <1> HIDE DEF Holders
  <1>5. \A c, d \in Holders' : c = d
    BY <1>3 DEF PoolFits
  <1>6. \A c \in Holders' :
          entry'[pool'].phase = IF call'[c].pc = "committing" THEN "committing" ELSE "reserved"
    <2>1. ASSUME NEW c \in Holders'
          PROVE  entry'[pool'].phase = IF call'[c].pc = "committing" THEN "committing"
                                       ELSE "reserved"
      <3>1. c \in Holders /\ c \in Callers /\ pool # NoEntry
        BY <1>1, <1>3, <2>1 DEF Holders, InPool
      <3> QED
        BY <3>1 DEF PoolFits
    <2> QED
      BY <2>1
  <1>7. ASSUME pool' # NoEntry
        PROVE  /\ entry'[pool'].phase = "committing"
                    => \E c \in Holders' : call'[c].pc = "committing"
               /\ entry'[pool'].phase = "reserved"
                    => \E c \in Holders' : call'[c].pc # "committing"
               /\ entry'[pool'].phase = "loading" =>
                    \E i \in DOMAIN chain' : chain'[i].op = "read" /\ chain'[i].entry = pool'
               /\ entry'[pool'].phase \in {"ready", "committing", "reserved"}
                    => entry'[pool'].result = "ok"
               /\ live' # "live"
    <2>1. entry'[pool'].phase = "committing" => \E c \in Holders' : call'[c].pc = "committing"
      BY <1>1, <1>4, <1>7 DEF PoolFits
    <2>2. entry'[pool'].phase = "reserved" => \E c \in Holders' : call'[c].pc # "committing"
      BY <1>1, <1>4, <1>7 DEF PoolFits
    <2>3. entry'[pool'].phase = "loading" =>
            \E i \in DOMAIN chain' : chain'[i].op = "read" /\ chain'[i].entry = pool'
      BY <1>7 DEF PoolFits
    <2> QED
      BY <1>7, <2>1, <2>2, <2>3 DEF PoolFits
  <1> QED
    BY <1>5, <1>6, <1>7 DEF PoolFits

(* The running operation, when the queue only grows behind it.             *)
LEMMA RunStays ==
  ASSUME Typed, RunFits, run' = run, chain' # <<>> <=> chain # <<>>,
         chain # <<>> => Head(chain').op = Head(chain).op
                         /\ Head(chain').who = Head(chain).who
                         /\ Head(chain').entry = Head(chain).entry,
         Steps => Head(chain').dropped = Head(chain).dropped,
         Steps /\ Head(chain).op = "commit" =>
           /\ entry'[Head(chain).entry].source = entry[Head(chain).entry].source
           /\ call'[Head(chain).who].since = call[Head(chain).who].since,
         (Steps /\ Head(chain).op = "commit") \/ run.step \in {"adoptRead", "adopted", "compared",
                                                                   "writing", "written"}
           => state' = state,
         Steps => \A c \in Callers : c \in Holders' /\ Granting(c)' => c \in Holders /\ Granting(c)
  PROVE  RunFits'
  <1>1. Steps' <=> Steps
    BY DEF Steps
  <1>2. Steps => chain # <<>>
    BY DEF RunFits, Steps
  <1>3. \A c : c \in Holders' => c \in Callers
    BY DEF Holders
  <1> HIDE DEF Holders, Granting
  <1>4. Steps' /\ Head(chain').op \in {"append", "commit"} => \A c \in Holders' : ~Granting(c)'
    BY <1>1, <1>2, <1>3 DEF RunFits
  <1>5. Steps' /\ Head(chain').op = "commit" =>
          /\ state'.owner # "live" /\ run'.source = entry'[Head(chain').entry].source
          /\ run'.current => Logical(run'.source) >= call'[Head(chain').who].since
    BY <1>1, <1>2 DEF RunFits, Logical
  <1>6. /\ run'.step \in {"adoptRead", "adopted", "compared"} /\ Head(chain').op = "append"
           => state'.owner = "untracked"
        /\ run'.step \in {"writing", "written"} => state'.owner # "untracked"
    BY <1>2 DEF RunFits, Steps
  <1> QED
    BY <1>1, <1>2, <1>4, <1>5, <1>6 DEF RunFits, Steps

(* An operation ends.                                                      *)
LEMMA RunNext ==
  ASSUME Typed, chain # <<>>, Dequeue
  PROVE  /\ RunFits' /\ chain' = Tail(chain) /\ chain' \in Seq(Jobs) /\ run' \in Runs
         /\ run'.step \in {"rest", "next"} /\ ~run'.current /\ run'.source = NoSource
  <1>1. chain' = Tail(chain) /\ (Tail(chain) = <<>> <=> Len(chain) = 1) /\ chain' \in Seq(Jobs)
    BY TailFacts DEF Typed, Dequeue
  <1>2. run' = Rest \/ run' = [Rest EXCEPT !.step = "next"]
    BY DEF Dequeue
  <1>3. run' \in Runs /\ ~run'.current /\ run'.source = NoSource
    <2>1. NoSource \in Sources
      BY DEF NoSource, Sources, Damages
    <2>2. /\ Rest \in Runs /\ ~Rest.current /\ Rest.source = NoSource
          /\ [Rest EXCEPT !.step = "next"] \in Runs
      BY <2>1 DEF Rest, Runs
    <2> QED
      BY <1>2, <2>2 DEF Rest
  <1>4. run'.step \in {"rest", "next"} /\ (run'.step = "rest" <=> chain' = <<>>)
    BY <1>1 DEF Dequeue, Rest
  <1> QED
    BY <1>1, <1>3, <1>4 DEF RunFits, Steps

(* What a step that touches neither the log nor the cursor leaves of the   *)
(* promises about a log that only this process writes.                     *)
LEMMA AloneStays ==
  ASSUME Alone, stored' = stored, written'.foreign = written.foreign,
         \/ state' = state
         \/ /\ state'.owner # "live" /\ run'.step # "written"
            /\ \A c \in Callers : c \in Holders' => ~Granting(c)',
         pool' = pool \/ pool' = NoEntry,
         pool' # NoEntry /\ entry'[pool].result = "ok" =>
           entry[pool].result = "ok" /\ entry'[pool].source = entry[pool].source,
         \/ run' = run /\ (run.step = "written" => Head(chain').n = Head(chain).n)
         \/ run.step # "written" /\ run'.step \notin {"read", "written"} /\ ~run'.current,
         \A c \in Callers : c \in Holders' /\ Granting(c)' => c \in Holders /\ Granting(c)
  PROVE  Alone'
  <1>1. \A c : c \in Holders' => c \in Callers
    BY DEF Holders
  <1> HIDE DEF Holders, Granting
  <1>2. /\ (\E c \in Holders' : Granting(c)') => \E c \in Holders : Granting(c)
        /\ state' # state => /\ state'.owner # "live" /\ run'.step # "written"
                             /\ ~\E c \in Holders' : Granting(c)'
    BY <1>1
  <1>3. /\ run'.step = "read" \/ run'.current => run' = run
        /\ run'.step = "written" => run.step = "written" /\ run' = run
        /\ run'.step # "written" => run.step # "written"
    OBVIOUS
  <1> SUFFICES ASSUME written'.foreign = 0 PROVE Alone'
    BY DEF Alone
  <1>5. run'.step # "written" /\ pool' # NoEntry /\ entry'[pool'].result = "ok"
        => Logical(entry'[pool'].source) = Logical(stored')
    BY <1>3 DEF Alone, Logical
  <1>6. run'.step = "read" \/ run'.current => run'.source = stored'
    BY <1>3 DEF Alone
  <1>7. run'.step # "written" /\ (state'.owner = "live" \/ \E c \in Holders' : Granting(c)')
        => state'.cursor = stored'.len
    BY <1>2, <1>3 DEF Alone
  <1>8. run'.step = "written" /\ state'.owner = "live"
        => state'.cursor + Head(chain').n = stored'.len
    BY <1>2, <1>3 DEF Alone
  <1> QED
    BY <1>5, <1>6, <1>7, <1>8 DEF Alone, Logical

---------------------------------------------------------------------------
(* The operations of the chain.                                            *)

(* Entries are as before where something refers to them.                   *)
LEMMA EntriesKept ==
  ASSUME Typed, entry' = Kept(entry)
  PROVE  /\ entry' \in [Entries -> EntryStates]
         /\ \A e \in Entries : Referenced(e)' => entry'[e] = entry[e]
         /\ \A e \in Entries : entry'[e] = entry[e] \/ entry'[e] = Blank
  <1>1. \A e \in Entries : entry'[e] = IF Referenced(e)' THEN entry[e] ELSE Blank
    BY KeptIs
  <1>2. entry' \in [Entries -> EntryStates]
    <2>1. \A e \in Entries : entry[e] \in EntryStates
      BY DEF Typed
    <2> QED
      BY <2>1, KeptIsTyped
  <1> QED
    BY <1>1, <1>2

(* Nothing that is forgotten hides a newer log.                            *)
LEMMA CopiedStays ==
  ASSUME Typed, Copied, stored' = stored,
         run'.source = run.source \/ run'.source = NoSource
           \/ (\E e \in Entries : run'.source = entry[e].source) \/ run'.source = stored,
         \A e \in Entries : \/ entry'[e].source = entry[e].source
                            \/ entry'[e] = Blank
                            \/ entry'[e].source = run.source
  PROVE  Copied'
  <1>1. Copies(NoSource) /\ Copies(stored)
    BY DEF Copies, NoSource, Typed, Sources
  <1>2. Copies(run.source)'
    BY <1>1 DEF Copied, Copies
  <1>3. ASSUME NEW e \in Entries PROVE Copies(entry[e].source)'
    BY <1>1, <1>3 DEF Copied, Copies, Blank
  <1> QED
    BY <1>2, <1>3 DEF Copied, Copies

(* An operation other than a read ends: what it leaves to show are its own *)
(* caller and what it says of the cursor.                                  *)
LEMMA OperationEnds ==
  ASSUME IInv, chain # <<>>, Dequeue, entry' = Kept(entry), stored' = stored, written' = written,
         Head(chain).op # "read",
         state' \in [cursor : Nat, owner : {"untracked", "none", "live"}],
         call' \in [Callers -> CallStates], unsaved' \in Nat,
         live' \in {"absent", "live", "retiring", "lost"},
         pool' = pool \/ pool' = NoEntry, live' = live \/ live' # "live",
         \A c \in Callers :
           \/ call'[c] = call[c]
           \/ /\ c = Head(chain).who /\ Asks(Head(chain))
              /\ call'[c].pc = call[c].pc /\ call'[c].entry = call[c].entry,
         Head(chain).who = "live" \/ (live' = live /\ unsaved' = unsaved),
         (state' = state /\ pool' = pool) \/ \A c \in Holders : ~Granting(c)
  PROVE  /\ Typed' /\ Queue' /\ Pairs' /\ InOrder' /\ References' /\ PoolFits' /\ RunFits'
         /\ Copied'
         /\ \A c \in Callers : call'[c] = call[c] => CallFits(c)'
         /\ \A e \in Entries : Referenced(e)' => entry'[e] = entry[e]
         /\ run'.step \in {"rest", "next"} /\ ~run'.current
  <1>1. /\ RunFits' /\ chain' = Tail(chain) /\ chain' \in Seq(Jobs) /\ run' \in Runs
        /\ run'.step \in {"rest", "next"} /\ ~run'.current /\ run'.source = NoSource
    BY RunNext DEF IInv
  <1>2. /\ entry' \in [Entries -> EntryStates]
        /\ \A e \in Entries : Referenced(e)' => entry'[e] = entry[e]
        /\ \A e \in Entries : entry'[e] = entry[e] \/ entry'[e] = Blank
    BY EntriesKept DEF IInv
  <1>3. Typed'
    BY <1>1, <1>2 DEF IInv, Typed, EntryIds
  <1>4. \A i \in DOMAIN chain' : chain'[i] = chain[i + 1] /\ i + 1 \in DOMAIN chain /\ i + 1 # 1
    BY <1>1, TailFacts DEF IInv, Typed
  <1>5. /\ chain[1] = Head(chain) /\ 1 \in DOMAIN chain
        /\ \A i \in DOMAIN chain : chain[i] \in Jobs
    BY TailFacts DEF IInv, Typed
  <1>6. \A c \in Callers : call'[c].entry = call[c].entry /\ call'[c].pc = call[c].pc
    OBVIOUS
  <1>7. \A e \in Entries : Referenced(e)' => Referenced(e)
    BY <1>4, <1>6 DEF Referenced, Entries, NoEntry
  <1>8. References'
    BY <1>7, StillReferenced DEF IInv, References
  <1>9. Pairs' /\ InOrder'
    BY <1>1, PairsTail, InOrderTail DEF IInv
  <1>10. Copied'
    BY <1>1, <1>2, CopiedStays DEF IInv
  <1>11. \A c \in Callers : call[c].entry # NoEntry
           => call[c].entry \in Entries /\ Referenced(call[c].entry)'
    BY <1>6 DEF IInv, Typed, CallStates, EntryIds, Referenced
  <1>12. ASSUME NEW c \in Callers, call'[c] = call[c]
         PROVE  CallFits(c)'
    <2>1. CallFits(c) /\ Typed
      BY DEF IInv, Calls
    <2>2. call[c].entry # NoEntry => entry'[call[c].entry] = entry[call[c].entry]
      BY <1>2, <1>11
    <2>3. Logical(stored)' = Logical(stored) /\ Logical(stored) \in Nat
      BY <2>1 DEF Logical, Typed, Sources
    <2>4. /\ call[c].pc \in {"reserved", "holding"} => c \in Holders /\ Granting(c)
          /\ Granting(c) /\ pool = call[c].entry => c \in Holders
      BY <2>1 DEF Holders, Granting, Grants, InPool, CallFits
    <2>5. Granting(c) /\ pool = call[c].entry => state' = state
      BY <2>4
    <2>6. pool' # pool => pool' = NoEntry /\ call[c].pc \notin {"reserved", "holding"}
      BY <2>4
    <2> QED
      BY <1>12, <2>1, <2>2, <2>3, <2>5, <2>6, CallStays
  <1>13. ASSUME NEW i \in DOMAIN chain'
         PROVE  JobFits(chain[i])'
    <2>0. PICK j : j = chain[i + 1]
      OBVIOUS
    <2>1. chain'[i] = j /\ i + 1 \in DOMAIN chain /\ j \in Jobs /\ JobFits(j)
      BY <1>4, <1>5, <2>0 DEF IInv, Queue
    <2>2. ~Clash(Head(chain), j)
      BY <1>4, <1>5, <2>0, <2>1 DEF IInv, Pairs
    <2>3. j.entry # NoEntry => entry'[j.entry] = entry[j.entry]
      BY <1>2, <1>13, <2>1 DEF Jobs, EntryIds, Referenced
    <2>4. Asks(j) => call'[j.who] = call[j.who] /\ j.who \in Callers
      BY <2>1, <2>2 DEF Clash, JobFits, Asks
    <2>5. j.who = "live" => live' = live /\ unsaved' = unsaved
      BY <2>2 DEF Clash
    <2>6. j.op = "commit" /\ pool' = j.entry => pool = j.entry
      BY <2>1 DEF JobFits
    <2>7. JobFits(j)'
      <3>1. j.op \in {"read", "commit", "check"} => j.entry # NoEntry
        BY <2>1 DEF JobFits
      <3>2. j.who = "live" /\ j.op = "append" => j.n <= unsaved'
        BY <2>1, <2>5 DEF JobFits
      <3> QED
        BY <2>1, <2>3, <2>4, <2>5, <2>6, <3>1, <3>2, JobStays
    <2> QED
      BY <2>1, <2>7 DEF JobFits, Asks
  <1>14. PoolFits'
    <2>1. CASE pool' = NoEntry
      BY <2>1, PoolGone
    <2>2. CASE pool' = pool /\ pool # NoEntry
      <3>1. entry'[pool] = entry[pool] /\ live' # "live"
        BY <1>2, <2>2 DEF IInv, PoolFits, Referenced, Typed, EntryIds
      <3>2. \A c \in Callers : c \in Holders' <=> c \in Holders
        BY <1>6, <2>2 DEF Holders, InPool
      <3>3. ASSUME NEW i \in DOMAIN chain, chain[i].op = "read", chain[i].entry = pool
            PROVE  \E k \in DOMAIN chain' : chain'[k].op = "read" /\ chain'[k].entry = pool
        <4>1. i # 1
          BY <1>5, <3>3
        <4>2. i - 1 \in DOMAIN chain' /\ (i - 1) + 1 = i
          BY <1>1, <4>1, TailFacts DEF IInv, Typed
        <4> QED
          BY <1>4, <3>3, <4>2
      <3> QED
        BY <1>6, <2>2, <3>1, <3>2, <3>3, PoolStays DEF IInv
    <2> QED
      BY <2>1, <2>2
  <1> QED
    BY <1>1, <1>2, <1>3, <1>8, <1>9, <1>10, <1>12, <1>13, <1>14 DEF Queue

(* An append is refused, whatever it did before.                           *)
LEMMA RefusedKeeps ==
  ASSUME IInv, chain # <<>>, Head(chain).op = "append", AppendRefused, UNCHANGED storeVars,
         run.step # "written", state' \in [cursor : Nat, owner : {"untracked", "none", "live"}],
         \/ state' = state
         \/ /\ state.owner = "untracked" /\ state'.owner = "none"
            /\ \A c \in Holders : ~Granting(c)
  PROVE  IInv'
  <1>1. /\ chain # <<>> /\ Dequeue /\ entry' = Kept(entry) /\ pool' = pool /\ call' = call
        /\ unsaved' = unsaved /\ stored' = stored /\ written' = written
        /\ live' = IF Head(chain).who = "live" /\ live = "retiring" THEN "lost" ELSE live
    BY DEF AppendRefused, storeVars
  <1>2. /\ Typed' /\ Queue' /\ Pairs' /\ InOrder' /\ References' /\ PoolFits' /\ RunFits'
        /\ Copied'
        /\ \A c \in Callers : call'[c] = call[c] => CallFits(c)'
        /\ \A e \in Entries : Referenced(e)' => entry'[e] = entry[e]
        /\ run'.step \in {"rest", "next"} /\ ~run'.current
    <2>1. /\ state' \in [cursor : Nat, owner : {"untracked", "none", "live"}]
          /\ call' \in [Callers -> CallStates] /\ unsaved' \in Nat
          /\ live' \in {"absent", "live", "retiring", "lost"}
          /\ live' = live \/ live' # "live"
      BY <1>1 DEF IInv, Typed
    <2> QED
      BY <1>1, <2>1, OperationEnds
  <1>3. Calls'
    BY <1>1, <1>2 DEF Calls
  <1>4. 1 \in DOMAIN chain /\ Head(chain) = chain[1]
    BY TailFacts DEF IInv, Typed
  <1>5. Living'
    <2>1. Head(chain).who = "live" => live \in {"live", "retiring"}
      BY <1>4 DEF IInv, Queue, JobFits
    <2> QED
      BY <1>1, <2>1 DEF IInv, Living
  <1>6. Alone'
    <2>1. \A c : (c \in Holders' <=> c \in Holders) /\ (Granting(c)' <=> Granting(c))
      BY <1>1 DEF Holders, InPool, Granting
    <2>2. pool' # NoEntry => entry'[pool] = entry[pool]
      BY <1>1, <1>2 DEF IInv, Typed, EntryIds, Referenced
    <2>3. \/ state' = state
          \/ state'.owner # "live" /\ \A c \in Callers : c \in Holders' => ~Granting(c)'
      BY <2>1
    <2>4. run'.step \notin {"read", "written"} /\ ~run'.current
      BY <1>2
    <2> HIDE DEF Holders, Granting
    <2> QED
      BY <1>1, <2>1, <2>2, <2>3, <2>4, AloneStays DEF IInv
  <1> QED
    BY <1>2, <1>3, <1>5, <1>6 DEF IInv

(* What of an ended operation shows at its caller: a result that grants    *)
(* nothing.                                                                *)
LEMMA OutcomeKeeps ==
  ASSUME IInv, chain # <<>>, Dequeue, entry' = Kept(entry),
         UNCHANGED <<storeVars, state, liveVars, pool>>, Head(chain).op # "read",
         run.step # "written",
         \/ call' = call
         \/ \E r \in {"failed", "outdated", "current"} :
              /\ call' = [call EXCEPT ![Head(chain).who].result = r]
              /\ Asks(Head(chain))
              /\ r = "failed" => Head(chain).op = "commit"
              /\ r = "current" => Head(chain).op = "check" /\ Fresher(Head(chain).who)
              /\ r = "outdated" /\ Head(chain).op = "check" /\ pool = Head(chain).entry
                   /\ written.foreign = 0 => Fresher(Head(chain).who)
  PROVE  IInv'
  <1>1. /\ stored' = stored /\ written' = written /\ state' = state /\ live' = live
        /\ unsaved' = unsaved /\ pool' = pool
    BY DEF storeVars, liveVars
  <1>2. /\ 1 \in DOMAIN chain /\ Head(chain) = chain[1] /\ chain[1] \in Jobs
        /\ JobFits(Head(chain))
    BY TailFacts DEF IInv, Typed, Queue
  <1>3. Asks(Head(chain)) =>
          /\ Head(chain).who \in Callers /\ call[Head(chain).who].result = "none"
          /\ call[Head(chain).who].entry = Head(chain).entry
          /\ Head(chain).entry # NoEntry
          /\ call[Head(chain).who].pc = (IF Head(chain).op = "commit"
                                         THEN "committing" ELSE "checking")
    BY <1>2 DEF JobFits, Asks
  <1>4. ASSUME NEW r \in {"failed", "outdated", "current"}, Asks(Head(chain)),
               call' = [call EXCEPT ![Head(chain).who].result = r]
        PROVE  /\ call' \in [Callers -> CallStates]
               /\ \A c \in Callers : c # Head(chain).who => call'[c] = call[c]
               /\ call'[Head(chain).who] = [call[Head(chain).who] EXCEPT !.result = r]
    <2> DEFINE w == Head(chain).who
    <2>1. w \in Callers /\ call \in [Callers -> CallStates] /\ call[w] \in CallStates
      BY <1>3, <1>4 DEF IInv, Typed
    <2>2. [call[w] EXCEPT !.result = r] \in CallStates
      BY <2>1 DEF CallStates
    <2>3. call' = [call EXCEPT ![w] = [call[w] EXCEPT !.result = r]]
      BY <1>4
    <2> HIDE DEF w
    <2>4. /\ call' \in [Callers -> CallStates]
          /\ \A c \in Callers : c # w => call'[c] = call[c]
          /\ call'[w] = [call[w] EXCEPT !.result = r]
      BY <2>1, <2>2, <2>3
    <2> QED
      BY <2>4 DEF w
  <1>5. /\ call' \in [Callers -> CallStates]
        /\ \A c \in Callers :
             \/ call'[c] = call[c]
             \/ /\ c = Head(chain).who /\ Asks(Head(chain))
                /\ call'[c].pc = call[c].pc /\ call'[c].entry = call[c].entry
                /\ call'[c].since = call[c].since /\ call'[c].got = call[c].got
                /\ call'[c].result \in {"failed", "outdated", "current"}
    <2>1. CASE call' = call
      BY <2>1 DEF IInv, Typed
    <2>2. CASE call' # call
      <3>1. PICK r \in {"failed", "outdated", "current"} :
              call' = [call EXCEPT ![Head(chain).who].result = r] /\ Asks(Head(chain))
        BY <2>2
      <3>2. /\ call' \in [Callers -> CallStates]
            /\ \A c \in Callers : c # Head(chain).who => call'[c] = call[c]
            /\ call'[Head(chain).who] = [call[Head(chain).who] EXCEPT !.result = r]
        BY <1>4, <3>1
      <3>3. call[Head(chain).who] \in CallStates
        BY <1>3, <3>1 DEF IInv, Typed
      <3> QED
        BY <3>1, <3>2, <3>3 DEF CallStates
    <2> QED
      BY <2>1, <2>2
  <1>6. /\ Typed' /\ Queue' /\ Pairs' /\ InOrder' /\ References' /\ PoolFits' /\ RunFits'
        /\ Copied'
        /\ \A c \in Callers : call'[c] = call[c] => CallFits(c)'
        /\ \A e \in Entries : Referenced(e)' => entry'[e] = entry[e]
        /\ run'.step \in {"rest", "next"} /\ ~run'.current
    <2>1. /\ state' \in [cursor : Nat, owner : {"untracked", "none", "live"}]
          /\ unsaved' \in Nat /\ live' \in {"absent", "live", "retiring", "lost"}
      BY <1>1 DEF IInv, Typed
    <2>2. \A c \in Callers :
           \/ call'[c] = call[c]
           \/ /\ c = Head(chain).who /\ Asks(Head(chain))
              /\ call'[c].pc = call[c].pc /\ call'[c].entry = call[c].entry
      BY <1>5
    <2> QED
      BY <1>1, <1>5, <2>1, <2>2, OperationEnds
  <1>7. \A c \in Callers : (c \in Holders' <=> c \in Holders) /\ (Granting(c)' => Granting(c))
    <2>1. ASSUME NEW c \in Callers PROVE (c \in Holders' <=> c \in Holders)
      BY <1>1, <1>5 DEF Holders, InPool
    <2>2. ASSUME NEW c \in Callers PROVE Granting(c)' => Granting(c)
      BY <1>5 DEF Granting, Grants
    <2> QED
      BY <2>1, <2>2
  <1>8. Alone'
    <2>1. pool' # NoEntry => entry'[pool] = entry[pool]
      BY <1>1, <1>6 DEF IInv, Typed, EntryIds, Referenced
    <2> HIDE DEF Holders, Granting
    <2> QED
      BY <1>1, <1>6, <1>7, <2>1, AloneStays DEF IInv
  <1>9. ASSUME NEW c \in Callers, call'[c] # call[c]
        PROVE  CallFits(c)'
    <2>1. /\ c = Head(chain).who /\ Asks(Head(chain)) /\ CallFits(c)
          /\ call[c].entry # NoEntry /\ entry'[call[c].entry] = entry[call[c].entry]
      BY <1>3, <1>5, <1>6, <1>9 DEF IInv, Calls, Typed, CallStates, EntryIds, Referenced
    <2>2. PICK r \in {"failed", "outdated", "current"} :
              /\ call' = [call EXCEPT ![Head(chain).who].result = r]
              /\ r = "failed" => Head(chain).op = "commit"
              /\ r = "current" => Head(chain).op = "check" /\ Fresher(Head(chain).who)
              /\ r = "outdated" /\ Head(chain).op = "check" /\ pool = Head(chain).entry
                   /\ written.foreign = 0 => Fresher(Head(chain).who)
      BY <1>9
    <2>3. call'[c] = [call[c] EXCEPT !.result = r] /\ call[c] \in CallStates
      BY <1>4, <2>1, <2>2 DEF IInv, Typed
    <2>4. /\ call'[c].pc = call[c].pc /\ call'[c].entry = call[c].entry
          /\ call'[c].since = call[c].since /\ call'[c].result = r
      BY <2>3 DEF CallStates
    <2>5. Fresher(c)' <=> Fresher(c)
      <3>1. entry'[call'[c].entry].source = entry[call[c].entry].source
        BY <2>1, <2>4
      <3> QED
        BY ONLY <2>4, <3>1, FresherStays
    <2>6. /\ call'[c].pc = (IF Head(chain).op = "commit"
                                         THEN "committing" ELSE "checking")
          /\ Head(chain).op \in {"commit", "check"}
      BY <1>3, <2>1, <2>4 DEF Asks
    <2>7. ~Granting(c)'
      BY <2>4, <2>6 DEF Granting, Grants
    <2>8. Logical(stored)' = Logical(stored)
      BY <1>1 DEF Logical
    <2>9. /\ call'[c].pc = "checking" /\ call'[c].result = "current" => Fresher(c)'
          /\ call'[c].pc = "checking" /\ call'[c].result # "none" /\ pool' = call'[c].entry
             /\ written'.foreign = 0 => Fresher(c)'
      <3>1. call'[c].pc = "checking" => Head(chain).op = "check"
        BY <2>6
      <3>2. call'[c].entry = Head(chain).entry
        BY <1>3, <2>1, <2>4
      <3> QED
        BY <1>1, <2>1, <2>2, <2>4, <2>5, <3>1, <3>2
    <2> QED
      BY <1>1, <2>1, <2>4, <2>6, <2>7, <2>8, <2>9 DEF CallFits
  <1>10. Calls'
    BY <1>6, <1>9 DEF Calls
  <1>11. Living'
    BY <1>1 DEF IInv, Living
  <1> QED
    BY <1>6, <1>8, <1>10, <1>11 DEF IInv

(* The running operation goes on, or what is stored moves on.              *)
LEMMA StorageMoves ==
  ASSUME IInv, UNCHANGED <<state, pool, entry, chain, call, liveVars>>,
         stored' \in Sources, stored'.len > 0, stored' = stored \/ stored'.rev > stored.rev,
         Logical(stored)' >= Logical(stored),
         written' \in [all : Nat, foreign : Nat], written'.foreign = 0 => written.foreign = 0,
         run' \in Runs, run'.source = stored \/ Copies(run'.source),
         RunFits', Alone'
  PROVE  IInv'
  <1>1. /\ state' = state /\ pool' = pool /\ entry' = entry /\ chain' = chain /\ call' = call
        /\ live' = live /\ unsaved' = unsaved
    BY DEF liveVars
  <1>2. stored.rev \in Nat /\ stored'.rev \in Nat /\ stored.rev > 0
    BY DEF IInv, Typed, Sources
  <1>3. Typed'
    BY <1>1, <1>2 DEF IInv, Typed
  <1>4. Copied'
    <2>1. \A s \in Sources : Copies(s) =>
            s.rev <= stored'.rev /\ (s.rev = stored'.rev => s = stored')
      BY <1>2 DEF Copies, Sources
    <2>2. run'.source \in Sources /\ \A e \in Entries : entry[e].source \in Sources
      BY DEF IInv, Typed, Runs, EntryStates
    <2>3. Copies(stored)
      BY <1>2 DEF Copies
    <2>4. \A e \in Entries : Copies(entry[e].source)
      BY DEF IInv, Copied
    <2>5. Copies(run.source)'
      BY <2>1, <2>2, <2>3 DEF Copies
    <2>6. \A e \in Entries : Copies(entry[e].source)'
      BY <1>1, <2>1, <2>2, <2>4 DEF Copies
    <2> QED
      BY <2>5, <2>6 DEF Copied
  <1>5. ASSUME NEW c \in Callers PROVE CallFits(c)'
    <2>1. CallFits(c) /\ Typed /\ Logical(stored)' \in Nat
      BY <1>3 DEF IInv, Calls, Typed, Logical, Sources
    <2>2. Logical(stored) <= Logical(stored)'
      BY <2>1 DEF Typed, Logical, Sources
    <2> QED
      BY <1>1, <2>1, <2>2, CallStays
  <1>6. ASSUME NEW i \in DOMAIN chain' PROVE JobFits(chain[i])'
    BY <1>1 DEF IInv, Queue, JobFits, Asks
  <1>7. Pairs' /\ InOrder' /\ Living'
    BY <1>1 DEF IInv, Pairs, Clash, Asks, InOrder, Living
  <1>8. References'
    BY <1>1 DEF IInv, References, Referenced
  <1>9. PoolFits'
    BY <1>1 DEF IInv, PoolFits, Holders, InPool
  <1> QED
    BY <1>3, <1>4, <1>5, <1>6, <1>7, <1>8, <1>9 DEF IInv, Calls, Queue

(* The head of the queue and what it finds.                                *)
LEMMA HeadFacts ==
  ASSUME IInv, chain # <<>>
  PROVE  /\ 1 \in DOMAIN chain /\ Head(chain) = chain[1] /\ Head(chain) \in Jobs
         /\ JobFits(Head(chain))
         /\ Asks(Head(chain)) =>
              /\ Head(chain).who \in Callers /\ Head(chain).entry \in Entries
              /\ call[Head(chain).who].result = "none"
              /\ call[Head(chain).who].entry = Head(chain).entry
              /\ call[Head(chain).who].pc
                   = (IF Head(chain).op = "commit"
                                         THEN "committing" ELSE "checking")
  <1>1. /\ 1 \in DOMAIN chain /\ Head(chain) = chain[1] /\ Head(chain) \in Jobs
        /\ JobFits(Head(chain))
    BY TailFacts DEF IInv, Typed, Queue
  <1> QED
    BY <1>1 DEF JobFits, Asks, Jobs, EntryIds

(* The backend reads the log for an entry.                                 *)
LEMMA ReadStoredKeeps == ASSUME IInv, ReadStored PROVE IInv'
  <1>1. /\ chain # <<>> /\ UNCHANGED <<state, pool, entry, chain, call, liveVars>>
        /\ stored' = stored /\ written' = written
        /\ run' = [step |-> IF Head(chain).op = "read" THEN "read" ELSE "adopted",
                   source |-> stored, current |-> FALSE]
        /\ ~Head(chain).dropped
        /\ \/ Head(chain).op = "read" /\ run.step \in {"queued", "next"}
           \/ Head(chain).op = "append" /\ run.step = "adoptRead"
    BY DEF ReadStored, Starting, Running, storeVars, IInv, RunFits, Steps
  <1>2. stored \in Sources /\ stored.len > 0 /\ Logical(stored) \in Nat
    BY DEF IInv, Typed, Logical, Sources
  <1>3. run' \in Runs
    BY <1>1, <1>2 DEF Runs
  <1>4. /\ pool' = pool /\ entry' = entry /\ chain' = chain /\ call' = call /\ state' = state
    BY <1>1
  <1>5. \A c : (c \in Holders' <=> c \in Holders) /\ (Granting(c)' <=> Granting(c))
    BY <1>4 DEF Holders, InPool, Granting
  <1>6. RunFits'
    <2> HIDE DEF Holders, Granting
    <2>1. Head(chain).op = "append" => \A c \in Holders' : ~Granting(c)'
      BY <1>1, <1>5 DEF IInv, RunFits, Steps
    <2> QED
      BY <1>1, <1>4, <2>1 DEF IInv, RunFits, Steps
  <1>7. Alone'
    <2> HIDE DEF Holders, Granting
    <2> QED
      BY <1>1, <1>4, <1>5 DEF IInv, Alone, Logical
  <1>8. Logical(stored)' >= Logical(stored)
    BY <1>1, <1>2 DEF Logical
  <1> QED
    BY <1>1, <1>2, <1>3, <1>6, <1>7, <1>8, StorageMoves DEF IInv, Typed

(* The revision is read again before a repair.                             *)
LEMMA ReadRevisionKeeps == ASSUME IInv, ReadRevision PROVE IInv'
  <1>1. /\ UNCHANGED <<state, pool, entry, chain, call, liveVars>>
        /\ stored' = stored /\ written' = written /\ run.step = "adopted"
        /\ run' = [run EXCEPT !.step = "compared", !.current = (stored.rev = run.source.rev)]
    BY DEF ReadRevision, storeVars
  <1>2. /\ stored \in Sources /\ stored.len > 0 /\ Logical(stored) \in Nat
        /\ run \in Runs
    BY DEF IInv, Typed, Logical, Sources
  <1>3. /\ run' \in Runs /\ run'.step = "compared" /\ run'.source = run.source
        /\ run'.current = (stored.rev = run.source.rev)
    BY <1>1, <1>2 DEF Runs
  <1>4. /\ pool' = pool /\ entry' = entry /\ chain' = chain /\ call' = call /\ state' = state
    BY <1>1
  <1>5. \A c : (c \in Holders' <=> c \in Holders) /\ (Granting(c)' <=> Granting(c))
    BY <1>4 DEF Holders, InPool, Granting
  <1>6. Copies(run.source)
    BY DEF IInv, Copied
  <1>7. run'.current => run.source = stored
    BY <1>3, <1>6 DEF Copies
  <1>8. RunFits'
    <2> HIDE DEF Holders, Granting
    <2>1. /\ chain # <<>> /\ ~Head(chain).dropped /\ Head(chain).op \in {"commit", "append"}
          /\ \A c \in Holders' : ~Granting(c)'
      BY <1>1, <1>5 DEF IInv, RunFits, Steps
    <2>2. Head(chain).op = "commit" =>
            /\ state.owner # "live" /\ run.source = entry[Head(chain).entry].source
            /\ run'.current => Logical(run.source) >= call[Head(chain).who].since
      <3>1. Head(chain).op = "commit" => Head(chain).who \in Callers
        BY <2>1, HeadFacts DEF Asks
      <3>2. \A c \in Callers : call[c].since <= Logical(stored) /\ call[c].since \in Nat
        BY DEF IInv, Calls, CallFits, Typed, CallStates
      <3>3. Head(chain).op = "commit" => Logical(stored) >= call[Head(chain).who].since
        BY <1>2, <3>1, <3>2
      <3> QED
        BY <1>1, <1>7, <3>3 DEF IInv, RunFits, Steps
    <2>3. Head(chain).op = "append" => state.owner = "untracked"
      BY <1>1 DEF IInv, RunFits
    <2> QED
      BY <1>1, <1>3, <1>4, <2>1, <2>2, <2>3 DEF IInv, RunFits, Steps, Logical
  <1>9. Alone'
    <2> HIDE DEF Holders, Granting
    <2> QED
      BY <1>1, <1>3, <1>4, <1>5, <1>7 DEF IInv, Alone, Logical
  <1>10. Logical(stored)' >= Logical(stored)
    BY <1>1, <1>2 DEF Logical
  <1> QED
    BY <1>1, <1>2, <1>3, <1>6, <1>8, <1>9, <1>10, StorageMoves DEF IInv, Typed

(* The repair is written.                                                  *)
LEMMA CommitRepairKeeps == ASSUME IInv, CommitRepair PROVE IInv'
  <1>1. /\ UNCHANGED <<state, pool, entry, chain, call, liveVars>> /\ written' = written
        /\ run.step = "compared" /\ run' = [run EXCEPT !.current = FALSE]
        /\ stored' = [rev |-> stored.rev + 1, len |-> Logical(stored), damage |-> "none"]
    BY DEF CommitRepair, Mends
  <1>2. /\ stored \in Sources /\ stored.len > 0 /\ Logical(stored) \in Nat
        /\ Logical(stored) > 0 /\ run \in Runs
    BY DEF IInv, Typed, Logical, Sources
  <1>3. /\ run' \in Runs /\ run'.step = "compared" /\ run'.source = run.source
        /\ run'.current = FALSE
    BY <1>1, <1>2 DEF Runs
  <1>4. /\ stored' \in Sources /\ stored'.len > 0 /\ stored'.rev > stored.rev
        /\ Logical(stored)' = Logical(stored)
    BY <1>1, <1>2 DEF Sources, Damages, Logical
  <1>5. /\ pool' = pool /\ entry' = entry /\ chain' = chain /\ call' = call /\ state' = state
    BY <1>1
  <1>6. \A c : (c \in Holders' <=> c \in Holders) /\ (Granting(c)' <=> Granting(c))
    BY <1>5 DEF Holders, InPool, Granting
  <1>7. /\ state.owner # "live" /\ \A c \in Holders : ~Granting(c)
    BY <1>1 DEF IInv, RunFits, Steps
  <1>8. RunFits'
    <2> HIDE DEF Holders, Granting
    <2> QED
      BY <1>1, <1>3, <1>5, <1>6 DEF IInv, RunFits, Steps
  <1>9. Alone'
    <2> HIDE DEF Holders, Granting
    <2>1. ASSUME written.foreign = 0, pool # NoEntry, entry[pool].result = "ok"
          PROVE  Logical(entry[pool].source)' = Logical(stored)'
      <3>1. Logical(entry[pool].source) = Logical(stored)
        BY <1>1, <2>1 DEF IInv, Alone
      <3> QED
        BY <1>4, <1>5, <3>1 DEF Logical
    <2> QED
      BY <1>1, <1>3, <1>5, <1>6, <1>7, <2>1 DEF Alone
  <1>10. Copies(run'.source)
    BY <1>3 DEF IInv, Copied
  <1>11. Logical(stored)' >= Logical(stored)
    BY <1>2, <1>4
  <1> QED
    BY <1>1, <1>3, <1>4, <1>8, <1>9, <1>10, <1>11, StorageMoves DEF IInv, Typed

(* An append lands, with a repair in front of it.                          *)
LEMMA WriteLandsKeeps == ASSUME IInv, WriteLands PROVE IInv'
  <1>1. /\ UNCHANGED <<state, pool, entry, chain, call, liveVars>> /\ written' = written
        /\ chain # <<>> /\ Head(chain).op = "append" /\ run.step = "writing"
        /\ run' = [run EXCEPT !.step = "written"]
    BY DEF WriteLands, Running
  <1>2. PICK damage \in {"none", "open"} :
          stored' = [rev |-> stored.rev + 1, len |-> stored.len + Head(chain).n,
                     damage |-> damage]
    BY DEF WriteLands
  <1>3. /\ stored \in Sources /\ stored.len > 0 /\ Logical(stored) \in Nat
        /\ Logical(stored) <= stored.len + 1 /\ run \in Runs
    BY DEF IInv, Typed, Logical, Sources
  <1>4. Head(chain).n \in Nat /\ Head(chain).n > 0
    BY <1>1, HeadFacts DEF Jobs, JobFits
  <1>5. /\ stored' \in Sources /\ stored'.len > 0 /\ stored'.rev > stored.rev
        /\ Logical(stored)' \in Nat /\ Logical(stored)' >= stored.len + Head(chain).n
    BY <1>2, <1>3, <1>4 DEF Sources, Damages, Logical
  <1>6. Logical(stored)' >= Logical(stored)
    BY <1>3, <1>4, <1>5 DEF Sources
  <1>7. /\ run' \in Runs /\ run'.step = "written" /\ run'.source = run.source
        /\ run'.current = run.current /\ run.current = FALSE
    BY <1>1, <1>3 DEF Runs, IInv, RunFits
  <1>8. /\ pool' = pool /\ entry' = entry /\ chain' = chain /\ call' = call /\ state' = state
    BY <1>1
  <1>9. \A c : (c \in Holders' <=> c \in Holders) /\ (Granting(c)' <=> Granting(c))
    BY <1>8 DEF Holders, InPool, Granting
  <1>10. RunFits'
    <2> HIDE DEF Holders, Granting
    <2> QED
      BY <1>1, <1>7, <1>8, <1>9 DEF IInv, RunFits, Steps
  <1>11. Alone'
    <2> HIDE DEF Holders, Granting
    <2>1. written.foreign = 0 /\ state.owner = "live" => state.cursor = stored.len
      BY <1>1 DEF IInv, Alone
    <2>2. stored'.len = stored.len + Head(chain).n
      BY <1>2
    <2> QED
      BY <1>1, <1>7, <1>8, <2>1, <2>2 DEF Alone
  <1>12. Copies(run'.source)
    BY <1>7 DEF IInv, Copied
  <1> QED
    BY <1>1, <1>5, <1>6, <1>7, <1>10, <1>11, <1>12, StorageMoves DEF IInv, Typed

(* Another process writes.                                                 *)
LEMMA ForeignWriteKeeps == ASSUME IInv, ForeignWrite PROVE IInv'
  <1>1. /\ UNCHANGED <<state, pool, entry, chain, call, liveVars>> /\ run' = run
        /\ written' = [all |-> written.all + 1, foreign |-> written.foreign + 1]
    BY DEF ForeignWrite
  <1>2. PICK damage \in Damages :
          stored' = [rev |-> stored.rev + 1, len |-> Logical(stored) + 1, damage |-> damage]
    BY DEF ForeignWrite
  <1>3. /\ stored \in Sources /\ Logical(stored) \in Nat /\ run \in Runs
        /\ written \in [all : Nat, foreign : Nat]
    BY DEF IInv, Typed, Logical, Sources
  <1>4. /\ stored' \in Sources /\ stored'.len > 0 /\ stored'.rev > stored.rev
        /\ Logical(stored)' >= Logical(stored)
    BY <1>2, <1>3 DEF Sources, Logical
  <1>5. written' \in [all : Nat, foreign : Nat] /\ written'.foreign # 0
    BY <1>1, <1>3
  <1>6. /\ pool' = pool /\ entry' = entry /\ chain' = chain /\ call' = call /\ state' = state
    BY <1>1
  <1>7. RunFits'
    BY <1>1, <1>6 DEF IInv, RunFits, Steps, Holders, InPool, Granting, Logical
  <1>8. Alone'
    BY <1>5 DEF Alone
  <1>9. Copies(run'.source)
    BY <1>1 DEF IInv, Copied
  <1> QED
    BY <1>1, <1>3, <1>4, <1>5, <1>7, <1>8, <1>9, StorageMoves

(* A commit that has just started is for a caller that waits: no grant is  *)
(* in force, whatever the pool holds by now.                               *)
LEMMA CommitIsAlone ==
  ASSUME IInv, chain # <<>>, Head(chain).op = "commit", ~Head(chain).dropped
  PROVE  \A c \in Holders : ~Granting(c)
  <1>1. /\ 1 \in DOMAIN chain /\ Head(chain) = chain[1] /\ Head(chain).who \in Callers
        /\ call[Head(chain).who].pc = "committing" /\ call[Head(chain).who].result = "none"
        /\ call[Head(chain).who].entry = Head(chain).entry
    BY HeadFacts DEF Asks
  <1> SUFFICES ASSUME NEW c \in Holders PROVE ~Granting(c)
    OBVIOUS
  <1>2. c \in Callers /\ pool # NoEntry
    BY DEF Holders, InPool
  <1>3. CASE Head(chain).entry = pool
    <2>1. Head(chain).who \in Holders
      BY <1>1, <1>2, <1>3 DEF Holders, InPool
    <2>2. c = Head(chain).who
      BY <2>1 DEF IInv, PoolFits
    <2> QED
      BY <1>1, <2>2 DEF Granting, Grants
  <1>4. CASE Head(chain).entry # pool
    <2>1. PICK j \in DOMAIN chain : chain[j].op = "read" /\ chain[j].entry = pool
      BY <1>1, <1>2, <1>4 DEF IInv, InOrder
    <2>2. entry[pool].phase = "loading"
      BY <2>1 DEF IInv, Queue, JobFits
    <2>3. entry[pool].phase # "loading"
      BY DEF IInv, PoolFits
    <2> QED
      BY <2>2, <2>3
  <1> QED
    BY <1>3, <1>4

(* The chain reaches a commit.                                             *)
LEMMA CommitStartsKeeps == ASSUME IInv, CommitStarts PROVE IInv'
  <1>1. /\ chain # <<>> /\ Head(chain).op = "commit" /\ ~Head(chain).dropped
        /\ run.step \in {"queued", "next"} /\ Asks(Head(chain))
        /\ UNCHANGED <<storeVars, state, liveVars>>
    BY DEF CommitStarts, Starting, Asks
  <1>2. CASE state.owner = "live"
    <2>1. /\ call' = [call EXCEPT ![Head(chain).who].result = "failed"]
          /\ Dequeue /\ pool' = pool /\ entry' = Kept(entry)
      BY <1>2 DEF CommitStarts
    <2>2. \E r \in {"failed", "outdated", "current"} :
              /\ call' = [call EXCEPT ![Head(chain).who].result = r]
              /\ Asks(Head(chain))
              /\ r = "failed" => Head(chain).op = "commit"
              /\ r = "current" => Head(chain).op = "check" /\ Fresher(Head(chain).who)
              /\ r = "outdated" /\ Head(chain).op = "check" /\ pool = Head(chain).entry
                   /\ written.foreign = 0 => Fresher(Head(chain).who)
      <3> WITNESS "failed" \in {"failed", "outdated", "current"}
      <3> QED
        BY <1>1, <2>1
    <2> QED
      BY <1>1, <2>1, <2>2, OutcomeKeeps
  <1>3. CASE state.owner # "live"
    <2>1. /\ run' = [run EXCEPT !.step = "adopted", !.source = entry[Head(chain).entry].source]
          /\ stored' = stored /\ written' = written
          /\ UNCHANGED <<state, pool, entry, chain, call, liveVars>>
      BY <1>1, <1>3 DEF CommitStarts, storeVars
    <2>2. /\ Head(chain).entry \in Entries /\ run \in Runs /\ stored \in Sources
          /\ entry[Head(chain).entry].source \in Sources /\ stored.len > 0
          /\ Logical(stored) \in Nat
      BY <1>1, HeadFacts DEF IInv, Typed, EntryStates, Logical, Sources
    <2>3. /\ run' \in Runs /\ run'.step = "adopted"
          /\ run'.source = entry[Head(chain).entry].source
          /\ run'.current = run.current /\ run.current = FALSE
      BY <1>1, <2>1, <2>2 DEF Runs, IInv, RunFits
    <2>4. /\ pool' = pool /\ entry' = entry /\ chain' = chain /\ call' = call /\ state' = state
      BY <2>1
    <2>5. \A c : (c \in Holders' <=> c \in Holders) /\ (Granting(c)' <=> Granting(c))
      BY <2>4 DEF Holders, InPool, Granting
    <2>6. RunFits'
      <3>1. \A c \in Holders : ~Granting(c)
        BY <1>1, CommitIsAlone
      <3> HIDE DEF Holders, Granting
      <3> QED
        BY <1>1, <1>3, <2>3, <2>4, <2>5, <3>1 DEF RunFits, Steps
    <2>7. Alone'
      <3> HIDE DEF Holders, Granting
      <3> QED
        BY <1>1, <2>1, <2>3, <2>4, <2>5 DEF IInv, Alone, Logical
    <2>8. Copies(run'.source) /\ Logical(stored)' >= Logical(stored)
      BY <2>1, <2>2, <2>3 DEF IInv, Copied, Logical
    <2> QED
      BY <2>1, <2>2, <2>3, <2>6, <2>7, <2>8, StorageMoves DEF IInv, Typed
  <1> QED
    BY <1>2, <1>3

(* The outcomes that grant nothing.                                        *)
LEMMA FailedKeeps ==
  ASSUME IInv, chain # <<>>, Dequeue, entry' = Kept(entry),
         UNCHANGED <<storeVars, state, liveVars, pool>>, Head(chain).op = "commit",
         ~Head(chain).dropped, run.step # "written",
         NEW r \in {"failed", "outdated"},
         call' = [call EXCEPT ![Head(chain).who].result = r]
  PROVE  IInv'
  <1>1. \E s \in {"failed", "outdated", "current"} :
              /\ call' = [call EXCEPT ![Head(chain).who].result = s]
              /\ Asks(Head(chain))
              /\ s = "failed" => Head(chain).op = "commit"
              /\ s = "current" => Head(chain).op = "check" /\ Fresher(Head(chain).who)
              /\ s = "outdated" /\ Head(chain).op = "check" /\ pool = Head(chain).entry
                   /\ written.foreign = 0 => Fresher(Head(chain).who)
    <2> WITNESS r \in {"failed", "outdated", "current"}
    <2> QED
      BY DEF Asks
  <1> QED
    BY <1>1, OutcomeKeeps

(* A repair fails.                                                         *)
LEMMA RepairFailsKeeps == ASSUME IInv, RepairFails PROVE IInv'
  <1>1. /\ run.step = "compared" /\ Head(chain).op = "commit"
        /\ call' = [call EXCEPT ![Head(chain).who].result = "failed"]
        /\ Dequeue /\ pool' = pool /\ entry' = Kept(entry)
        /\ UNCHANGED <<storeVars, state, liveVars>>
    BY DEF RepairFails, Mends
  <1>2. chain # <<>> /\ ~Head(chain).dropped
    BY <1>1 DEF IInv, RunFits, Steps
  <1> QED
    BY <1>1, <1>2, FailedKeeps

(* The chain reaches a dropped job.                                        *)
LEMMA DropStartsKeeps == ASSUME IInv, DropStarts PROVE IInv'
  <1>1. /\ chain # <<>> /\ Head(chain).dropped /\ run.step \in {"queued", "next"}
        /\ Dequeue /\ pool' = pool /\ call' = call /\ entry' = Kept(entry)
        /\ UNCHANGED <<storeVars, state, liveVars>>
    BY DEF DropStarts
  <1>2. Head(chain).op # "read"
    BY <1>1, HeadFacts DEF JobFits
  <1> QED
    BY <1>1, <1>2, OutcomeKeeps

(* A reuse is checked against the revision.                                *)
LEMMA CheckRevisionKeeps == ASSUME IInv, CheckRevision PROVE IInv'
  <1> DEFINE w == Head(chain).who
             r == IF stored.rev = entry[Head(chain).entry].source.rev
                  THEN "current" ELSE "outdated"
  <1>1. /\ chain # <<>> /\ Head(chain).op = "check" /\ ~Head(chain).dropped
        /\ run.step \in {"queued", "next"} /\ Asks(Head(chain))
        /\ call' = [call EXCEPT ![w].result = r]
        /\ Dequeue /\ pool' = pool /\ entry' = Kept(entry)
        /\ UNCHANGED <<storeVars, state, liveVars>>
    BY DEF CheckRevision, Starting, Asks
  <1>2. /\ w \in Callers /\ Head(chain).entry \in Entries
        /\ call[w].entry = Head(chain).entry
    BY <1>1, HeadFacts
  <1>3. call[w].since <= Logical(stored) /\ call[w].since \in Nat /\ Logical(stored) \in Nat
    BY <1>2 DEF IInv, Calls, CallFits, Typed, CallStates, Logical, Sources
  <1>4. r = "current" => Fresher(w)
    <2>1. r = "current" => entry[Head(chain).entry].source = stored
      BY <1>2 DEF IInv, Copied, Copies
    <2> QED
      BY <1>2, <1>3, <2>1 DEF Fresher
  <1>5. pool = Head(chain).entry /\ written.foreign = 0 => Fresher(w)
    <2>1. entry[Head(chain).entry].result = "ok" /\ Head(chain).entry # NoEntry
      BY <1>1, HeadFacts DEF JobFits
    <2>2. pool = Head(chain).entry /\ written.foreign = 0
          => Logical(entry[Head(chain).entry].source) = Logical(stored)
      BY <1>1, <2>1 DEF IInv, Alone
    <2> QED
      BY <1>2, <1>3, <2>2 DEF Fresher
  <1>6. r \in {"failed", "outdated", "current"} /\ r # "failed"
    OBVIOUS
  <1> HIDE DEF w, r
  <1>7. \E s \in {"failed", "outdated", "current"} :
              /\ call' = [call EXCEPT ![w].result = s]
              /\ Asks(Head(chain))
              /\ s = "failed" => Head(chain).op = "commit"
              /\ s = "current" => Head(chain).op = "check" /\ Fresher(w)
              /\ s = "outdated" /\ Head(chain).op = "check" /\ pool = Head(chain).entry
                   /\ written.foreign = 0 => Fresher(w)
    BY <1>1, <1>4, <1>5, <1>6
  <1> QED
    BY <1>1, <1>7, OutcomeKeeps DEF w

(* A commit settles its caller.                                            *)
LEMMA CommitEndsKeeps == ASSUME IInv, CommitEnds PROVE IInv'
  <1>0. PICK w : w = Head(chain).who
    OBVIOUS
  <1>1. /\ run.step = "compared" /\ ~Mends /\ Head(chain).op = "commit"
        /\ Dequeue /\ pool' = pool /\ entry' = Kept(entry)
        /\ UNCHANGED <<storeVars, liveVars>>
        /\ state' = IF run.current THEN [cursor |-> run.source.len, owner |-> "none"] ELSE state
        /\ call' = [call EXCEPT ![w].result = IF run.current THEN "committed" ELSE "outdated"]
    BY <1>0 DEF CommitEnds
  <1>2. /\ chain # <<>> /\ ~Head(chain).dropped /\ Steps /\ state.owner # "live"
        /\ \A c \in Holders : ~Granting(c)
        /\ run.source = entry[Head(chain).entry].source
        /\ run.current => Logical(run.source) >= call[w].since
    BY <1>0, <1>1 DEF IInv, RunFits, Steps
  <1>3. CASE ~run.current
    BY <1>0, <1>1, <1>2, <1>3, FailedKeeps
  <1>4. CASE run.current
    <2>1. /\ w \in Callers /\ call[w].pc = "committing" /\ call[w].entry = Head(chain).entry
          /\ Head(chain).entry \in Entries /\ Asks(Head(chain)) /\ call[w] \in CallStates
          /\ call[w].result = "none"
      BY <1>0, <1>1, <1>2, HeadFacts DEF Asks, IInv, Typed
    <2>2. /\ call' = [call EXCEPT ![w] = [call[w] EXCEPT !.result = "committed"]]
          /\ [call[w] EXCEPT !.result = "committed"] \in CallStates
      BY <1>1, <1>4, <2>1 DEF CallStates
    <2>3. /\ call' \in [Callers -> CallStates]
          /\ \A c \in Callers : c # w => call'[c] = call[c]
          /\ call'[w] = [call[w] EXCEPT !.result = "committed"]
      BY <2>1, <2>2 DEF IInv, Typed
    <2>4. /\ call'[w].pc = "committing" /\ call'[w].entry = call[w].entry
          /\ call'[w].since = call[w].since /\ call'[w].result = "committed"
      BY <2>1, <2>3 DEF CallStates
    <2>5. /\ state' = [cursor |-> run.source.len, owner |-> "none"]
          /\ state' \in [cursor : Nat, owner : {"untracked", "none", "live"}]
      BY <1>1, <1>4 DEF IInv, Typed, Runs, Sources
    <2>6. /\ Typed' /\ Queue' /\ Pairs' /\ InOrder' /\ References' /\ PoolFits' /\ RunFits'
          /\ Copied'
          /\ \A c \in Callers : call'[c] = call[c] => CallFits(c)'
          /\ \A e \in Entries : Referenced(e)' => entry'[e] = entry[e]
          /\ run'.step \in {"rest", "next"} /\ ~run'.current
      <3>1. /\ stored' = stored /\ written' = written /\ live' = live /\ unsaved' = unsaved
            /\ unsaved' \in Nat /\ live' \in {"absent", "live", "retiring", "lost"}
            /\ Head(chain).op # "read"
        BY <1>1 DEF storeVars, liveVars, IInv, Typed
      <3>2. \A c \in Callers :
             \/ call'[c] = call[c]
             \/ /\ c = Head(chain).who /\ Asks(Head(chain))
                /\ call'[c].pc = call[c].pc /\ call'[c].entry = call[c].entry
        <4>1. /\ w = Head(chain).who /\ Asks(Head(chain))
              /\ call'[w].pc = call[w].pc /\ call'[w].entry = call[w].entry
          BY <1>0, <2>1, <2>4
        <4> QED
          BY <2>3, <4>1
      <3> QED
        BY <1>1, <1>2, <2>3, <2>5, <3>1, <3>2, OperationEnds
    <2>7. entry'[call'[w].entry] = entry[call[w].entry] /\ call[w].entry # NoEntry
      BY <2>1, <2>4, <2>6 DEF Referenced, Entries, NoEntry
    <2>8. CallFits(w)'
      <3>1. Fresher(w)
        BY <1>2, <1>4, <2>1 DEF Fresher
      <3>2. Fresher(w)'
        BY <2>4, <2>7, <3>1, FresherStays
      <3>3. CallFits(w)
        BY <2>1 DEF IInv, Calls
      <3>4. call'[w].since <= Logical(stored)'
        BY <1>1, <2>4, <3>3 DEF CallFits, Logical, storeVars
      <3>5. state'.owner = "none" /\ state'.cursor = entry'[call'[w].entry].source.len
        BY <1>2, <2>1, <2>5, <2>7
      <3>6. entry'[call'[w].entry].result = "ok"
        BY <2>1, <2>7, <3>3 DEF CallFits
      <3> QED
        BY <2>1, <2>4, <2>7, <3>2, <3>4, <3>5, <3>6 DEF CallFits
    <2>9. Living'
      BY <1>1, <1>2, <2>5 DEF IInv, Living, liveVars
    <2>10. Alone'
      <3>1. stored' = stored /\ written' = written /\ pool' = pool
        BY <1>1 DEF storeVars
      <3>2. pool # NoEntry => entry'[pool] = entry[pool]
        BY <2>6, <3>1 DEF IInv, Typed, EntryIds, Referenced
      <3>3. written.foreign = 0 => run.source = stored
        BY <1>4 DEF IInv, Alone
      <3>4. written.foreign = 0 /\ pool # NoEntry /\ entry[pool].result = "ok"
            => Logical(entry[pool].source) = Logical(stored)
        BY <1>1 DEF IInv, Alone
      <3>5. written'.foreign = 0 /\ pool' # NoEntry /\ entry'[pool'].result = "ok"
            => Logical(entry[pool].source)' = Logical(stored)'
        BY <3>1, <3>2, <3>4 DEF Logical
      <3>6. written'.foreign = 0 => state'.cursor = stored'.len
        BY <2>5, <3>1, <3>3
      <3> QED
        BY <2>6, <3>5, <3>6 DEF Alone
    <2>11. Calls'
      BY <2>3, <2>6, <2>8 DEF Calls
    <2> QED
      BY <2>6, <2>9, <2>10, <2>11 DEF IInv
  <1> QED
    BY <1>3, <1>4

(* An append that takes over the preparation that nobody has reserved, or  *)
(* reads the log.                                                          *)
LEMMA AdoptKeeps ==
  ASSUME IInv, chain # <<>>, Head(chain).op = "append", ~Head(chain).dropped, Adopt,
         UNCHANGED <<storeVars, state>>, state.owner = "untracked", run.step # "written",
         \A c \in Holders : ~Granting(c)
  PROVE  IInv'
  <1>1. /\ stored' = stored /\ written' = written /\ state' = state /\ chain' = chain
        /\ call' = call /\ live' = live /\ unsaved' = unsaved /\ entry' = Kept(entry)
    BY DEF Adopt, storeVars
  <1>2. /\ pool' = pool \/ pool' = NoEntry
        /\ pool' # pool => entry[pool].phase = "ready"
        /\ run'.source = NoSource \/ \E e \in Entries : run'.source = entry[e].source
        /\ run'.step \in {"adopted", "adoptRead"} /\ ~run'.current /\ run' \in Runs
    <2>1. CASE pool # NoEntry /\ entry[pool].phase = "ready"
      <3>1. /\ pool' = NoEntry /\ pool \in Entries
            /\ run' = [step |-> "adopted", source |-> entry[pool].source, current |-> FALSE]
        BY <2>1 DEF Adopt, IInv, Typed, EntryIds
      <3>2. entry[pool].source \in Sources
        BY <3>1 DEF IInv, Typed, EntryStates
      <3> QED
        BY <2>1, <3>1, <3>2 DEF Runs
    <2>2. CASE ~(pool # NoEntry /\ entry[pool].phase = "ready")
      <3>1. pool' = pool /\ run' = [Rest EXCEPT !.step = "adoptRead"]
        BY <2>2 DEF Adopt
      <3>2. NoSource \in Sources
        BY DEF NoSource, Sources, Damages
      <3> QED
        BY <3>1, <3>2 DEF Rest, Runs
    <2> QED
      BY <2>1, <2>2
  <1>3. /\ entry' \in [Entries -> EntryStates]
        /\ \A e \in Entries : Referenced(e)' => entry'[e] = entry[e]
        /\ \A e \in Entries : entry'[e] = entry[e] \/ entry'[e] = Blank
    BY <1>1, EntriesKept DEF IInv
  <1>4. Typed'
    BY <1>1, <1>2, <1>3 DEF IInv, Typed, EntryIds
  <1>5. \A e \in Entries : Referenced(e)' => Referenced(e)
    BY <1>1, <1>2 DEF Referenced, Entries, NoEntry
  <1>6. References'
    BY <1>1, <1>5, StillReferenced DEF IInv, References
  <1>7. Copied'
    BY <1>1, <1>2, <1>3, CopiedStays DEF IInv
  <1>8. Pairs' /\ Living' /\ InOrder'
    BY <1>1, <1>2 DEF IInv, Pairs, Clash, Asks, Living, InOrder
  <1>9. \A c : (c \in Holders' => c \in Holders) /\ (Granting(c)' <=> Granting(c))
    BY <1>1, <1>2 DEF Holders, InPool, Granting
  <1>10. ASSUME NEW c \in Callers PROVE CallFits(c)'
    <2>1. CallFits(c) /\ Typed
      BY DEF IInv, Calls
    <2>2. call[c].entry # NoEntry => entry'[call[c].entry] = entry[call[c].entry]
      BY <1>1, <1>3, <2>1 DEF Typed, CallStates, EntryIds, Referenced
    <2>3. Logical(stored)' = Logical(stored) /\ Logical(stored) \in Nat
      BY <1>1, <2>1 DEF Logical, Typed, Sources
    <2>4. pool' # pool => call[c].pc \notin {"reserved", "holding"}
      <3>1. call[c].pc \in {"reserved", "holding"} => c \in Holders /\ Granting(c)
        BY <2>1 DEF CallFits, Holders, InPool, Granting, Grants
      <3> QED
        BY <3>1
    <2> QED
      BY <1>1, <1>2, <2>1, <2>2, <2>3, <2>4, CallStays
  <1>11. ASSUME NEW i \in DOMAIN chain' PROVE JobFits(chain[i])'
    <2>1. PICK j : j = chain[i]
      OBVIOUS
    <2>2. JobFits(j) /\ j \in Jobs /\ chain'[i] = j
      BY <1>1, <2>1 DEF IInv, Queue, Typed
    <2>3. j.entry # NoEntry => entry'[j.entry] = entry[j.entry]
      BY <1>1, <1>3, <1>11, <2>2 DEF Jobs, EntryIds, Referenced
    <2>4. JobFits(j)'
      BY <1>1, <1>2, <2>2, <2>3 DEF JobFits, Asks
    <2> QED
      BY <2>2, <2>4 DEF JobFits, Asks
  <1>12. PoolFits'
    <2>1. CASE pool' = NoEntry
      BY <2>1, PoolGone
    <2>2. CASE pool' = pool /\ pool # NoEntry
      <3>1. entry'[pool] = entry[pool] /\ live' # "live"
        BY <1>1, <1>3, <2>2 DEF IInv, PoolFits, Referenced, Typed, EntryIds
      <3>2. \A c \in Callers : c \in Holders' <=> c \in Holders
        BY <1>1, <2>2 DEF Holders, InPool
      <3> QED
        BY <1>1, <2>2, <3>1, <3>2, PoolStays DEF IInv
    <2> QED
      BY <1>2, <2>1, <2>2
  <1>13. RunFits'
    <2> HIDE DEF Holders, Granting
    <2>1. \A c \in Holders' : ~Granting(c)'
      BY <1>9
    <2> QED
      BY <1>1, <1>2, <2>1 DEF RunFits, Steps
  <1>14. Alone'
    <2>1. pool' # NoEntry => entry'[pool] = entry[pool]
      BY <1>2, <1>3 DEF IInv, Typed, EntryIds, Referenced
    <2> HIDE DEF Holders, Granting
    <2> QED
      BY <1>1, <1>2, <1>9, <2>1, AloneStays DEF IInv
  <1> QED
    BY <1>4, <1>6, <1>7, <1>8, <1>10, <1>11, <1>12, <1>13, <1>14 DEF IInv, Calls, Queue

(* An append that continues the cursor is written, any other is refused.   *)
LEMMA ContinuesKeeps ==
  ASSUME IInv, chain # <<>>, Head(chain).op = "append", ~Head(chain).dropped,
         NEW cursor, Continues(cursor), UNCHANGED storeVars, run.step # "written",
         state' \in [cursor : Nat, owner : {"none", "live"}],
         state' = state \/ (state.owner = "untracked" /\ state'.owner = "none"),
         \A c \in Holders : ~Granting(c)
  PROVE  IInv'
  <1>1. CASE Head(chain).seq # cursor
    BY <1>1, RefusedKeeps DEF Continues
  <1>2. CASE Head(chain).seq = cursor
    <2>1. /\ run' = [Rest EXCEPT !.step = "writing"]
          /\ UNCHANGED <<pool, entry, chain, call, live, unsaved>>
          /\ stored' = stored /\ written' = written
      BY <1>2 DEF Continues, storeVars
    <2>2. /\ pool' = pool /\ entry' = entry /\ chain' = chain /\ call' = call /\ live' = live
          /\ unsaved' = unsaved
      BY <2>1
    <2>3. /\ run' \in Runs /\ run'.step = "writing" /\ run'.source = NoSource /\ ~run'.current
      <3>1. NoSource \in Sources
        BY DEF NoSource, Sources, Damages
      <3> QED
        BY <2>1, <3>1 DEF Rest, Runs
    <2>4. Typed'
      BY <2>1, <2>2, <2>3 DEF IInv, Typed
    <2>5. \A c : (c \in Holders' <=> c \in Holders) /\ (Granting(c)' <=> Granting(c))
      BY <2>2 DEF Holders, InPool, Granting
    <2>6. Copied'
      BY <2>1, <2>2, <2>3, CopiedStays DEF IInv
    <2>7. Queue' /\ Pairs' /\ InOrder' /\ References' /\ PoolFits'
      <3>1. Queue' /\ Pairs' /\ InOrder'
        BY <2>2 DEF IInv, Queue, JobFits, Asks, Pairs, Clash, InOrder
      <3>2. References' /\ PoolFits'
        BY <2>2 DEF IInv, References, Referenced, PoolFits, Holders, InPool
      <3> QED
        BY <3>1, <3>2
    <2>8. Living'
      BY <2>2 DEF IInv, Living
    <2>9. RunFits'
      <3> HIDE DEF Holders, Granting
      <3> QED
        BY <2>2, <2>3, <2>5 DEF RunFits, Steps
    <2>10. Alone'
      <3>1. \A c \in Callers : c \in Holders' => ~Granting(c)'
        BY <2>5
      <3>2. state' = state \/ state'.owner # "live"
        OBVIOUS
      <3> HIDE DEF Holders, Granting
      <3> QED
        BY <2>1, <2>2, <2>3, <3>1, <3>2, AloneStays DEF IInv
    <2>11. ASSUME NEW c \in Callers PROVE CallFits(c)'
      <3>1. CallFits(c) /\ Typed
        BY DEF IInv, Calls
      <3>2. Logical(stored)' = Logical(stored) /\ Logical(stored) \in Nat
        BY <2>1, <3>1 DEF Logical, Typed, Sources
      <3>3. ~(Granting(c) /\ pool = call[c].entry)
        <4>1. Granting(c) /\ pool = call[c].entry => c \in Holders
          BY <3>1 DEF Holders, InPool, Granting, Grants, CallFits
        <4> QED
          BY <4>1
      <3> QED
        BY <2>1, <2>2, <3>1, <3>2, <3>3, CallStays
    <2> QED
      BY <2>4, <2>6, <2>7, <2>8, <2>9, <2>10, <2>11 DEF IInv, Calls
  <1> QED
    BY <1>1, <1>2

(* The chain reaches an append.                                            *)
LEMMA AppendStartsKeeps == ASSUME IInv, AppendStarts PROVE IInv'
  <1>1. /\ chain # <<>> /\ Head(chain).op = "append" /\ ~Head(chain).dropped
        /\ run.step \in {"queued", "next"} /\ UNCHANGED <<storeVars, state>>
        /\ UNCHANGED storeVars /\ state' = state
        /\ state \in [cursor : Nat, owner : {"untracked", "none", "live"}]
    BY DEF AppendStarts, Starting, IInv, Typed
  <1>2. CASE ~Writable
    BY <1>1, <1>2, RefusedKeeps DEF AppendStarts
  <1>3. CASE Writable
    <2>1. \A c \in Holders : ~Granting(c)
      BY <1>3 DEF Writable, IInv, PoolFits, Holders, InPool
    <2>2. CASE state = NoState
      <3>1. state.owner = "untracked" /\ Adopt
        BY <1>3, <2>2 DEF NoState, AppendStarts
      <3> QED
        BY <1>1, <2>1, <3>1, AdoptKeeps
    <2>3. CASE state # NoState
      <3>1. state.owner # "untracked"
        BY <1>1, <2>3 DEF IInv, Living, NoState
      <3>2. Continues(state.cursor) /\ state' \in [cursor : Nat, owner : {"none", "live"}]
        BY <1>1, <1>3, <2>3, <3>1 DEF AppendStarts
      <3> QED
        BY <1>1, <2>1, <3>2, ContinuesKeeps
    <2> QED
      BY <2>2, <2>3
  <1> QED
    BY <1>2, <1>3

(* An append adopts the log it finds.                                      *)
LEMMA AppendAdoptsKeeps == ASSUME IInv, AppendAdopts PROVE IInv'
  <1>1. /\ run.step = "compared" /\ Head(chain).op = "append" /\ UNCHANGED storeVars
        /\ chain # <<>> /\ ~Head(chain).dropped /\ state.owner = "untracked"
        /\ \A c \in Holders : ~Granting(c)
    BY DEF AppendAdopts, IInv, RunFits, Steps
  <1>2. CASE run.current
    <2>1. /\ state' = [cursor |-> run.source.len, owner |-> "none"]
          /\ Continues(run.source.len)
      BY <1>2 DEF AppendAdopts
    <2>2. state' \in [cursor : Nat, owner : {"none", "live"}]
      BY <2>1 DEF IInv, Typed, Runs, Sources
    <2>3. state'.owner = "none" /\ run.step # "written"
      BY <1>1, <2>1
    <2> QED
      BY <1>1, <2>1, <2>2, <2>3, ContinuesKeeps
  <1>3. CASE ~run.current
    <2>1. Adopt /\ UNCHANGED <<storeVars, state>>
      BY <1>3 DEF AppendAdopts
    <2> QED
      BY <1>1, <2>1, AdoptKeeps
  <1> QED
    BY <1>2, <1>3

(* A write fails.                                                          *)
LEMMA WriteFailsKeeps == ASSUME IInv, WriteFails PROVE IInv'
  <1>1. /\ chain # <<>> /\ Head(chain).op = "append" /\ run.step # "written" /\ AppendRefused
        /\ UNCHANGED storeVars /\ state' = state
    BY DEF WriteFails, Running, Mends, IInv, RunFits
  <1>2. state' \in [cursor : Nat, owner : {"untracked", "none", "live"}]
    BY <1>1 DEF IInv, Typed
  <1> QED
    BY <1>1, <1>2, RefusedKeeps

(* An append is over.                                                      *)
LEMMA AppendEndsKeeps == ASSUME IInv, AppendEnds PROVE IInv'
  <1>1. /\ chain # <<>> /\ Head(chain).op = "append" /\ run.step = "written"
        /\ state' = [state EXCEPT !.cursor = @ + Head(chain).n] /\ pool' = NoEntry
        /\ unsaved' = IF Head(chain).who = "live" THEN unsaved - Head(chain).n ELSE unsaved
        /\ Dequeue /\ call' = call /\ entry' = Kept(entry) /\ live' = live
        /\ stored' = stored /\ written' = written
    BY DEF AppendEnds, Running, storeVars
  <1>2. /\ \A c \in Holders : ~Granting(c)
        /\ state.owner # "untracked"
        /\ state \in [cursor : Nat, owner : {"untracked", "none", "live"}]
        /\ unsaved \in Nat
    BY <1>1 DEF IInv, RunFits, Steps, Typed
  <1>3. Head(chain).n \in Nat /\ (Head(chain).who = "live" => Head(chain).n <= unsaved)
    BY <1>1, HeadFacts DEF Jobs, JobFits
  <1>4. /\ state' \in [cursor : Nat, owner : {"untracked", "none", "live"}]
        /\ state'.owner = state.owner /\ state'.cursor = state.cursor + Head(chain).n
        /\ unsaved' \in Nat
    BY <1>1, <1>2, <1>3
  <1>5. /\ Typed' /\ Queue' /\ Pairs' /\ InOrder' /\ References' /\ PoolFits' /\ RunFits'
        /\ Copied'
        /\ \A c \in Callers : call'[c] = call[c] => CallFits(c)'
        /\ run'.step \in {"rest", "next"} /\ ~run'.current
    <2>1. /\ call' \in [Callers -> CallStates] /\ Head(chain).op # "read"
          /\ live' \in {"absent", "live", "retiring", "lost"} /\ (live' = live \/ live' # "live")
      BY <1>1 DEF IInv, Typed
    <2>2. /\ \A c \in Callers : call'[c] = call[c]
          /\ Head(chain).who = "live" \/ (live' = live /\ unsaved' = unsaved)
      BY <1>1
    <2> QED
      BY <1>1, <1>2, <1>4, <2>1, <2>2, OperationEnds
  <1>6. Calls'
    BY <1>1, <1>5 DEF Calls
  <1>7. Living'
    BY <1>1, <1>2, <1>4 DEF IInv, Living
  <1>8. Alone'
    <2>1. ~\E c \in Holders' : Granting(c)'
      BY <1>1 DEF Holders, InPool
    <2>2. written.foreign = 0 /\ state.owner = "live"
          => state.cursor + Head(chain).n = stored.len
      BY <1>1 DEF IInv, Alone
    <2> HIDE DEF Holders, Granting
    <2> QED
      BY <1>1, <1>4, <1>5, <2>1, <2>2 DEF Alone
  <1> QED
    BY <1>5, <1>6, <1>7, <1>8 DEF IInv

(* A live session's retirement is done.                                    *)
LEMMA RetiredKeeps == ASSUME IInv, Retired PROVE IInv'
  <1>1. /\ chain # <<>> /\ Head(chain).op = "retire" /\ run.step \in {"queued", "next"}
        /\ live' = "absent" /\ state' = (IF state.owner = "live" THEN NoState ELSE state)
        /\ Dequeue /\ pool' = pool /\ call' = call /\ unsaved' = unsaved
        /\ entry' = Kept(entry) /\ stored' = stored /\ written' = written
    BY DEF Retired, Starting, storeVars
  <1>2. Head(chain).who = "live" /\ live = "retiring"
    <2>1. Head(chain).who = "live"
      BY <1>1, HeadFacts DEF JobFits
    <2> QED
      BY <1>1, <2>1, HeadFacts DEF JobFits
  <1>3. state.owner = "live" /\ state' = NoState
    BY <1>1, <1>2 DEF IInv, Living
  <1>4. \A c \in Holders : ~Granting(c)
    BY <1>3 DEF IInv, Calls, CallFits, Holders, InPool
  <1>5. /\ Typed' /\ Queue' /\ Pairs' /\ InOrder' /\ References' /\ PoolFits' /\ RunFits'
        /\ Copied'
        /\ \A c \in Callers : call'[c] = call[c] => CallFits(c)'
        /\ \A e \in Entries : Referenced(e)' => entry'[e] = entry[e]
        /\ run'.step \in {"rest", "next"} /\ ~run'.current
    <2>1. /\ call' \in [Callers -> CallStates] /\ Head(chain).op # "read" /\ unsaved' \in Nat
          /\ live' \in {"absent", "live", "retiring", "lost"} /\ live' # "live"
          /\ state' \in [cursor : Nat, owner : {"untracked", "none", "live"}]
      BY <1>1, <1>3 DEF IInv, Typed, NoState
    <2>2. \A c \in Callers : call'[c] = call[c]
      BY <1>1
    <2> QED
      BY <1>1, <1>2, <1>4, <2>1, <2>2, OperationEnds
  <1>6. Calls'
    BY <1>1, <1>5 DEF Calls
  <1>7. Living'
    BY <1>1, <1>3 DEF Living, NoState
  <1>8. Alone'
    <2>1. \A c : (c \in Holders' <=> c \in Holders) /\ (Granting(c)' <=> Granting(c))
      BY <1>1 DEF Holders, InPool, Granting
    <2>2. pool' # NoEntry => entry'[pool] = entry[pool]
      BY <1>1, <1>5 DEF IInv, Typed, EntryIds, Referenced
    <2>3. state'.owner # "live" /\ \A c \in Callers : c \in Holders' => ~Granting(c)'
      BY <1>3, <1>4, <2>1 DEF NoState
    <2> HIDE DEF Holders, Granting
    <2> QED
      BY <1>1, <1>5, <2>1, <2>2, <2>3, AloneStays DEF IInv
  <1> QED
    BY <1>5, <1>6, <1>7, <1>8 DEF IInv

(* A read answers for its entry: ready if it is still pooled, and as long  *)
(* as the log that was read.                                               *)
LEMMA ReadEndsKeeps ==
  ASSUME IInv, NEW ok \in BOOLEAN, ReadEnds(ok)
  PROVE  IInv'
  <1>1. PICK e : e = Head(chain).entry
    OBVIOUS
  <1>2. PICK loaded : loaded = IF ok THEN [phase |-> IF InPool(e) THEN "ready" ELSE entry[e].phase,
                                           result |-> "ok", source |-> run.source]
                               ELSE [entry[e] EXCEPT !.result = "failed"]
    OBVIOUS
  <1>3. PICK f : f = [entry EXCEPT ![e] = loaded]
    OBVIOUS
  <1>4. /\ chain # <<>> /\ Head(chain).op = "read" /\ run.step = "read"
        /\ ok => live # "live"
        /\ pool' = (IF ok THEN pool ELSE Removed(e)) /\ Dequeue /\ call' = call
        /\ entry' = Kept(f)
        /\ stored' = stored /\ written' = written /\ state' = state /\ live' = live
        /\ unsaved' = unsaved
    BY <1>1, <1>2, <1>3 DEF ReadEnds, Running, storeVars, liveVars
  <1>5. /\ e \in Entries /\ entry[e].result = "pending" /\ entry[e].phase = "loading"
        /\ 1 \in DOMAIN chain /\ Head(chain) = chain[1] /\ entry[e] \in EntryStates
    BY <1>1, <1>4, HeadFacts DEF JobFits, Jobs, EntryIds, IInv, Typed
  <1>6. /\ loaded \in EntryStates /\ loaded.phase \in {"loading", "ready"}
        /\ loaded.result \in {"ok", "failed"}
        /\ loaded.phase = "ready" => loaded.result = "ok"
        /\ loaded.source = run.source \/ loaded.source = entry[e].source
        /\ ok => loaded.source = run.source /\ loaded.result = "ok"
    BY <1>2, <1>5 DEF EntryStates, IInv, Typed, Runs
  <1>7. /\ \A x \in Entries : f[x] \in EntryStates
        /\ f[e] = loaded /\ \A x \in Entries : x # e => f[x] = entry[x]
    BY <1>3, <1>5, <1>6 DEF IInv, Typed
  <1>8. /\ \A x \in Entries : entry'[x] = IF Referenced(x)' THEN f[x] ELSE Blank
        /\ entry' \in [Entries -> EntryStates]
    BY <1>4, <1>7, KeptIs, KeptIsTyped
  <1>9. /\ RunFits' /\ chain' = Tail(chain) /\ chain' \in Seq(Jobs) /\ run' \in Runs
        /\ run'.step \in {"rest", "next"} /\ ~run'.current /\ run'.source = NoSource
    BY <1>4, RunNext DEF IInv
  <1>10. pool' = pool \/ (pool' = NoEntry /\ pool = e /\ ~ok)
    BY <1>4 DEF Removed
  <1>11. Typed'
    BY <1>4, <1>8, <1>9, <1>10 DEF IInv, Typed, EntryIds
  <1>12. \A i \in DOMAIN chain' : chain'[i] = chain[i + 1] /\ i + 1 \in DOMAIN chain /\ i + 1 # 1
    BY <1>9, TailFacts DEF IInv, Typed
  <1>13. \A x \in Entries : Referenced(x)' => Referenced(x)
    BY <1>4, <1>10, <1>12 DEF Referenced, Entries, NoEntry
  <1>14. References'
    <2>1. \A x \in Entries : /\ f[x].phase = "absent" => entry[x].phase = "absent"
                             /\ f[x].phase # "absent" => f[x].result # "none"
      <3>1. \A x \in Entries : x # e => f[x] = entry[x]
        BY <1>7
      <3>2. f[e].phase # "absent" /\ f[e].result # "none"
        BY <1>6, <1>7
      <3> QED
        BY <3>1, <3>2 DEF IInv, References
    <2> QED
      BY <1>4, <1>13, <2>1, StillReferenced DEF IInv
  <1>15. Pairs' /\ InOrder'
    BY <1>4, <1>9, <1>10, PairsTail, InOrderTail DEF IInv
  <1>16. Copied'
    BY <1>4, <1>6, <1>7, <1>8, <1>9, CopiedStays DEF IInv
  <1>17. \A c \in Callers : call[c].entry = e => call[c].pc = "loading"
    <2>1. \A c \in Callers : CallFits(c)
      BY DEF IInv, Calls
    <2>2. e # NoEntry
      BY <1>5 DEF Entries, NoEntry
    <2> QED
      BY <1>5, <2>1, <2>2 DEF CallFits
  <1>18. ASSUME NEW c \in Callers PROVE CallFits(c)'
    <2>1. CallFits(c) /\ Typed /\ call'[c] = call[c]
      BY <1>4 DEF IInv, Calls
    <2>2. Logical(stored)' = Logical(stored) /\ Logical(stored) \in Nat
      BY <1>4, <2>1 DEF Logical, Typed, Sources
    <2>3. CASE call[c].entry = e
      <3>1. call'[c].pc = "loading" /\ call'[c].entry # NoEntry /\ call'[c].result = "none"
        BY <1>5, <1>17, <2>1, <2>3 DEF CallFits, Entries, NoEntry
      <3> QED
        BY <1>4, <2>1, <2>2, <3>1 DEF CallFits, Granting, Grants
    <2>4. CASE call[c].entry # e
      <3>1. call[c].entry # NoEntry => entry'[call[c].entry] = entry[call[c].entry]
        BY <1>4, <1>7, <1>8, <2>1, <2>4 DEF Typed, CallStates, EntryIds, Referenced
      <3>2. pool' # pool => pool' = NoEntry /\ call[c].pc \notin {"reserved", "holding"}
        BY <1>10, <2>1, <2>4 DEF CallFits
      <3> QED
        BY <1>4, <2>1, <2>2, <3>1, <3>2, CallStays
    <2> QED
      BY <2>3, <2>4
  <1>19. ASSUME NEW i \in DOMAIN chain' PROVE JobFits(chain[i])'
    <2>1. PICK j : j = chain[i + 1]
      OBVIOUS
    <2>2. chain'[i] = j /\ i + 1 \in DOMAIN chain /\ j \in Jobs /\ JobFits(j)
      BY <1>12, <1>19, <2>1 DEF IInv, Queue, Typed
    <2>3. ~Clash(Head(chain), j)
      BY <1>5, <1>12, <1>19, <2>1 DEF IInv, Pairs
    <2>4. j.op \in {"read", "commit", "check"} => j.entry \in Entries /\ j.entry # e
      BY <1>1, <1>4, <1>5, <2>2, <2>3 DEF Clash, JobFits, Jobs, EntryIds
    <2>5. j.op \in {"read", "commit", "check"} => entry'[j.entry] = entry[j.entry]
      BY <1>7, <1>8, <1>19, <2>2, <2>4 DEF Referenced
    <2>6. j.op = "commit" /\ pool' = j.entry => pool = j.entry
      BY <1>10, <2>2 DEF JobFits
    <2>7. j.who = "live" /\ j.op = "append" => j.n <= unsaved'
      BY <1>4, <2>2 DEF JobFits
    <2>8. JobFits(j)'
      BY <1>4, <2>2, <2>5, <2>6, <2>7, JobStays
    <2> QED
      BY <2>2, <2>8 DEF JobFits, Asks
  <1>20. \A c \in Holders : call[c].entry # e
    BY <1>17 DEF Holders
  <1>21. PoolFits'
    <2>1. CASE pool' = NoEntry
      BY <2>1, PoolGone
    <2>2. CASE pool' = pool /\ pool # NoEntry /\ pool # e
      <3>1. entry'[pool] = entry[pool] /\ live' # "live"
        BY <1>4, <1>7, <1>8, <2>2 DEF IInv, PoolFits, Referenced, Typed, EntryIds
      <3>2. \A c \in Callers : c \in Holders' <=> c \in Holders
        BY <1>4, <2>2 DEF Holders, InPool
      <3>3. ASSUME NEW i \in DOMAIN chain, chain[i].op = "read", chain[i].entry = pool
            PROVE  \E k \in DOMAIN chain' : chain'[k].op = "read" /\ chain'[k].entry = pool
        <4>1. i # 1
          BY <1>1, <1>5, <2>2, <3>3
        <4>2. i - 1 \in DOMAIN chain' /\ (i - 1) + 1 = i
          BY <1>9, <4>1, TailFacts DEF IInv, Typed
        <4> QED
          BY <1>12, <3>3, <4>2
      <3> QED
        BY <1>4, <2>2, <3>1, <3>2, <3>3, PoolStays DEF IInv
    <2>3. CASE pool' = pool /\ pool = e /\ ok
      <3>1. entry'[e] = loaded /\ e # NoEntry
        BY <1>5, <1>7, <1>8, <2>3 DEF Referenced, Entries, NoEntry
      <3>2. loaded.phase = "ready" /\ loaded.result = "ok"
        BY <1>2, <2>3, <3>1 DEF InPool
      <3>3. \A c : c \notin Holders'
        BY <1>4, <1>17, <2>3 DEF Holders, InPool
      <3> HIDE DEF Holders
      <3>4. entry'[pool'].phase = "ready" /\ entry'[pool'].result = "ok" /\ live' # "live"
        BY <1>4, <2>3, <3>1, <3>2
      <3> QED
        BY <3>3, <3>4 DEF PoolFits
    <2>4. pool = e /\ ~ok => pool' = NoEntry
      BY <1>4 DEF Removed
    <2> QED
      BY <1>10, <2>1, <2>2, <2>3, <2>4
  <1>22. Living'
    BY <1>4 DEF IInv, Living
  <1>23. Alone'
    <2>1. ASSUME written'.foreign = 0, pool' # NoEntry, entry'[pool'].result = "ok"
          PROVE  Logical(entry[pool].source)' = Logical(stored)'
      <3>1. CASE pool = e
        <4>1. ok /\ entry'[e] = loaded /\ pool' = e
          BY <1>4, <1>5, <1>7, <1>8, <1>10, <2>1, <3>1 DEF Referenced, Removed
        <4>2. run.source = stored
          BY <1>4, <2>1 DEF IInv, Alone
        <4> QED
          BY <1>4, <1>6, <4>1, <4>2 DEF Logical
      <3>2. CASE pool # e
        <4>1. pool' = pool /\ entry'[pool] = entry[pool]
          BY <1>7, <1>8, <1>10, <2>1, <3>2 DEF IInv, Typed, EntryIds, Referenced
        <4>2. Logical(entry[pool].source) = Logical(stored)
          BY <1>4, <2>1, <4>1 DEF IInv, Alone
        <4> QED
          BY <1>4, <4>1, <4>2 DEF Logical
      <3> QED
        BY <3>1, <3>2
    <2>2. ASSUME written'.foreign = 0, state'.owner = "live" \/ \E c \in Holders' : Granting(c)'
          PROVE  state'.cursor = stored'.len
      <3>1. \A c \in Holders' : c \in Holders /\ (Granting(c)' <=> Granting(c))
        BY <1>4, <1>10 DEF Holders, InPool, Granting
      <3>2. state.owner = "live" \/ \E c \in Holders : Granting(c)
        BY <1>4, <2>2, <3>1
      <3> QED
        BY <1>4, <2>2, <3>2 DEF IInv, Alone
    <2> HIDE DEF Holders, Granting
    <2> QED
      BY <1>9, <2>1, <2>2 DEF Alone
  <1> QED
    BY <1>9, <1>11, <1>14, <1>15, <1>16, <1>18, <1>19, <1>21, <1>22, <1>23 DEF IInv, Calls, Queue

---------------------------------------------------------------------------
(* The callers.                                                            *)

(* What a queue is after an operation was queued.                          *)
LEMMA QueueGrows ==
  ASSUME Typed, RunFits, NEW job \in Jobs, Enqueue(job)
  PROVE  /\ chain' \in Seq(Jobs) /\ chain' # <<>> /\ run' \in Runs
         /\ chain' = Append(chain, job)
         /\ \A i \in DOMAIN chain : chain'[i] = chain[i] /\ i \in DOMAIN chain'
         /\ \A i \in DOMAIN chain' : i \in DOMAIN chain \/ chain'[i] = job
         /\ \E i \in DOMAIN chain' : chain'[i] = job
         /\ chain # <<>> => run' = run /\ Head(chain') = Head(chain)
         /\ chain = <<>> => /\ run'.step = "queued" /\ ~run'.current /\ run'.source = NoSource
                            /\ run.step = "rest"
  <1>1. chain' = Append(chain, job)
        /\ run' = IF chain = <<>> THEN [Rest EXCEPT !.step = "queued"] ELSE run
    BY DEF Enqueue
  <1>2. /\ chain' \in Seq(Jobs) /\ chain' # <<>> /\ Len(chain) \in Nat
        /\ \A i \in DOMAIN chain : chain'[i] = chain[i] /\ i \in DOMAIN chain'
        /\ \A i \in DOMAIN chain' : i \in DOMAIN chain \/ i = Len(chain) + 1
        /\ chain'[Len(chain) + 1] = job /\ DOMAIN chain' = 1..(Len(chain) + 1)
        /\ chain # <<>> => Head(chain') = Head(chain)
    BY <1>1, AppendFacts DEF Typed
  <1>3. NoSource \in Sources
    BY DEF NoSource, Sources, Damages
  <1>4. run' \in Runs
    BY <1>1, <1>3 DEF Rest, Runs, Typed
  <1>5. chain = <<>> => /\ run'.step = "queued" /\ ~run'.current /\ run'.source = NoSource
                        /\ run.step = "rest"
    BY <1>1 DEF Rest, RunFits
  <1>6. Len(chain) + 1 \in DOMAIN chain'
    BY <1>2
  <1> QED
    BY <1>1, <1>2, <1>4, <1>5, <1>6

(* A step of one caller.  It changes its own record, maybe the phase of    *)
(* its entry, takes that entry out of the pool, or queues one operation.   *)
LEMMA CallerSteps ==
  ASSUME IInv, NEW c \in Callers, NEW r \in CallStates, call' = [call EXCEPT ![c] = r],
         UNCHANGED <<storeVars, state, liveVars>>,
         pool' = pool \/ pool' = NoEntry,
         pool' # pool => \A d \in Holders : d = c,
         entry' \in [Entries -> EntryStates], References',
         \A e \in Entries :
           /\ Referenced(e)' => /\ entry'[e].source = entry[e].source
                                /\ entry'[e].result = entry[e].result
                                /\ entry[e].phase = "loading" => entry'[e].phase = "loading"
           /\ entry'[e].source = entry[e].source \/ entry'[e] = Blank,
         \/ call[c].pc \notin {"committing", "checking"} \/ call[c].result # "none"
         \/ /\ r.pc = call[c].pc /\ r.result = call[c].result /\ r.entry = call[c].entry
            /\ r.since = call[c].since,
         c \in Holders' /\ Granting(c)' => c \in Holders /\ Granting(c),
         CallFits(c)', PoolFits',
         NEW job \in Jobs,
         \/ chain' = chain /\ run' = run
         \/ /\ Enqueue(job) /\ JobFits(job)' /\ \A i \in DOMAIN chain : ~Clash(chain[i], job)
            /\ job.op = "commit" => job.entry = pool'
  PROVE  IInv'
  <1>1. /\ stored' = stored /\ written' = written /\ state' = state /\ live' = live
        /\ unsaved' = unsaved
    BY DEF storeVars, liveVars
  <1>2. /\ chain' \in Seq(Jobs) /\ run' \in Runs
        /\ \A i \in DOMAIN chain : chain'[i] = chain[i] /\ i \in DOMAIN chain'
        /\ \A i \in DOMAIN chain' : i \in DOMAIN chain \/ (chain'[i] = job /\ JobFits(job)')
        /\ chain # <<>> => chain' # <<>> /\ run' = run /\ Head(chain') = Head(chain)
        /\ chain = <<>> => run'.step \in {"rest", "queued"} /\ ~run'.current
        /\ run'.source = run.source \/ run'.source = NoSource
    <2>1. CASE chain' = chain /\ run' = run
      BY <2>1 DEF IInv, Typed, RunFits
    <2>2. CASE Enqueue(job) /\ JobFits(job)'
      BY <2>2, QueueGrows DEF IInv
    <2> QED
      BY <2>1, <2>2
  <1>3. /\ call' \in [Callers -> CallStates] /\ call'[c] = r
        /\ \A d \in Callers : d # c => call'[d] = call[d]
    BY DEF IInv, Typed
  <1>4. Typed'
    BY <1>1, <1>2, <1>3 DEF IInv, Typed, EntryIds
  <1>5. Pairs' /\ InOrder'
    <2>1. CASE chain' = chain
      BY <2>1 DEF IInv, Pairs, Clash, Asks, InOrder
    <2>2. CASE /\ Enqueue(job) /\ \A i \in DOMAIN chain : ~Clash(chain[i], job)
               /\ job.op = "commit" => job.entry = pool'
      BY <2>2, PairsAppend, InOrderAppend DEF IInv, Enqueue
    <2> QED
      BY <2>1, <2>2
  <1>6. Copied'
    BY <1>1, <1>2, CopiedStays DEF IInv
  <1>7. Living'
    BY <1>1 DEF IInv, Living
  <1>8. ASSUME NEW d \in Callers, d # c PROVE CallFits(d)'
    <2>1. CallFits(d) /\ Typed /\ call'[d] = call[d]
      BY <1>3, <1>8 DEF IInv, Calls
    <2>2. Logical(stored)' = Logical(stored) /\ Logical(stored) \in Nat
      BY <1>1, <2>1 DEF Logical, Typed, Sources
    <2>3. call[d].entry # NoEntry =>
           /\ entry'[call[d].entry].source = entry[call[d].entry].source
           /\ entry[call[d].entry].result = "ok" => entry'[call[d].entry].result = "ok"
      BY <2>1 DEF Typed, CallStates, EntryIds, Referenced
    <2>4. pool' # pool => call[d].pc \notin {"reserved", "holding"}
      <3>1. call[d].pc \in {"reserved", "holding"} => d \in Holders
        BY <2>1 DEF CallFits, Holders, InPool
      <3> QED
        BY <1>8, <3>1
    <2> QED
      BY <1>1, <2>1, <2>2, <2>3, <2>4, CallStays
  <1>9. Calls'
    BY <1>8 DEF Calls
  <1>10. \A i \in DOMAIN chain : Asks(chain[i]) =>
           /\ call'[chain[i].who].pc = call[chain[i].who].pc
           /\ call'[chain[i].who].result = call[chain[i].who].result
           /\ call'[chain[i].who].entry = call[chain[i].who].entry
           /\ call'[chain[i].who].since = call[chain[i].who].since
    <2>1. ASSUME NEW i \in DOMAIN chain, Asks(chain[i])
          PROVE  /\ call'[chain[i].who].pc = call[chain[i].who].pc
                 /\ call'[chain[i].who].result = call[chain[i].who].result
                 /\ call'[chain[i].who].entry = call[chain[i].who].entry
                 /\ call'[chain[i].who].since = call[chain[i].who].since
      <3>1. /\ chain[i].who \in Callers
            /\ call[chain[i].who].pc \in {"committing", "checking"}
            /\ call[chain[i].who].result = "none"
        BY <2>1 DEF IInv, Queue, JobFits, Asks
      <3> QED
        BY <1>3, <3>1
    <2> QED
      BY <2>1
  <1>11. ASSUME NEW i \in DOMAIN chain' PROVE JobFits(chain[i])'
    <2>1. CASE i \in DOMAIN chain
      <3>1. PICK j : j = chain[i]
        OBVIOUS
      <3>2. chain'[i] = j /\ j \in Jobs /\ JobFits(j)
        BY <1>2, <2>1, <3>1 DEF IInv, Queue, Typed
      <3>3. j.op \in {"read", "commit", "check"} =>
              /\ entry'[j.entry].result = entry[j.entry].result
              /\ entry[j.entry].phase = "loading" => entry'[j.entry].phase = "loading"
        BY <1>11, <3>2 DEF JobFits, Jobs, EntryIds, Referenced
      <3>4. j.op = "commit" /\ pool' = j.entry => pool = j.entry
        BY <3>2 DEF JobFits
      <3>5. Asks(j) => /\ call'[j.who].pc = call[j.who].pc
                       /\ call'[j.who].result = call[j.who].result
                       /\ call'[j.who].entry = call[j.who].entry
        BY <1>10, <2>1, <3>1
      <3>6. j.who = "live" /\ j.op = "append" => j.n <= unsaved'
        BY <1>1, <3>2 DEF JobFits
      <3>7. j.op = "read" => /\ entry'[j.entry].result = entry[j.entry].result
                             /\ entry'[j.entry].phase = entry[j.entry].phase
        BY <3>2, <3>3 DEF JobFits
      <3>8. j.op \in {"commit", "check"} /\ entry[j.entry].result = "ok"
              => entry'[j.entry].result = "ok"
        BY <3>3
      <3>9. j.who = "live" => /\ live' = live \/ (live' = "retiring" /\ live = "live")
                              /\ j.op = "append" => j.n <= unsaved'
        BY <1>1, <3>6
      <3>10. JobFits(j)'
        BY <3>2, <3>4, <3>5, <3>7, <3>8, <3>9, JobStays
      <3> QED
        BY <3>2, <3>10 DEF JobFits, Asks
    <2>2. CASE i \notin DOMAIN chain
      <3>1. chain'[i] = job /\ JobFits(job)'
        BY <1>2, <1>11, <2>2
      <3> QED
        BY <3>1 DEF JobFits, Asks
    <2> QED
      BY <2>1, <2>2
  <1>12. \A d \in Callers : d \in Holders' /\ Granting(d)' => d \in Holders /\ Granting(d)
    <2>1. ASSUME NEW d \in Callers, d # c, d \in Holders', Granting(d)'
          PROVE  d \in Holders /\ Granting(d)
      BY <1>3, <2>1 DEF Holders, InPool, Granting
    <2> QED
      BY <2>1
  <1>13. RunFits'
    <2>1. CASE chain = <<>> /\ chain' # <<>>
      <3>1. run'.step = "queued" /\ ~run'.current
        <4>1. CASE Enqueue(job)
          BY <2>1, <4>1, QueueGrows DEF IInv
        <4> QED
          BY <2>1, <4>1
      <3> QED
        BY <2>1, <3>1 DEF RunFits, Steps
    <2>2. CASE chain = <<>> /\ chain' = <<>>
      <3>1. run' = run
        <4>1. CASE Enqueue(job)
          BY <2>2, <4>1, QueueGrows DEF IInv
        <4> QED
          BY <4>1
      <3> QED
        BY <2>2, <3>1 DEF IInv, RunFits, Steps
    <2>3. CASE chain # <<>>
      <3>1. chain' # <<>> /\ run' = run /\ Head(chain') = Head(chain)
        BY <1>2, <2>3
      <3>2. Steps /\ Head(chain).op = "commit" =>
             /\ entry'[Head(chain).entry].source = entry[Head(chain).entry].source
             /\ call'[Head(chain).who].since = call[Head(chain).who].since
        <4>1. ASSUME Steps, Head(chain).op = "commit"
              PROVE  /\ entry'[Head(chain).entry].source = entry[Head(chain).entry].source
                     /\ call'[Head(chain).who].since = call[Head(chain).who].since
          <5>1. Asks(Head(chain)) /\ 1 \in DOMAIN chain /\ Head(chain) = chain[1]
            BY <2>3, <4>1, HeadFacts DEF IInv, RunFits, Asks
          <5>2. PICK e : e = Head(chain).entry
            OBVIOUS
          <5>3. e \in Entries /\ Referenced(e)'
            <6>1. e \in Entries /\ chain'[1] = chain[1] /\ 1 \in DOMAIN chain'
              BY <1>2, <2>3, <5>1, <5>2, HeadFacts
            <6> QED
              BY <5>1, <5>2, <6>1 DEF Referenced
          <5>4. entry'[e].source = entry[e].source
            BY <5>3
          <5>5. call'[chain[1].who].since = call[chain[1].who].since
            BY <1>10, <5>1
          <5> QED
            BY <5>1, <5>2, <5>4, <5>5
        <4> QED
          BY <4>1
      <3> QED
        BY <1>1, <1>12, <2>3, <3>1, <3>2, RunStays DEF IInv
    <2> QED
      BY <2>1, <2>2, <2>3
  <1>14. Alone'
    <2>1. pool' # NoEntry => /\ entry'[pool].source = entry[pool].source
                             /\ entry'[pool].result = entry[pool].result
      BY DEF IInv, Typed, EntryIds, Referenced
    <2>2. \/ run' = run /\ (run.step = "written" => Head(chain').n = Head(chain).n)
          \/ run.step # "written" /\ run'.step \notin {"read", "written"} /\ ~run'.current
      <3>1. CASE chain = <<>>
        BY <1>2, <3>1 DEF IInv, RunFits
      <3>2. CASE chain # <<>>
        BY <1>2, <3>2
      <3> QED
        BY <3>1, <3>2
    <2> HIDE DEF Holders, Granting
    <2> QED
      BY <1>1, <1>12, <2>1, <2>2, AloneStays DEF IInv
  <1> QED
    BY <1>4, <1>5, <1>6, <1>7, <1>9, <1>11, <1>13, <1>14 DEF IInv, Queue

(* The entries after a step of one caller: as f says where something still *)
(* refers to them.                                                         *)
LEMMA CallerEntries ==
  ASSUME IInv, NEW c \in Callers, NEW r \in CallStates, call' = [call EXCEPT ![c] = r],
         pool' = pool \/ pool' = NoEntry,
         r.entry \in {NoEntry, call[c].entry, pool},
         \A i \in DOMAIN chain' : \/ i \in DOMAIN chain /\ chain'[i] = chain[i]
                                  \/ chain'[i].entry \in {NoEntry, call[c].entry},
         NEW f \in [Entries -> EntryStates], entry' = Kept(f) \/ entry' = f,
         \A e \in Entries :
           \/ f[e] = entry[e]
           \/ /\ f[e].source = entry[e].source /\ f[e].result = entry[e].result
              /\ entry[e].phase \notin {"loading", "absent"} /\ f[e].phase # "absent"
  PROVE  /\ entry' \in [Entries -> EntryStates] /\ References'
         /\ \A e \in Entries :
              /\ Referenced(e)' =>
                   /\ entry'[e] = f[e]
                   /\ entry'[e].source = entry[e].source
                   /\ entry'[e].result = entry[e].result
                   /\ entry[e].phase = "loading" => entry'[e].phase = "loading"
              /\ entry'[e].source = entry[e].source \/ entry'[e] = Blank
  <1>1. /\ call'[c] = r /\ \A d \in Callers : d # c => call'[d] = call[d]
    BY DEF IInv, Typed
  <1>2. ASSUME NEW e \in Entries, Referenced(e)' PROVE Referenced(e)
    <2>1. e # NoEntry
      BY DEF Entries, NoEntry
    <2>2. CASE pool' = e
      BY <2>1, <2>2 DEF Referenced
    <2>3. CASE \E d \in Callers : call'[d].entry = e
      BY <1>1, <2>1, <2>3 DEF Referenced
    <2>4. CASE \E i \in DOMAIN chain' : chain'[i].entry = e
      BY <2>1, <2>4 DEF Referenced
    <2> QED
      BY <1>2, <2>2, <2>3, <2>4 DEF Referenced
  <1>3. \A e \in Entries : /\ f[e].phase = "absent" => entry[e].phase = "absent"
                           /\ f[e].phase # "absent" => f[e].result # "none"
    BY DEF IInv, References
  <1>4. CASE entry' = Kept(f)
    <2>1. \A e \in Entries : entry'[e] = IF Referenced(e)' THEN f[e] ELSE Blank
      BY <1>4, KeptIs
    <2>2. References'
      BY <1>2, <1>3, <1>4, StillReferenced DEF IInv
    <2>3. entry' \in [Entries -> EntryStates]
      BY <1>4, KeptIsTyped
    <2> HIDE DEF Referenced
    <2> QED
      BY <2>1, <2>2, <2>3
  <1>5. CASE entry' = f
    <2>1. ASSUME NEW e \in Entries
          PROVE  /\ entry'[e].phase = "absent" => entry'[e] = Blank /\ ~Referenced(e)'
                 /\ entry'[e].phase # "absent" => entry'[e].result # "none"
      <3> HIDE DEF Referenced
      <3>1. entry[e].phase = "absent" => entry[e] = Blank /\ ~Referenced(e)
        BY DEF IInv, References
      <3>2. Referenced(e)' => Referenced(e)
        BY <1>2
      <3>3. f[e].phase = "absent" => f[e] = entry[e]
        OBVIOUS
      <3> QED
        BY <1>3, <1>5, <3>1, <3>2, <3>3
    <2>2. References'
      BY <2>1 DEF References
    <2> QED
      BY <1>5, <2>2
  <1> QED
    BY <1>4, <1>5

(* A caller leaves its entry: what is pooled stays with its other holder,  *)
(* becomes reusable, or is gone.                                           *)
LEMMA LeavingKeeps ==
  ASSUME IInv, NEW c \in Callers, NEW r \in CallStates, call' = [call EXCEPT ![c] = r],
         UNCHANGED <<storeVars, state, liveVars, chain, run>>,
         r.entry = NoEntry, r.pc \in {"idle", "outside", "answered"},
         r.result # "none" => r.pc = "answered", r.since <= Logical(stored),
         r.pc = "answered" /\ (r.result = "borrowed" => written.foreign = 0) => r.got >= r.since,
         call[c].pc \notin {"committing", "checking"} \/ call[c].result # "none",
         NEW f, entry' = Kept(f),
         \/ /\ pool' = NoEntry /\ \A d \in Holders : d = c
            /\ f = entry
         \/ pool' = pool /\ c \notin Holders /\ f = entry
         \/ /\ pool' = pool /\ c \in Holders
            /\ f = [entry EXCEPT ![pool] = Ready(pool)]
  PROVE  IInv'
  <1>1. /\ stored' = stored /\ written' = written /\ state' = state /\ live' = live
        /\ unsaved' = unsaved /\ chain' = chain /\ run' = run
    BY DEF storeVars, liveVars
  <1>2. c \in Holders => /\ pool \in Entries /\ entry[pool].phase \in {"committing", "reserved"}
                         /\ call[c].entry = pool /\ \A d \in Holders : d = c
                         /\ entry[pool].result = "ok"
    BY DEF IInv, PoolFits, Holders, InPool, Typed, EntryIds
  <1>3. /\ f \in [Entries -> EntryStates]
        /\ \A e \in Entries :
           \/ f[e] = entry[e]
           \/ /\ f[e].source = entry[e].source /\ f[e].result = entry[e].result
              /\ entry[e].phase \notin {"loading", "absent"} /\ f[e].phase # "absent"
        /\ \A e \in Entries : e # pool => f[e] = entry[e]
        /\ c \in Holders /\ pool' = pool => f[pool].phase = "ready" /\ f[pool].result = "ok"
    <2>1. CASE f = entry /\ ~(pool' = pool /\ c \in Holders)
      BY <2>1 DEF IInv, Typed
    <2>2. CASE c \in Holders /\ f = [entry EXCEPT ![pool] = Ready(pool)]
      <3>1. pool \in Entries /\ entry[pool] \in EntryStates /\ entry \in [Entries -> EntryStates]
        BY <1>2, <2>2 DEF IInv, Typed
      <3>2. /\ Ready(pool) \in EntryStates /\ Ready(pool).phase = "ready"
            /\ Ready(pool).source = entry[pool].source /\ Ready(pool).result = entry[pool].result
        BY <3>1 DEF Ready, EntryStates
      <3>3. /\ f \in [Entries -> EntryStates] /\ f[pool] = Ready(pool)
            /\ \A e \in Entries : e # pool => f[e] = entry[e]
        BY <2>2, <3>1, <3>2
      <3> QED
        BY <1>2, <2>2, <3>2, <3>3
    <2>3. (c \in Holders /\ pool' = pool) => f = [entry EXCEPT ![pool] = Ready(pool)]
      <3>1. c \in Holders => pool # NoEntry
        BY <1>2 DEF Entries, NoEntry
      <3> QED
        BY <3>1
    <2> HIDE DEF Holders
    <2>4. f = entry \/ (c \in Holders /\ f = [entry EXCEPT ![pool] = Ready(pool)])
      OBVIOUS
    <2>5. pool' = NoEntry => ~(pool' = pool /\ c \in Holders)
      <3>1. c \in Holders => pool # NoEntry
        BY <1>2 DEF Entries, NoEntry
      <3> QED
        BY <3>1
    <2> QED
      BY <2>1, <2>2, <2>3, <2>4, <2>5
  <1>4. /\ entry' \in [Entries -> EntryStates] /\ References'
        /\ \A e \in Entries :
              /\ Referenced(e)' =>
                   /\ entry'[e] = f[e]
                   /\ entry'[e].source = entry[e].source
                   /\ entry'[e].result = entry[e].result
                   /\ entry[e].phase = "loading" => entry'[e].phase = "loading"
              /\ entry'[e].source = entry[e].source \/ entry'[e] = Blank
    BY <1>1, <1>3, CallerEntries
  <1>5. /\ call'[c] = r /\ \A d \in Callers : d # c => call'[d] = call[d]
    BY DEF IInv, Typed
  <1>6. CallFits(c)'
    <2>1. Logical(stored)' = Logical(stored)
      BY <1>1 DEF Logical
    <2>2. ~Granting(c)'
      BY <1>5 DEF Granting, Grants
    <2> QED
      BY <1>1, <1>5, <2>1, <2>2 DEF CallFits
  <1>7. c \notin Holders'
    BY <1>5 DEF Holders
  <1>8. PoolFits'
    <2>1. CASE pool' = NoEntry
      BY <2>1, PoolGone
    <2>2. CASE pool' = pool /\ pool # NoEntry /\ c \notin Holders
      <3>1. f[pool] = entry[pool] /\ pool \in Entries /\ Referenced(pool)'
        BY <2>2 DEF IInv, Typed, EntryIds, Referenced
      <3>2. entry'[pool] = entry[pool] /\ live' # "live"
        BY <1>1, <1>4, <2>2, <3>1 DEF IInv, PoolFits
      <3>3. \A d \in Callers : /\ d \in Holders' <=> d \in Holders
                               /\ d \in Holders => (call'[d].pc = "committing"
                                                    <=> call[d].pc = "committing")
        <4>1. ASSUME NEW d \in Callers, d # c
              PROVE  /\ d \in Holders' <=> d \in Holders
                     /\ d \in Holders => (call'[d].pc = "committing"
                                          <=> call[d].pc = "committing")
          BY <1>5, <2>2, <4>1 DEF Holders, InPool
        <4> QED
          BY <1>7, <2>2, <4>1
      <3> QED
        BY <1>1, <2>2, <3>2, <3>3, PoolStays DEF IInv
    <2>3. CASE pool' = pool /\ c \in Holders
      <3>1. pool \in Entries /\ Referenced(pool)' /\ live' # "live"
        BY <1>1, <1>2, <2>3 DEF Referenced, IInv, PoolFits, Entries, NoEntry
      <3>2. entry'[pool'].phase = "ready" /\ entry'[pool'].result = "ok"
        BY <1>3, <1>4, <2>3, <3>1
      <3>3. \A d : d \notin Holders'
        <4>1. \A d \in Callers : d # c => d \notin Holders'
          BY <1>2, <1>5, <2>3 DEF Holders, InPool
        <4> QED
          BY <1>7, <4>1 DEF Holders
      <3> HIDE DEF Holders
      <3> QED
        BY <3>1, <3>2, <3>3 DEF PoolFits
    <2> QED
      BY <2>1, <2>2, <2>3
  <1>9. pool' = pool \/ pool' = NoEntry
    OBVIOUS
  <1>10. pool' # pool => \A d \in Holders : d = c
    OBVIOUS
  <1>11. /\ UNCHANGED <<storeVars, state, liveVars>>
         /\ Job("read", c, NoEntry) \in Jobs
    BY DEF Job, Jobs, EntryIds
  <1> QED
    BY <1>1, <1>4, <1>6, <1>7, <1>8, <1>9, <1>10, <1>11, CallerSteps

(* A caller whose record alone changes.                                    *)
LEMMA StayingKeeps ==
  ASSUME IInv, NEW c \in Callers, NEW r \in CallStates, call' = [call EXCEPT ![c] = r],
         UNCHANGED <<storeVars, state, pool, entry, chain, run, liveVars>>,
         r.entry \in {NoEntry, call[c].entry, pool},
         \/ call[c].pc \notin {"committing", "checking"} \/ call[c].result # "none"
         \/ /\ r.pc = call[c].pc /\ r.result = call[c].result /\ r.entry = call[c].entry
            /\ r.since = call[c].since,
         CallFits(c)',
         c \in Holders' <=> c \in Holders,
         c \in Holders => (r.pc = "committing" <=> call[c].pc = "committing"),
         c \in Holders' /\ Grants(r) => Granting(c)
  PROVE  IInv'
  <1>1. /\ pool' = pool /\ entry' = entry /\ chain' = chain /\ run' = run /\ live' = live
        /\ UNCHANGED <<storeVars, state, liveVars>>
    BY DEF liveVars
  <1>2. /\ call'[c] = r /\ \A d \in Callers : d # c => call'[d] = call[d]
    BY DEF IInv, Typed
  <1>3. entry \in [Entries -> EntryStates]
    BY DEF IInv, Typed
  <1>4. /\ entry' \in [Entries -> EntryStates] /\ References'
        /\ \A e \in Entries :
              /\ Referenced(e)' =>
                   /\ entry'[e].source = entry[e].source
                   /\ entry'[e].result = entry[e].result
                   /\ entry[e].phase = "loading" => entry'[e].phase = "loading"
              /\ entry'[e].source = entry[e].source \/ entry'[e] = Blank
    BY <1>1, <1>3, CallerEntries
  <1>5. PoolFits'
    <2>1. ASSUME NEW d \in Callers, d # c
          PROVE  /\ d \in Holders' <=> d \in Holders
                 /\ d \in Holders => (call'[d].pc = "committing" <=> call[d].pc = "committing")
      BY <1>1, <1>2, <2>1 DEF Holders, InPool
    <2>2. \A d \in Callers :
            /\ d \in Holders' <=> d \in Holders
            /\ d \in Holders => (call'[d].pc = "committing" <=> call[d].pc = "committing")
      BY <1>2, <2>1
    <2>3. pool # NoEntry => live' # "live"
      BY <1>1 DEF IInv, PoolFits
    <2> QED
      BY <1>1, <2>2, <2>3, PoolStays DEF IInv
  <1>6. c \in Holders' /\ Granting(c)' => c \in Holders /\ Granting(c)
    <2> HIDE DEF Holders
    <2> QED
      BY <1>2 DEF Granting
  <1>7. Job("read", c, NoEntry) \in Jobs
    BY DEF Job, Jobs, EntryIds
  <1> QED
    BY <1>1, <1>4, <1>5, <1>6, <1>7, CallerSteps

(* An idle call is a call.                                                 *)
LEMMA IdleIsTyped ==
  /\ Idle \in CallStates
  /\ Idle.pc = "idle" /\ Idle.entry = NoEntry /\ Idle.result = "none" /\ Idle.since = 0
  BY DEF Idle, CallStates, EntryIds

(* So is one that has been answered.                                       *)
LEMMA LeavesIsTyped ==
  ASSUME Typed, NEW c \in Callers, NEW pc \in {"idle", "outside", "answered"}
  PROVE  /\ Leaves(c, pc) \in CallStates
         /\ Leaves(c, pc).pc = pc /\ Leaves(c, pc).entry = NoEntry
         /\ Leaves(c, pc).result = "none" /\ Leaves(c, pc).since = call[c].since
  <1>1. call[c] \in CallStates
    BY DEF Typed
  <1> QED
    BY <1>1 DEF Leaves, CallStates, EntryIds

(* A call begins with what is durable then.                                *)
LEMMA SinceIsStored ==
  ASSUME IInv, NEW c \in Callers
  PROVE  /\ call[c].since <= Logical(stored) /\ call[c] \in CallStates /\ CallFits(c)
         /\ Logical(stored) \in Nat /\ stored.len \in Nat
  BY DEF IInv, Calls, CallFits, Typed, Logical, Sources

(* A call begins.                                                          *)
LEMMA BeginKeeps == ASSUME IInv, NEW c \in Callers, Begin(c) PROVE IInv'
  <1>1. /\ call[c].pc = "idle"
        /\ UNCHANGED <<storeVars, state, pool, entry, chain, run, liveVars>>
    BY DEF Begin
  <1>2. PICK r : r = [Idle EXCEPT !.pc = "outside", !.since = Logical(stored)]
    OBVIOUS
  <1>3. call' = [call EXCEPT ![c] = r]
    BY <1>2 DEF Begin, Step
  <1>4. Logical(stored) \in Nat /\ Logical(stored)' = Logical(stored)
    BY <1>1, SinceIsStored DEF Logical, storeVars
  <1>5. /\ r \in CallStates /\ r.pc = "outside" /\ r.entry = NoEntry /\ r.result = "none"
        /\ r.since = Logical(stored)
    BY <1>2, <1>4 DEF Idle, CallStates, EntryIds
  <1>6. call'[c] = r
    BY <1>3 DEF IInv, Typed
  <1>7. CallFits(c)'
    BY <1>1, <1>4, <1>5, <1>6 DEF CallFits, Granting, Grants
  <1>8. c \notin Holders /\ c \notin Holders'
    BY <1>1, <1>5, <1>6 DEF Holders
  <1> HIDE DEF Holders
  <1> QED
    BY <1>1, <1>3, <1>5, <1>7, <1>8, StayingKeeps

(* A call passes a retirement.                                             *)
LEMMA PassRetirementKeeps == ASSUME IInv, NEW c \in Callers, PassRetirement(c) PROVE IInv'
  <1>1. /\ call[c].pc = "outside"
        /\ UNCHANGED <<storeVars, state, pool, entry, chain, run, liveVars>>
    BY DEF PassRetirement
  <1>2. PICK r : r = [call[c] EXCEPT !.pc = "passed"]
    OBVIOUS
  <1>3. call' = [call EXCEPT ![c] = r]
    BY <1>2 DEF PassRetirement, Step
  <1>4. /\ Logical(stored)' = Logical(stored)
        /\ call[c].since <= Logical(stored) /\ call[c] \in CallStates /\ CallFits(c)
    BY <1>1, SinceIsStored DEF Logical, storeVars
  <1>5. /\ r \in CallStates /\ r.pc = "passed" /\ r.entry = call[c].entry
        /\ r.result = call[c].result /\ r.since = call[c].since
    BY <1>2, <1>4 DEF CallStates
  <1>6. call'[c] = r
    BY <1>3 DEF IInv, Typed
  <1>7. CallFits(c)'
    BY <1>1, <1>4, <1>5, <1>6 DEF CallFits, Granting, Grants
  <1>8. c \notin Holders /\ c \notin Holders'
    BY <1>1, <1>5, <1>6 DEF Holders
  <1> HIDE DEF Holders
  <1> QED
    BY <1>1, <1>3, <1>5, <1>7, <1>8, StayingKeeps

(* An answer is taken.                                                     *)
LEMMA AnsweredKeeps == ASSUME IInv, NEW c \in Callers, Answered(c) PROVE IInv'
  <1>1. /\ call[c].pc = "answered" /\ call' = [call EXCEPT ![c] = Idle]
        /\ UNCHANGED <<storeVars, state, pool, entry, chain, run, liveVars>>
    BY DEF Answered, Step
  <1>2. call'[c] = Idle
    BY <1>1 DEF IInv, Typed
  <1>3. Logical(stored) \in Nat /\ Logical(stored)' = Logical(stored)
    BY <1>1, SinceIsStored DEF Logical, storeVars
  <1>4. CallFits(c)'
    BY <1>2, <1>3, IdleIsTyped DEF CallFits, Granting, Grants
  <1>5. c \notin Holders /\ c \notin Holders'
    BY <1>1, <1>2, IdleIsTyped DEF Holders
  <1> HIDE DEF Holders
  <1> QED
    BY <1>1, <1>4, <1>5, IdleIsTyped, StayingKeeps

(* A call meets a live session.                                            *)
LEMMA MeetsLiveKeeps == ASSUME IInv, NEW c \in Callers, MeetsLive(c) PROVE IInv'
  <1>1. /\ live = "live" /\ call' = [call EXCEPT ![c] = Leaves(c, "idle")]
        /\ call[c].pc \in {"outside", "passed", "reserved"}
        /\ pool' = (IF call[c].pc = "reserved" THEN Removed(call[c].entry) ELSE pool)
        /\ entry' = Kept(entry)
        /\ UNCHANGED <<storeVars, state, liveVars, chain, run>>
    BY DEF MeetsLive, Step, AtDoor
  <1>2. pool = NoEntry
    BY <1>1 DEF IInv, PoolFits
  <1>3. pool' = pool /\ c \notin Holders
    BY <1>1, <1>2 DEF Removed, Holders, InPool
  <1>4. PICK r : r = Leaves(c, "idle")
    OBVIOUS
  <1>5. r \in CallStates /\ r.pc = "idle" /\ r.entry = NoEntry /\ r.result = "none"
        /\ r.since <= Logical(stored)
    BY <1>4, LeavesIsTyped, SinceIsStored DEF IInv
  <1> HIDE DEF Holders
  <1> QED
    BY <1>1, <1>3, <1>4, <1>5, LeavingKeeps

(* A call's load fails.                                                    *)
LEMMA LoadFailsKeeps == ASSUME IInv, NEW c \in Callers, LoadFails(c) PROVE IInv'
  <1>1. /\ call' = [call EXCEPT ![c] = Leaves(c, "idle")]
        /\ call[c].pc = "loading" /\ pool' = pool /\ entry' = Kept(entry)
        /\ UNCHANGED <<storeVars, state, liveVars, chain, run>>
    BY DEF LoadFails, Step
  <1>2. c \notin Holders
    BY <1>1 DEF Holders
  <1>3. PICK r : r = Leaves(c, "idle")
    OBVIOUS
  <1>4. r \in CallStates /\ r.pc = "idle" /\ r.entry = NoEntry /\ r.result = "none"
        /\ r.since <= Logical(stored)
    BY <1>3, LeavesIsTyped, SinceIsStored DEF IInv
  <1> HIDE DEF Holders
  <1> QED
    BY <1>1, <1>2, <1>3, <1>4, LeavingKeeps

(* A preparation is reserved.                                              *)
LEMMA ReserveKeeps == ASSUME IInv, NEW c \in Callers, Reserve(c) PROVE IInv'
  <1>1. PICK e : e = call[c].entry
    OBVIOUS
  <1>2. /\ call[c].pc = "committing" /\ call[c].result # "none"
        /\ UNCHANGED <<storeVars, state, liveVars>>
    BY DEF Reserve
  <1>3. CallFits(c) /\ call[c] \in CallStates /\ call[c].since <= Logical(stored)
    BY SinceIsStored
  <1>4. e # NoEntry /\ (c \in Holders <=> pool = e)
    BY <1>1, <1>2, <1>3 DEF CallFits, Holders, InPool
  <1>5. \A d \in Holders : c \in Holders => d = c
    BY DEF IInv, PoolFits
  <1>6. CASE call[c].result = "committed" /\ call[c].aborted
    <2>1. /\ call' = [call EXCEPT ![c] = Leaves(c, "idle")] /\ UNCHANGED <<pool, chain, run>>
          /\ entry' = Kept(IF InPool(e) THEN [entry EXCEPT ![e] = Ready(e)] ELSE entry)
      BY <1>1, <1>6 DEF Reserve, Step
    <2>2. PICK r : r = Leaves(c, "idle")
      OBVIOUS
    <2>3. r \in CallStates /\ r.pc = "idle" /\ r.entry = NoEntry /\ r.result = "none"
          /\ r.since <= Logical(stored)
      BY <1>3, <2>2, LeavesIsTyped DEF IInv
    <2>4. PICK f : f = IF InPool(e) THEN [entry EXCEPT ![e] = Ready(e)] ELSE entry
      OBVIOUS
    <2>5. \/ pool' = pool /\ c \notin Holders /\ f = entry
          \/ pool' = pool /\ c \in Holders /\ f = [entry EXCEPT ![pool] = Ready(pool)]
      BY <1>4, <2>1, <2>4 DEF InPool
    <2> HIDE DEF Holders
    <2> QED
      BY <1>2, <2>1, <2>2, <2>3, <2>4, <2>5, LeavingKeeps
  <1>7. CASE call[c].result = "committed" /\ ~call[c].aborted /\ InPool(e)
    <2>1. PICK r : r = [call[c] EXCEPT !.pc = "reserved", !.result = "none"]
      OBVIOUS
    <2>2. PICK f : f = [entry EXCEPT ![e].phase = "reserved"]
      OBVIOUS
    <2>3. /\ call' = [call EXCEPT ![c] = r] /\ entry' = f
          /\ pool' = pool /\ chain' = chain /\ run' = run
      BY <1>1, <1>7, <2>1, <2>2 DEF Reserve, Step
    <2>4. /\ r \in CallStates /\ r.pc = "reserved" /\ r.entry = e /\ r.result = "none"
          /\ r.since = call[c].since
      BY <1>1, <1>3, <2>1 DEF CallStates
    <2>5. /\ pool = e /\ e \in Entries /\ c \in Holders /\ entry[e].phase = "committing"
          /\ entry \in [Entries -> EntryStates] /\ entry[e] \in EntryStates
          /\ Granting(c) /\ call \in [Callers -> CallStates]
      BY <1>2, <1>4, <1>7 DEF InPool, IInv, PoolFits, Typed, EntryIds, Granting, Grants
    <2>6. /\ f \in [Entries -> EntryStates] /\ f[e].phase = "reserved"
          /\ f[e].source = entry[e].source /\ f[e].result = entry[e].result
          /\ \A x \in Entries : x # e => f[x] = entry[x]
      <3>1. [entry[e] EXCEPT !.phase = "reserved"] \in EntryStates
        BY <2>5 DEF EntryStates
      <3> QED
        BY <2>2, <2>5, <3>1 DEF EntryStates
    <2>7. /\ entry' \in [Entries -> EntryStates] /\ References'
          /\ \A x \in Entries :
                /\ Referenced(x)' =>
                     /\ entry'[x].source = entry[x].source
                     /\ entry'[x].result = entry[x].result
                     /\ entry[x].phase = "loading" => entry'[x].phase = "loading"
                /\ entry'[x].source = entry[x].source \/ entry'[x] = Blank
      BY <1>1, <2>3, <2>4, <2>5, <2>6, CallerEntries
    <2>8. call'[c] = r /\ \A d \in Callers : d # c => call'[d] = call[d]
      BY <2>3, <2>5
    <2>9. CallFits(c)'
      <3>1. Fresher(c)'
        <4>1. Fresher(c)
          BY <1>3, <2>5 DEF CallFits
        <4>2. entry'[call'[c].entry].source = entry[call[c].entry].source
              /\ call'[c].since = call[c].since
          BY <1>1, <2>3, <2>4, <2>6, <2>8
        <4> QED
          BY <4>1, <4>2, FresherStays
      <3>2. Logical(stored)' = Logical(stored)
        BY <1>2 DEF Logical, storeVars
      <3>3. state' = state /\ state.owner = "none" /\ state.cursor = entry'[e].source.len
        BY <1>1, <1>2, <1>3, <2>3, <2>5, <2>6 DEF CallFits
      <3>4. entry'[e].result = "ok" /\ e # NoEntry /\ pool' = e
        BY <1>1, <1>2, <1>3, <1>4, <2>3, <2>5, <2>6 DEF CallFits
      <3> QED
        BY <1>3, <2>4, <2>8, <3>1, <3>2, <3>3, <3>4 DEF CallFits
    <2>10. c \in Holders' /\ \A d \in Callers : d # c => d \notin Holders'
      <3>1. c \in Holders'
        BY <2>3, <2>4, <2>5, <2>8, <1>4 DEF Holders, InPool
      <3>2. \A d \in Callers : d # c => d \notin Holders
        BY <1>5, <2>5
      <3>3. \A d \in Callers : d # c /\ d \in Holders' => d \in Holders
        BY <2>3, <2>8 DEF Holders, InPool
      <3> QED
        BY <3>1, <3>2, <3>3
    <2>11. PoolFits'
      <3>1. live' # "live"
        BY <1>2, <1>4, <2>5 DEF IInv, PoolFits, liveVars
      <3>2. entry'[pool'].phase = "reserved" /\ entry'[pool'].result = "ok"
        BY <1>1, <1>2, <1>3, <2>3, <2>5, <2>6 DEF CallFits
      <3>3. \A d \in Holders' : d = c
        <4>1. \A d \in Holders' : d \in Callers
          BY DEF Holders
        <4> QED
          BY <2>10, <4>1
      <3>4. call'[c].pc # "committing"
        BY <2>4, <2>8
      <3> HIDE DEF Holders
      <3> QED
        BY <2>10, <3>1, <3>2, <3>3, <3>4 DEF PoolFits
    <2>12. Job("read", c, NoEntry) \in Jobs
      BY DEF Job, Jobs, EntryIds
    <2> HIDE DEF Holders
    <2> QED
      BY <1>2, <2>3, <2>4, <2>5, <2>7, <2>9, <2>11, <2>12, CallerSteps
  <1>8. CASE ~(call[c].result = "committed" /\ (call[c].aborted \/ InPool(e)))
    <2>1. PICK r : r = Leaves(c, IF call[c].result = "failed" THEN "idle" ELSE "outside")
      OBVIOUS
    <2>2. /\ call' = [call EXCEPT ![c] = r] /\ UNCHANGED <<chain, run>>
          /\ pool' = Removed(e) /\ entry' = Kept(entry)
      BY <1>1, <1>8, <2>1 DEF Reserve, Step
    <2>3. r \in CallStates /\ r.pc \in {"idle", "outside"} /\ r.entry = NoEntry
          /\ r.result = "none" /\ r.since <= Logical(stored)
      <3>1. CASE call[c].result = "failed"
        BY <1>3, <2>1, <3>1, LeavesIsTyped DEF IInv
      <3>2. CASE call[c].result # "failed"
        BY <1>3, <2>1, <3>2, LeavesIsTyped DEF IInv
      <3> QED
        BY <3>1, <3>2
    <2>4. \/ /\ pool' = NoEntry /\ \A d \in Holders : d = c
          \/ pool' = pool /\ c \notin Holders
      BY <1>4, <1>5, <2>2 DEF Removed
    <2> HIDE DEF Holders
    <2> QED
      BY <1>2, <2>2, <2>3, <2>4, LeavingKeeps
  <1> QED
    BY <1>6, <1>7, <1>8

(* What a caller finds at an entry that has been read.                     *)
LEMMA LoadedIs ==
  ASSUME IInv, NEW c \in Callers, Loaded(c)
  PROVE  /\ call[c].pc = "loading" /\ call[c].result = "none" /\ call[c].entry \in Entries
         /\ entry[call[c].entry].result = "ok" /\ call[c] \in CallStates
         /\ call[c].since <= Logical(stored) /\ c \notin Holders
         /\ \A i \in DOMAIN chain : ~(Asks(chain[i]) /\ chain[i].who = c)
  <1>1. /\ call[c].pc = "loading" /\ entry[call[c].entry].result = "ok"
        /\ call[c] \in CallStates /\ CallFits(c) /\ call[c].since <= Logical(stored)
    BY SinceIsStored DEF Loaded
  <1>2. call[c].result = "none" /\ call[c].entry \in Entries
    BY <1>1 DEF CallFits, CallStates, EntryIds
  <1>3. \A i \in DOMAIN chain : ~(Asks(chain[i]) /\ chain[i].who = c)
    BY <1>1 DEF IInv, Queue, JobFits
  <1>4. c \notin Holders
    BY <1>1 DEF Holders
  <1> QED
    BY <1>1, <1>2, <1>3, <1>4

(* reserve, of an entry that left the pool and of one that is ready.       *)
LEMMA ClaimKeeps == ASSUME IInv, NEW c \in Callers, Claim(c) PROVE IInv'
  <1>1. PICK e : e = call[c].entry
    OBVIOUS
  <1>2. Loaded(c) /\ UNCHANGED <<storeVars, state, liveVars>>
    BY DEF Claim
  <1>3. /\ call[c].pc = "loading" /\ call[c].result = "none" /\ e \in Entries
        /\ entry[e].result = "ok" /\ call[c] \in CallStates
        /\ call[c].since <= Logical(stored) /\ c \notin Holders
        /\ \A i \in DOMAIN chain : ~(Asks(chain[i]) /\ chain[i].who = c)
    BY <1>1, <1>2, LoadedIs
  <1>4. CASE /\ call' = [call EXCEPT ![c] = Leaves(c, "outside")]
             /\ UNCHANGED <<pool, chain, run>> /\ entry' = Kept(entry)
    <2>1. PICK r : r = Leaves(c, "outside")
      OBVIOUS
    <2>2. r \in CallStates /\ r.pc = "outside" /\ r.entry = NoEntry /\ r.result = "none"
          /\ r.since <= Logical(stored)
      BY <1>3, <2>1, LeavesIsTyped DEF IInv
    <2> HIDE DEF Holders
    <2> QED
      BY <1>2, <1>3, <1>4, <2>1, <2>2, LeavingKeeps
  <1>5. CASE /\ InPool(e) /\ entry[e].phase = "ready"
             /\ call' = [call EXCEPT ![c] = [call[c] EXCEPT !.pc = "committing"]]
             /\ entry' = [entry EXCEPT ![e].phase = "committing"]
             /\ Enqueue(Job("commit", c, e)) /\ UNCHANGED pool
    <2>1. PICK r : r = [call[c] EXCEPT !.pc = "committing"]
      OBVIOUS
    <2>2. PICK f : f = [entry EXCEPT ![e].phase = "committing"]
      OBVIOUS
    <2>3. PICK job : job = Job("commit", c, e)
      OBVIOUS
    <2>4. /\ call' = [call EXCEPT ![c] = r] /\ entry' = f /\ pool' = pool /\ pool = e
          /\ Enqueue(job)
      BY <1>5, <2>1, <2>2, <2>3 DEF InPool
    <2>5. /\ r \in CallStates /\ r.pc = "committing" /\ r.entry = e /\ r.result = "none"
          /\ r.since = call[c].since
      BY <1>1, <1>3, <2>1 DEF CallStates
    <2>6. /\ entry \in [Entries -> EntryStates] /\ entry[e] \in EntryStates
          /\ call \in [Callers -> CallStates] /\ Typed /\ RunFits
      BY <1>3 DEF IInv, Typed
    <2>7. /\ f \in [Entries -> EntryStates] /\ f[e].phase = "committing"
          /\ f[e].source = entry[e].source /\ f[e].result = entry[e].result
          /\ \A x \in Entries : x # e => f[x] = entry[x]
      <3>1. [entry[e] EXCEPT !.phase = "committing"] \in EntryStates
        BY <2>6 DEF EntryStates
      <3> QED
        BY <1>3, <2>2, <2>6, <3>1 DEF EntryStates
    <2>8. /\ job \in Jobs /\ job.op = "commit" /\ job.who = c /\ job.entry = e /\ ~job.dropped
          /\ c # "live" /\ e # NoEntry
      BY <1>3, <2>3, CallersAssumption DEF Job, Jobs, EntryIds, Entries, NoEntry
    <2>9. /\ \A i \in DOMAIN chain' : i \in DOMAIN chain \/ chain'[i] = job
          /\ \A i \in DOMAIN chain : chain'[i] = chain[i] /\ i \in DOMAIN chain'
      BY <2>4, <2>6, <2>8, QueueGrows
    <2>10. /\ entry' \in [Entries -> EntryStates] /\ References'
           /\ \A x \in Entries :
                 /\ Referenced(x)' =>
                      /\ entry'[x].source = entry[x].source
                      /\ entry'[x].result = entry[x].result
                      /\ entry[x].phase = "loading" => entry'[x].phase = "loading"
                 /\ entry'[x].source = entry[x].source \/ entry'[x] = Blank
      <3>1. \A x \in Entries :
             \/ f[x] = entry[x]
             \/ /\ f[x].source = entry[x].source /\ f[x].result = entry[x].result
                /\ entry[x].phase \notin {"loading", "absent"} /\ f[x].phase # "absent"
        BY <1>5, <2>7
      <3>2. \A i \in DOMAIN chain' : \/ i \in DOMAIN chain /\ chain'[i] = chain[i]
                                     \/ chain'[i].entry \in {NoEntry, call[c].entry}
        BY <1>1, <2>8, <2>9
      <3> QED
        BY <1>1, <2>4, <2>5, <2>7, <3>1, <3>2, CallerEntries
    <2>11. call'[c] = r /\ \A d \in Callers : d # c => call'[d] = call[d]
      BY <2>4, <2>6
    <2>12. ~Granting(c)'
      BY <2>5, <2>11 DEF Granting, Grants
    <2>13. CallFits(c)'
      <3>1. Logical(stored)' = Logical(stored)
        BY <1>2 DEF Logical, storeVars
      <3> QED
        BY <1>3, <2>4, <2>5, <2>7, <2>8, <2>11, <2>12, <3>1 DEF CallFits
    <2>14. \A d : d \notin Holders
      <3>1. \A d \in Holders : entry[pool].phase \in {"committing", "reserved"}
        BY DEF IInv, PoolFits
      <3> QED
        BY <1>5, <2>4, <3>1
    <2>15. PoolFits'
      <3>1. \A d \in Callers : d # c => d \notin Holders'
        BY <2>4, <2>11, <2>14 DEF Holders, InPool
      <3>2. c \in Holders'
        BY <2>4, <2>5, <2>8, <2>11 DEF Holders, InPool
      <3>3. \A d \in Holders' : d = c
        <4>1. \A d \in Holders' : d \in Callers
          BY DEF Holders
        <4> QED
          BY <3>1, <4>1
      <3>4. live' # "live"
        BY <1>2, <2>4, <2>8 DEF IInv, PoolFits, liveVars
      <3>5. entry'[pool'].phase = "committing" /\ entry'[pool'].result = "ok"
        BY <1>3, <2>4, <2>7
      <3>6. call'[c].pc = "committing"
        BY <2>5, <2>11
      <3> HIDE DEF Holders
      <3> QED
        BY <3>2, <3>3, <3>4, <3>5, <3>6 DEF PoolFits
    <2>16. JobFits(job)'
      BY <1>3, <2>4, <2>5, <2>7, <2>8, <2>11 DEF JobFits, Asks
    <2>17. \A i \in DOMAIN chain : ~Clash(chain[i], job)
      BY <1>3, <2>8 DEF Clash
    <2> HIDE DEF Holders
    <2> QED
      BY <1>2, <1>3, <2>4, <2>5, <2>8, <2>10, <2>12, <2>13, <2>15, <2>16, <2>17, CallerSteps
  <1> QED
    BY <1>1, <1>4, <1>5 DEF Claim, Step

(* inspect's question, which is asked on the chain.                        *)
LEMMA AskCurrentKeeps == ASSUME IInv, NEW c \in Callers, AskCurrent(c) PROVE IInv'
  <1>1. PICK e : e = call[c].entry
    OBVIOUS
  <1>2. Loaded(c) /\ UNCHANGED <<storeVars, state, liveVars>>
    BY DEF AskCurrent
  <1>3. /\ call[c].pc = "loading" /\ call[c].result = "none" /\ e \in Entries
        /\ entry[e].result = "ok" /\ call[c] \in CallStates
        /\ call[c].since <= Logical(stored) /\ c \notin Holders
        /\ \A i \in DOMAIN chain : ~(Asks(chain[i]) /\ chain[i].who = c)
    BY <1>1, <1>2, LoadedIs
  <1>4. CASE /\ call' = [call EXCEPT ![c] = Leaves(c, "idle")]
             /\ UNCHANGED <<pool, chain, run>> /\ entry' = Kept(entry)
    <2>1. PICK r : r = Leaves(c, "idle")
      OBVIOUS
    <2>2. r \in CallStates /\ r.pc = "idle" /\ r.entry = NoEntry /\ r.result = "none"
          /\ r.since <= Logical(stored)
      BY <1>3, <2>1, LeavesIsTyped DEF IInv
    <2> HIDE DEF Holders
    <2> QED
      BY <1>2, <1>3, <1>4, <2>1, <2>2, LeavingKeeps
  <1>5. CASE /\ call' = [call EXCEPT ![c] = [call[c] EXCEPT !.pc = "checking"]]
             /\ Enqueue(Job("check", c, e)) /\ UNCHANGED <<pool, entry>>
    <2>1. PICK r : r = [call[c] EXCEPT !.pc = "checking"]
      OBVIOUS
    <2>2. PICK job : job = Job("check", c, e)
      OBVIOUS
    <2>3. /\ call' = [call EXCEPT ![c] = r] /\ entry' = entry /\ pool' = pool /\ Enqueue(job)
      BY <1>5, <2>1, <2>2
    <2>4. /\ r \in CallStates /\ r.pc = "checking" /\ r.entry = e /\ r.result = "none"
          /\ r.since = call[c].since
      BY <1>1, <1>3, <2>1 DEF CallStates
    <2>5. /\ entry \in [Entries -> EntryStates]
          /\ call \in [Callers -> CallStates] /\ Typed /\ RunFits
      BY DEF IInv, Typed
    <2>6. /\ job \in Jobs /\ job.op = "check" /\ job.who = c /\ job.entry = e /\ ~job.dropped
          /\ c # "live" /\ e # NoEntry
      BY <1>3, <2>2, CallersAssumption DEF Job, Jobs, EntryIds, Entries, NoEntry
    <2>7. /\ \A i \in DOMAIN chain' : i \in DOMAIN chain \/ chain'[i] = job
          /\ \A i \in DOMAIN chain : chain'[i] = chain[i] /\ i \in DOMAIN chain'
      BY <2>3, <2>5, <2>6, QueueGrows
    <2>8. /\ entry' \in [Entries -> EntryStates] /\ References'
          /\ \A x \in Entries :
                /\ Referenced(x)' =>
                     /\ entry'[x].source = entry[x].source
                     /\ entry'[x].result = entry[x].result
                     /\ entry[x].phase = "loading" => entry'[x].phase = "loading"
                /\ entry'[x].source = entry[x].source \/ entry'[x] = Blank
      <3>1. \A i \in DOMAIN chain' : \/ i \in DOMAIN chain /\ chain'[i] = chain[i]
                                     \/ chain'[i].entry \in {NoEntry, call[c].entry}
        BY <1>1, <2>6, <2>7
      <3> QED
        BY <1>1, <2>3, <2>4, <2>5, <3>1, CallerEntries
    <2>9. call'[c] = r /\ \A d \in Callers : d # c => call'[d] = call[d]
      BY <2>3, <2>5
    <2>10. ~Granting(c)'
      BY <2>4, <2>9 DEF Granting, Grants
    <2>11. CallFits(c)'
      <3>1. Logical(stored)' = Logical(stored)
        BY <1>2 DEF Logical, storeVars
      <3> QED
        BY <1>3, <2>3, <2>4, <2>6, <2>9, <2>10, <3>1 DEF CallFits
    <2>12. PoolFits'
      <3>1. c \notin Holders'
        BY <2>4, <2>9 DEF Holders
      <3>2. \A d \in Callers : d # c =>
              /\ d \in Holders' <=> d \in Holders
              /\ d \in Holders => (call'[d].pc = "committing" <=> call[d].pc = "committing")
        BY <2>3, <2>9 DEF Holders, InPool
      <3>3. \A d \in Callers :
              /\ d \in Holders' <=> d \in Holders
              /\ d \in Holders => (call'[d].pc = "committing" <=> call[d].pc = "committing")
        BY <1>3, <3>1, <3>2
      <3>4. pool # NoEntry => live' # "live"
        BY <1>2 DEF IInv, PoolFits, liveVars
      <3>5. \A i \in DOMAIN chain : chain[i].op = "read" /\ chain[i].entry = pool
              => \E j \in DOMAIN chain' : chain'[j].op = "read" /\ chain'[j].entry = pool
        BY <2>7
      <3> HIDE DEF Holders
      <3> QED
        BY <2>3, <3>3, <3>4, <3>5, PoolStays DEF IInv
    <2>13. JobFits(job)'
      BY <1>3, <2>3, <2>4, <2>6, <2>9 DEF JobFits, Asks
    <2>14. \A i \in DOMAIN chain : ~Clash(chain[i], job)
      BY <1>3, <2>6 DEF Clash
    <2> HIDE DEF Holders
    <2> QED
      BY <1>2, <1>3, <2>3, <2>4, <2>6, <2>8, <2>10, <2>11, <2>12, <2>13, <2>14, CallerSteps
  <1> QED
    BY <1>1, <1>4, <1>5 DEF AskCurrent, Step

(* The answer of a call: what its entry was read from.                     *)
LEMMA AnswerIsTyped ==
  ASSUME Typed, NEW c \in Callers, NEW e \in Entries
  PROVE  /\ Answer(c, entry[e].source) \in CallStates
         /\ Answer(c, entry[e].source).pc = "answered"
         /\ Answer(c, entry[e].source).entry = NoEntry
         /\ Answer(c, entry[e].source).result = "none"
         /\ Answer(c, entry[e].source).since = call[c].since
         /\ Answer(c, entry[e].source).got = Logical(entry[e].source)
         /\ call[c].since \in Nat /\ Logical(entry[e].source) \in Nat
  <1>1. call[c] \in CallStates /\ entry[e].source \in Sources
    BY DEF Typed, EntryStates
  <1>2. Logical(entry[e].source) \in Nat
    BY <1>1 DEF Sources, Logical
  <1> QED
    BY <1>1, <1>2 DEF Answer, Leaves, CallStates, EntryIds

(* The reservation is granted: load answers, prepare keeps it.             *)
LEMMA GrantedKeeps == ASSUME IInv, NEW c \in Callers, Granted(c) PROVE IInv'
  <1>1. PICK e : e = call[c].entry
    OBVIOUS
  <1>2. call[c].pc = "reserved" /\ UNCHANGED <<storeVars, state, liveVars>>
    BY DEF Granted
  <1>3. /\ CallFits(c) /\ call[c] \in CallStates /\ call[c].since <= Logical(stored)
        /\ Granting(c) /\ Typed /\ PoolFits
    BY <1>2, SinceIsStored DEF IInv, Granting, Grants
  <1>4. /\ e \in Entries /\ e # NoEntry /\ pool = e /\ call[c].result = "none" /\ c \in Holders
        /\ entry[e].result = "ok" /\ Fresher(c)
    BY <1>1, <1>2, <1>3 DEF CallFits, CallStates, EntryIds, Holders, InPool
  <1>5. CASE /\ call' = [call EXCEPT ![c] = Answer(c, entry[e].source)]
             /\ pool' = Removed(e) /\ UNCHANGED <<chain, run>> /\ entry' = Kept(entry)
    <2>1. PICK r : r = Answer(c, entry[e].source)
      OBVIOUS
    <2>2. /\ r \in CallStates /\ r.pc = "answered" /\ r.entry = NoEntry /\ r.result = "none"
          /\ r.since <= Logical(stored) /\ r.got >= r.since
      BY <1>1, <1>3, <1>4, <2>1, AnswerIsTyped DEF Fresher
    <2>3. pool' = NoEntry /\ \A d \in Holders : d = c
      BY <1>3, <1>4, <1>5 DEF Removed, PoolFits
    <2> HIDE DEF Holders
    <2> QED
      BY <1>2, <1>5, <2>1, <2>2, <2>3, LeavingKeeps
  <1>6. CASE /\ call' = [call EXCEPT ![c] = [call[c] EXCEPT !.pc = "holding"]]
             /\ UNCHANGED <<pool, entry, chain, run>>
    <2>1. PICK r : r = [call[c] EXCEPT !.pc = "holding"]
      OBVIOUS
    <2>2. /\ r \in CallStates /\ r.pc = "holding" /\ r.entry = e /\ r.result = "none"
          /\ r.since = call[c].since
      BY <1>1, <1>3, <1>4, <2>1 DEF CallStates
    <2>3. call'[c] = r /\ Logical(stored)' = Logical(stored)
          /\ state' = state /\ entry' = entry /\ pool' = pool
      BY <1>2, <1>3, <1>6, <2>1 DEF Typed, Logical, storeVars
    <2>4. CallFits(c)'
      <3>1. Fresher(c)'
        BY <1>1, <1>4, <2>2, <2>3, FresherStays
      <3> QED
        BY <1>1, <1>2, <1>3, <1>4, <2>2, <2>3, <3>1 DEF CallFits
    <2>5. c \in Holders' /\ Granting(c)
      BY <1>3, <1>4, <2>2, <2>3 DEF Holders, InPool
    <2> HIDE DEF Holders
    <2> QED
      BY <1>1, <1>2, <1>4, <1>6, <2>1, <2>2, <2>4, <2>5, StayingKeeps
  <1> QED
    BY <1>1, <1>5, <1>6 DEF Granted, Step

(* inspect's answer: the entry is current, borrowed, or to be read again.  *)
LEMMA InspectedKeeps == ASSUME IInv, NEW c \in Callers, Inspected(c) PROVE IInv'
  <1>1. PICK e : e = call[c].entry
    OBVIOUS
  <1>2. /\ call[c].pc = "checking" /\ call[c].result # "none"
        /\ entry' = Kept(entry) /\ UNCHANGED <<storeVars, state, liveVars, chain, run>>
    BY DEF Inspected
  <1>3. CallFits(c) /\ call[c] \in CallStates /\ call[c].since <= Logical(stored) /\ Typed
    BY SinceIsStored DEF IInv
  <1>4. e \in Entries /\ e # NoEntry /\ c \notin Holders
    BY <1>1, <1>2, <1>3 DEF CallFits, CallStates, EntryIds, Holders
  <1>5. PICK borrowed : borrowed = (InPool(e) /\ entry[e].phase # "ready")
    OBVIOUS
  <1>6. PICK answer : answer = Answer(c, entry[e].source)
    OBVIOUS
  <1>7. /\ answer \in CallStates /\ answer.pc = "answered" /\ answer.entry = NoEntry
        /\ answer.result = "none" /\ answer.since = call[c].since
        /\ answer.got = Logical(entry[e].source)
        /\ call[c].since \in Nat /\ Logical(entry[e].source) \in Nat
    BY <1>3, <1>4, <1>6, AnswerIsTyped
  <1>8. CASE live = "live"
    <2>1. PICK r : r = Leaves(c, "idle")
      OBVIOUS
    <2>2. call' = [call EXCEPT ![c] = r] /\ pool' = pool
      BY <1>8, <2>1 DEF Inspected, Step
    <2>3. r \in CallStates /\ r.pc = "idle" /\ r.entry = NoEntry /\ r.result = "none"
          /\ r.since <= Logical(stored)
      BY <1>3, <2>1, LeavesIsTyped
    <2> HIDE DEF Holders
    <2> QED
      BY <1>2, <1>4, <2>2, <2>3, LeavingKeeps
  <1>9. CASE live # "live" /\ call[c].result = "current"
    <2>1. call' = [call EXCEPT ![c] = answer] /\ pool' = pool
      BY <1>1, <1>6, <1>9 DEF Inspected, Step
    <2>2. answer.got >= answer.since
      BY <1>1, <1>2, <1>3, <1>7, <1>9 DEF CallFits, Fresher
    <2> HIDE DEF Holders
    <2> QED
      BY <1>2, <1>3, <1>4, <1>7, <2>1, <2>2, LeavingKeeps
  <1>10. CASE live # "live" /\ call[c].result # "current" /\ InPool(e) /\ entry[e].phase # "ready"
    <2>1. PICK r : r = [answer EXCEPT !.result = "borrowed"]
      OBVIOUS
    <2>2. call' = [call EXCEPT ![c] = r] /\ pool' = pool
      BY <1>1, <1>6, <1>10, <2>1 DEF Inspected, Step
    <2>3. /\ r \in CallStates /\ r.pc = "answered" /\ r.entry = NoEntry /\ r.result = "borrowed"
          /\ r.since = call[c].since /\ r.got = answer.got
      BY <1>7, <2>1 DEF CallStates
    <2>4. written.foreign = 0 => r.got >= r.since
      <3>1. pool = call[c].entry
        BY <1>1, <1>10 DEF InPool
      <3>2. written.foreign = 0 => Fresher(c)
        BY <1>2, <1>3, <3>1 DEF CallFits
      <3> QED
        BY <1>1, <1>7, <2>3, <3>2 DEF Fresher
    <2> HIDE DEF Holders
    <2> QED
      BY <1>2, <1>3, <1>4, <2>2, <2>3, <2>4, LeavingKeeps
  <1>11. CASE /\ live # "live" /\ call[c].result # "current"
              /\ ~(InPool(e) /\ entry[e].phase # "ready")
    <2>1. PICK pc : pc = IF call[c].aborted THEN "idle" ELSE "outside"
      OBVIOUS
    <2>2. PICK r : r = Leaves(c, pc)
      OBVIOUS
    <2>3. call' = [call EXCEPT ![c] = r] /\ pool' = Removed(e)
      BY <1>1, <1>11, <2>1, <2>2 DEF Inspected, Step
    <2>4. pc \in {"idle", "outside", "answered"}
      BY <2>1
    <2>5. r \in CallStates /\ r.pc \in {"idle", "outside"} /\ r.entry = NoEntry /\ r.result = "none"
          /\ r.since <= Logical(stored)
      BY <1>3, <2>1, <2>2, <2>4, LeavesIsTyped
    <2>6. \/ pool' = NoEntry /\ \A d \in Holders : d = c
          \/ pool' = pool
      <3>1. \A d \in Holders : entry[pool].phase \in {"committing", "reserved"}
        BY DEF IInv, PoolFits
      <3> HIDE DEF Holders
      <3> QED
        BY <1>4, <1>11, <2>3, <3>1 DEF Removed, InPool
    <2> HIDE DEF Holders
    <2> QED
      BY <1>2, <1>4, <2>3, <2>5, <2>6, LeavingKeeps
  <1> QED
    BY <1>8, <1>9, <1>10, <1>11

(* release: the entry is reusable, or it is gone.                          *)
LEMMA ReleaseKeeps ==
  ASSUME IInv, NEW c \in Callers, NEW reusable \in BOOLEAN, Release(c, reusable)
  PROVE  IInv'
  <1>1. PICK e : e = call[c].entry
    OBVIOUS
  <1>2. /\ call[c].pc = "holding" /\ UNCHANGED <<storeVars, state, liveVars, chain, run>>
        /\ call' = [call EXCEPT ![c] = Idle]
        /\ pool' = IF reusable /\ state.owner = "none" THEN pool ELSE Removed(e)
        /\ entry' = Kept(IF InPool(e) /\ reusable /\ state.owner = "none"
                         THEN [entry EXCEPT ![e] = Ready(e)] ELSE entry)
    BY <1>1 DEF Release, Step
  <1>3. CallFits(c) /\ call[c] \in CallStates /\ Logical(stored) \in Nat
    BY SinceIsStored
  <1>4. e # NoEntry /\ pool = e /\ c \in Holders /\ \A d \in Holders : d = c
    BY <1>1, <1>2, <1>3 DEF CallFits, Holders, InPool, IInv, PoolFits
  <1>5. PICK f : f = IF InPool(e) /\ reusable /\ state.owner = "none"
                     THEN [entry EXCEPT ![e] = Ready(e)] ELSE entry
    OBVIOUS
  <1>6. \/ pool' = NoEntry /\ f = entry
        \/ pool' = pool /\ f = [entry EXCEPT ![pool] = Ready(pool)]
    BY <1>2, <1>4, <1>5 DEF InPool, Removed
  <1>7. Idle.since <= Logical(stored)
    BY <1>3, IdleIsTyped
  <1> HIDE DEF Holders
  <1> QED
    BY <1>2, <1>4, <1>5, <1>6, <1>7, IdleIsTyped, LeavingKeeps

(* The head of the queue when one more operation is queued, for what the   *)
(* running operation knows.                                                *)
LEMMA RunQueues ==
  ASSUME IInv, NEW job \in Jobs, Enqueue(job),
         Steps /\ Head(chain).op = "commit" =>
           /\ entry'[Head(chain).entry].source = entry[Head(chain).entry].source
           /\ call'[Head(chain).who].since = call[Head(chain).who].since,
         (Steps /\ Head(chain).op = "commit") \/ run.step \in {"adoptRead", "adopted", "compared",
                                                                   "writing", "written"}
           => state' = state,
         Steps => \A c \in Callers : c \in Holders' /\ Granting(c)' => c \in Holders /\ Granting(c)
  PROVE  /\ RunFits' /\ run'.source \in {run.source, NoSource}
         /\ \/ run' = run /\ (run.step = "written" => Head(chain').n = Head(chain).n)
            \/ run.step # "written" /\ run'.step \notin {"read", "written"} /\ ~run'.current
  <1>1. /\ chain' # <<>> /\ Typed /\ RunFits
        /\ chain # <<>> => run' = run /\ Head(chain') = Head(chain)
        /\ chain = <<>> => /\ run'.step = "queued" /\ ~run'.current /\ run'.source = NoSource
                           /\ run.step = "rest"
    BY QueueGrows DEF IInv
  <1> HIDE DEF Holders, Granting
  <1>2. CASE chain = <<>>
    BY <1>1, <1>2 DEF RunFits, Steps
  <1>3. CASE chain # <<>>
    <2>1. RunFits'
      BY <1>1, <1>3, RunStays
    <2> QED
      BY <1>1, <1>3, <2>1
  <1> QED
    BY <1>2, <1>3

(* entryFor: an entry nothing refers to is installed and read.             *)
LEMMA InstallKeeps ==
  ASSUME IInv, NEW c \in Callers, AtDoor(c), live # "live", pool = NoEntry, Free # {},
         pool' = Fresh, Step(c, [call[c] EXCEPT !.pc = "loading", !.entry = Fresh]),
         entry' = [entry EXCEPT ![Fresh] = [Blank EXCEPT !.phase = "loading",
                                                         !.result = "pending"]],
         Enqueue(Job("read", c, Fresh)), UNCHANGED <<storeVars, state, liveVars>>
  PROVE  IInv'
  <1>1. /\ stored' = stored /\ written' = written /\ state' = state /\ live' = live
        /\ unsaved' = unsaved
    BY DEF storeVars, liveVars
  <1>2. PICK e : e = Fresh
    OBVIOUS
  <1>3. e \in Entries /\ entry[e] = Blank /\ e # NoEntry /\ ~Referenced(e)
    <2>1. e \in Free
      BY <1>2, FreshIsFree
    <2>2. entry[e].phase = "absent" /\ e \in Entries /\ entry[e] = Blank
      BY <2>1 DEF Free, Blank
    <2> HIDE DEF Referenced
    <2> QED
      BY <2>2 DEF IInv, References, Entries, NoEntry
  <1>4. PICK g : g = [Blank EXCEPT !.phase = "loading", !.result = "pending"]
    OBVIOUS
  <1>5. /\ g \in EntryStates /\ g.phase = "loading" /\ g.result = "pending"
        /\ g.source = entry[e].source
    BY <1>3, <1>4, BlankIsTyped DEF Blank, EntryStates
  <1>6. /\ entry' = [entry EXCEPT ![e] = g] /\ entry \in [Entries -> EntryStates]
        /\ entry' \in [Entries -> EntryStates] /\ entry'[e] = g
        /\ \A x \in Entries : x # e => entry'[x] = entry[x]
    BY <1>2, <1>3, <1>4, <1>5 DEF IInv, Typed
  <1>7. PICK r : r = [call[c] EXCEPT !.pc = "loading", !.entry = e]
    OBVIOUS
  <1>8. /\ call[c] \in CallStates /\ CallFits(c) /\ call[c].since <= Logical(stored)
        /\ call[c].pc \in {"passed", "outside"}
    BY SinceIsStored DEF AtDoor
  <1>9. /\ r \in CallStates /\ r.pc = "loading" /\ r.entry = e /\ r.since = call[c].since
        /\ r.result = "none"
    BY <1>3, <1>7, <1>8 DEF CallStates, EntryIds, CallFits
  <1>10. /\ call' \in [Callers -> CallStates] /\ call'[c] = r
         /\ \A d \in Callers : d # c => call'[d] = call[d]
    BY <1>2, <1>7, <1>9 DEF IInv, Typed, Step
  <1>11. PICK job : job = Job("read", c, e)
    OBVIOUS
  <1>12. /\ job \in Jobs /\ job.op = "read" /\ job.who = c /\ job.entry = e /\ ~job.dropped
         /\ c # "live" /\ Enqueue(job)
    BY <1>2, <1>3, <1>11, CallersAssumption DEF Job, Jobs, EntryIds
  <1>13. /\ chain' \in Seq(Jobs) /\ run' \in Runs /\ chain' = Append(chain, job)
         /\ \A i \in DOMAIN chain : chain'[i] = chain[i] /\ i \in DOMAIN chain'
         /\ \A i \in DOMAIN chain' : i \in DOMAIN chain \/ chain'[i] = job
         /\ \E i \in DOMAIN chain' : chain'[i] = job
    BY <1>12, QueueGrows DEF IInv
  <1>14. Typed'
    BY <1>1, <1>2, <1>3, <1>6, <1>10, <1>13 DEF IInv, Typed, EntryIds
  <1>15. \A x : x # e /\ x # NoEntry => (Referenced(x)' <=> Referenced(x))
    <2>1. ASSUME NEW x, x # e, x # NoEntry PROVE Referenced(x)' <=> Referenced(x)
      <3>1. pool' = x <=> pool = x
        BY <1>2, <2>1
      <3>2. (\E d \in Callers : call'[d].entry = x) <=> \E d \in Callers : call[d].entry = x
        <4>1. call'[c].entry # x /\ call[c].entry # x
          BY <1>8, <1>9, <1>10, <2>1 DEF CallFits
        <4> QED
          BY <1>10, <4>1
      <3>3. (\E i \in DOMAIN chain' : chain'[i].entry = x)
            <=> \E i \in DOMAIN chain : chain[i].entry = x
        BY <1>12, <1>13, <2>1
      <3> QED
        BY <3>1, <3>2, <3>3 DEF Referenced
    <2> QED
      BY <2>1
  <1>16. References'
    <2>1. ASSUME NEW x \in Entries
          PROVE  /\ entry'[x].phase = "absent" => entry'[x] = Blank /\ ~Referenced(x)'
                 /\ entry'[x].phase # "absent" => entry'[x].result # "none"
      <3> HIDE DEF Referenced
      <3>1. x # NoEntry
        BY DEF Entries, NoEntry
      <3>2. CASE x = e
        BY <1>5, <1>6, <3>2
      <3>3. CASE x # e
        BY <1>6, <1>15, <3>1, <3>3 DEF IInv, References
      <3> QED
        BY <3>2, <3>3
    <2> QED
      BY <2>1 DEF References
  <1>17. \A d \in Callers : call[d].entry # e /\ (call[d].pc \notin {"reserved", "holding"})
    BY <1>3 DEF Referenced, IInv, Calls, CallFits
  <1>18. \A i \in DOMAIN chain : chain[i].entry # e
    BY <1>3 DEF Referenced
  <1>19. \A d : d \notin Holders'
    <2>1. \A d \in Callers : d \notin Holders'
      <3>1. c \notin Holders'
        BY <1>9, <1>10 DEF Holders
      <3>2. \A d \in Callers : d # c => d \notin Holders'
        BY <1>2, <1>10, <1>17 DEF Holders, InPool
      <3> QED
        BY <3>1, <3>2
    <2> QED
      BY <2>1 DEF Holders
  <1>20. ASSUME NEW d \in Callers PROVE CallFits(d)'
    <2>1. Logical(stored)' = Logical(stored) /\ Logical(stored) \in Nat
      BY <1>1, SinceIsStored DEF Logical
    <2>2. CASE d = c
      <3>1. ~Granting(c)'
        BY <1>9, <1>10 DEF Granting, Grants
      <3> QED
        BY <1>3, <1>8, <1>9, <1>10, <2>1, <2>2, <3>1 DEF CallFits
    <2>3. CASE d # c
      <3>1. CallFits(d) /\ Typed /\ call'[d] = call[d]
        BY <1>10, <2>3 DEF IInv, Calls
      <3>2. call[d].entry # NoEntry => entry'[call[d].entry] = entry[call[d].entry]
        BY <1>6, <1>17, <3>1 DEF Typed, CallStates, EntryIds
      <3> QED
        BY <1>1, <1>2, <1>17, <2>1, <3>1, <3>2, CallStays
    <2> QED
      BY <2>2, <2>3
  <1>21. \A i \in DOMAIN chain : Asks(chain[i]) =>
           chain[i].who \in Callers /\ call'[chain[i].who] = call[chain[i].who]
    BY <1>8, <1>10 DEF IInv, Queue, JobFits, Asks
  <1>22. ASSUME NEW i \in DOMAIN chain' PROVE JobFits(chain[i])'
    <2>1. CASE i \in DOMAIN chain
      <3>1. PICK j : j = chain[i]
        OBVIOUS
      <3>2. chain'[i] = j /\ j \in Jobs /\ JobFits(j) /\ j.entry # e
        BY <1>13, <1>18, <2>1, <3>1 DEF IInv, Queue, Typed
      <3>3. j.op \in {"read", "commit", "check"} => entry'[j.entry] = entry[j.entry]
        BY <1>6, <3>2 DEF JobFits, Jobs, EntryIds
      <3>4. Asks(j) => call'[j.who] = call[j.who]
        BY <1>21, <2>1, <3>1
      <3>5. JobFits(j)'
        BY <1>1, <1>2, <3>2, <3>3, <3>4, JobStays DEF JobFits
      <3> QED
        BY <3>2, <3>5 DEF JobFits, Asks
    <2>2. CASE i \notin DOMAIN chain
      <3>1. chain'[i] = job
        BY <1>13, <1>22, <2>2
      <3>2. JobFits(job)'
        BY <1>3, <1>5, <1>6, <1>12 DEF JobFits, Asks
      <3> QED
        BY <3>1, <3>2 DEF JobFits, Asks
    <2> QED
      BY <2>1, <2>2
  <1>23. Pairs'
    <2>1. \A i \in DOMAIN chain : ~Clash(chain[i], job)
      BY <1>12, <1>18 DEF Clash, Asks
    <2> QED
      BY <1>12, <1>13, <2>1, PairsAppend DEF IInv
  <1>24. InOrder'
    <2>1. /\ chain'[Len(chain) + 1] = job /\ Len(chain) \in Nat
          /\ DOMAIN chain = 1..Len(chain) /\ DOMAIN chain' = 1..(Len(chain) + 1)
      BY <1>12, <1>13, AppendFacts DEF IInv, Typed
    <2>2. Len(chain) + 1 \in DOMAIN chain' /\ job.op = "read" /\ job.entry = pool'
      BY <1>2, <1>12, <2>1
    <2>3. ASSUME NEW i \in DOMAIN chain', chain'[i].op = "commit"
          PROVE  Len(chain) + 1 > i
      <3>1. i # Len(chain) + 1
        BY <1>12, <2>1, <2>3
      <3> QED
        BY <2>1, <3>1
    <2> QED
      BY <2>1, <2>2, <2>3 DEF InOrder
  <1>25. PoolFits'
    <2>1. \E i \in DOMAIN chain' : chain'[i].op = "read" /\ chain'[i].entry = pool'
      BY <1>2, <1>12, <1>13
    <2>2. entry'[pool'].phase = "loading"
      BY <1>2, <1>5, <1>6
    <2> HIDE DEF Holders
    <2> QED
      BY <1>1, <1>19, <2>1, <2>2 DEF PoolFits
  <1>26. /\ RunFits' /\ run'.source \in {run.source, NoSource}
         /\ \/ run' = run /\ (run.step = "written" => Head(chain').n = Head(chain).n)
            \/ run.step # "written" /\ run'.step \notin {"read", "written"} /\ ~run'.current
    <2>1. ASSUME Steps, Head(chain).op = "commit"
          PROVE  /\ entry'[Head(chain).entry].source = entry[Head(chain).entry].source
                 /\ call'[Head(chain).who].since = call[Head(chain).who].since
      <3>1. chain # <<>> /\ ~Head(chain).dropped
        BY <2>1 DEF IInv, RunFits, Steps
      <3>2. Head(chain) \in Jobs /\ Head(chain) = chain[1] /\ 1 \in DOMAIN chain
            /\ JobFits(Head(chain))
        BY <3>1, HeadFacts
      <3>3. PICK j : j = Head(chain)
        OBVIOUS
      <3>4. j.entry # e /\ j.entry \in Entries /\ Asks(j) /\ j = chain[1]
        BY <1>18, <2>1, <3>1, <3>2, <3>3 DEF JobFits, Asks, Jobs, EntryIds
      <3>5. entry'[j.entry] = entry[j.entry] /\ call'[j.who] = call[j.who]
        BY <1>6, <1>21, <3>2, <3>4
      <3> QED
        BY <3>3, <3>5
    <2> HIDE DEF Holders, Granting
    <2> QED
      BY <1>1, <1>12, <1>19, <2>1, RunQueues
  <1>27. Copied'
    BY <1>1, <1>5, <1>6, <1>26, CopiedStays DEF IInv
  <1>28. Alone'
    <2>1. entry'[pool'].result # "ok"
      BY <1>2, <1>5, <1>6
    <2>2. /\ run'.step = "read" \/ run'.current => run' = run
          /\ run'.step = "written" => run.step = "written" /\ run' = run
                                      /\ Head(chain').n = Head(chain).n
          /\ run'.step # "written" => run.step # "written"
      BY <1>26
    <2> HIDE DEF Holders, Granting
    <2> QED
      BY <1>1, <1>19, <2>1, <2>2 DEF IInv, Alone
  <1>29. Living'
    BY <1>1 DEF IInv, Living
  <1>30. Calls'
    BY <1>20 DEF Calls
  <1> QED
    BY <1>14, <1>16, <1>22, <1>23, <1>24, <1>25, <1>26, <1>27, <1>28, <1>29, <1>30
    DEF IInv, Queue

(* entryFor: the entry is shared or installed.                             *)
LEMMA JoinKeeps == ASSUME IInv, NEW c \in Callers, Join(c) PROVE IInv'
  <1>1. AtDoor(c) /\ live # "live" /\ UNCHANGED <<storeVars, state, liveVars>>
    BY DEF Join
  <1>2. CASE /\ pool # NoEntry
             /\ Step(c, [call[c] EXCEPT !.pc = "loading", !.entry = pool])
             /\ UNCHANGED <<pool, entry, chain, run>>
    <2>1. PICK r : r = [call[c] EXCEPT !.pc = "loading", !.entry = pool]
      OBVIOUS
    <2>2. /\ call[c] \in CallStates /\ CallFits(c) /\ call[c].since <= Logical(stored)
          /\ call[c].pc \in {"passed", "outside"}
      BY <1>1, SinceIsStored DEF AtDoor
    <2>3. /\ r \in CallStates /\ r.pc = "loading" /\ r.entry = pool /\ r.since = call[c].since
          /\ r.result = "none"
      BY <2>1, <2>2 DEF CallStates, IInv, Typed, CallFits
    <2>4. call' = [call EXCEPT ![c] = r] /\ call'[c] = r /\ Logical(stored)' = Logical(stored)
      BY <1>1, <1>2, <2>1 DEF IInv, Typed, Step, Logical, storeVars
    <2>5. ~Granting(c)'
      BY <2>3, <2>4 DEF Granting, Grants
    <2>6. CallFits(c)'
      BY <1>2, <2>2, <2>3, <2>4, <2>5 DEF CallFits
    <2>7. c \notin Holders /\ c \notin Holders'
      BY <2>2, <2>3, <2>4 DEF Holders
    <2> HIDE DEF Holders
    <2> QED
      BY <1>1, <1>2, <2>2, <2>3, <2>4, <2>6, <2>7, StayingKeeps
  <1>3. CASE /\ pool = NoEntry /\ Free # {} /\ pool' = Fresh
             /\ Step(c, [call[c] EXCEPT !.pc = "loading", !.entry = Fresh])
             /\ entry' = [entry EXCEPT ![Fresh] = [Blank EXCEPT !.phase = "loading",
                                                                !.result = "pending"]]
             /\ Enqueue(Job("read", c, Fresh))
    BY <1>1, <1>3, InstallKeeps
  <1> QED
    BY <1>2, <1>3 DEF Join

(* The live session goes on, or is disposed of.                            *)
LEMMA LiveMoves ==
  ASSUME IInv, UNCHANGED <<stored, state, pool, entry, chain, run, call>>,
         written' \in [all : Nat, foreign : Nat], written'.foreign = written.foreign,
         live' = live \/ (live = "live" /\ live' = "retiring"),
         unsaved' \in Nat, unsaved' >= unsaved
  PROVE  IInv'
  <1>1. Typed /\ Typed'
    BY DEF IInv, Typed
  <1>2. Logical(stored)' = Logical(stored) /\ Logical(stored) \in Nat
    BY <1>1 DEF Logical, Typed, Sources
  <1>3. \A c : (c \in Holders' <=> c \in Holders) /\ (Granting(c)' <=> Granting(c))
    BY DEF Holders, InPool, Granting
  <1>4. ASSUME NEW c \in Callers PROVE CallFits(c)'
    <2>1. CallFits(c)
      BY DEF IInv, Calls
    <2> QED
      BY <1>1, <1>2, <2>1, CallStays
  <1>5. Calls'
    BY <1>4 DEF Calls
  <1>6. ASSUME NEW i \in DOMAIN chain PROVE JobFits(chain[i])'
    <2>1. PICK j : j = chain[i]
      OBVIOUS
    <2>2. JobFits(j) /\ j \in Jobs
      BY <1>1, <2>1 DEF IInv, Queue, Typed
    <2>3. j.who = "live" /\ j.op = "append" => j.n <= unsaved'
      BY <1>1, <2>2 DEF JobFits, Jobs, Typed
    <2>4. JobFits(j)'
      BY <2>2, <2>3, JobStays
    <2> QED
      BY <2>1, <2>4 DEF JobFits, Asks
  <1>7. Queue'
    BY <1>6 DEF Queue
  <1>8. Pairs' /\ InOrder' /\ References' /\ Living' /\ Copied'
    BY DEF IInv, Pairs, Clash, Asks, InOrder, References, Referenced, Living, Copied, Copies
  <1>9. PoolFits'
    <2>1. pool # NoEntry => live' # "live"
      BY DEF IInv, PoolFits
    <2> HIDE DEF Holders
    <2> QED
      BY <1>3, <2>1, PoolStays DEF IInv
  <1>10. RunFits'
    <2> HIDE DEF Holders, Granting
    <2> QED
      BY <1>1, <1>3, RunStays DEF IInv
  <1>11. Alone'
    <2> HIDE DEF Holders, Granting
    <2> QED
      BY <1>3, AloneStays DEF IInv
  <1> QED
    BY <1>1, <1>5, <1>7, <1>8, <1>9, <1>10, <1>11 DEF IInv

(* The live session logs an event.                                         *)
LEMMA LiveEventKeeps == ASSUME IInv, LiveEvent PROVE IInv'
  <1>1. /\ written \in [all : Nat, foreign : Nat] /\ unsaved \in Nat
        /\ written' = [written EXCEPT !.all = @ + 1] /\ unsaved' = unsaved + 1
        /\ UNCHANGED <<stored, state, pool, entry, chain, run, call, live>>
    BY DEF LiveEvent, IInv, Typed
  <1> QED
    BY <1>1, LiveMoves

(* The live session is disposed.                                           *)
LEMMA DisposeKeeps == ASSUME IInv, Dispose PROVE IInv'
  <1>1. /\ written \in [all : Nat, foreign : Nat] /\ unsaved \in Nat
        /\ live = "live" /\ live' = "retiring"
        /\ UNCHANGED <<stored, written, state, pool, entry, chain, run, call, unsaved>>
    BY DEF Dispose, IInv, Typed, storeVars
  <1> QED
    BY <1>1, LiveMoves

(* An append, or the retirement, is queued.                                *)
LEMMA QueuedOnly ==
  ASSUME IInv, NEW job \in Jobs, Enqueue(job), JobFits(job), job.op \in {"append", "retire"},
         job.who = "live" => \A i \in DOMAIN chain : chain[i].who # "live",
         UNCHANGED <<stored, state, pool, entry, call, liveVars>>,
         written' \in [all : Nat, foreign : Nat], written'.foreign = written.foreign
  PROVE  IInv'
  <1>1. /\ stored' = stored /\ state' = state /\ pool' = pool /\ entry' = entry /\ call' = call
        /\ live' = live /\ unsaved' = unsaved
    BY DEF liveVars
  <1>2. /\ chain' \in Seq(Jobs) /\ run' \in Runs /\ chain' = Append(chain, job)
        /\ \A i \in DOMAIN chain : chain'[i] = chain[i] /\ i \in DOMAIN chain'
        /\ \A i \in DOMAIN chain' : i \in DOMAIN chain \/ chain'[i] = job
    BY QueueGrows DEF IInv
  <1>3. Typed /\ Typed'
    BY <1>1, <1>2 DEF IInv, Typed
  <1>4. Logical(stored)' = Logical(stored) /\ Logical(stored) \in Nat
    BY <1>1, <1>3 DEF Logical, Typed, Sources
  <1>5. \A c : (c \in Holders' <=> c \in Holders) /\ (Granting(c)' <=> Granting(c))
    BY <1>1 DEF Holders, InPool, Granting
  <1>6. ASSUME NEW c \in Callers PROVE CallFits(c)'
    <2>1. CallFits(c)
      BY DEF IInv, Calls
    <2> QED
      BY <1>1, <1>3, <1>4, <2>1, CallStays
  <1>7. Calls'
    BY <1>6 DEF Calls
  <1>8. ASSUME NEW i \in DOMAIN chain' PROVE JobFits(chain[i])'
    <2>1. PICK j : j = chain'[i]
      OBVIOUS
    <2>2. JobFits(j)
      BY <1>2, <1>8, <2>1 DEF IInv, Queue
    <2>3. JobFits(j)'
      BY <1>1, <2>2, JobStays DEF JobFits
    <2> QED
      BY <2>1, <2>3 DEF JobFits, Asks
  <1>9. Queue'
    BY <1>8 DEF Queue
  <1>10. job.op # "commit" /\ job.op # "read" /\ job.entry = NoEntry
    BY DEF JobFits
  <1>11. Pairs' /\ InOrder'
    <2>1. \A i \in DOMAIN chain : ~Clash(chain[i], job)
      BY <1>10 DEF Clash, Asks
    <2> QED
      BY <1>1, <1>2, <1>3, <1>10, <2>1, PairsAppend, InOrderAppend DEF IInv
  <1>12. References'
    <2>1. ASSUME NEW x \in Entries PROVE Referenced(x)' <=> Referenced(x)
      <3>1. x # NoEntry
        BY DEF Entries, NoEntry
      <3>2. (\E i \in DOMAIN chain' : chain'[i].entry = x)
            <=> \E i \in DOMAIN chain : chain[i].entry = x
        BY <1>2, <1>10, <3>1
      <3> QED
        BY <1>1, <3>2 DEF Referenced
    <2> HIDE DEF Referenced
    <2> QED
      BY <1>1, <2>1 DEF IInv, References
  <1>13. PoolFits'
    <2>1. pool # NoEntry => live' # "live"
      BY <1>1 DEF IInv, PoolFits
    <2>2. \A i \in DOMAIN chain : chain[i].op = "read" /\ chain[i].entry = pool
            => \E j \in DOMAIN chain' : chain'[j].op = "read" /\ chain'[j].entry = pool
      BY <1>2
    <2> HIDE DEF Holders
    <2> QED
      BY <1>1, <1>5, <2>1, <2>2, PoolStays DEF IInv
  <1>14. /\ RunFits' /\ run'.source \in {run.source, NoSource}
         /\ \/ run' = run /\ (run.step = "written" => Head(chain').n = Head(chain).n)
            \/ run.step # "written" /\ run'.step \notin {"read", "written"} /\ ~run'.current
    <2> HIDE DEF Holders, Granting
    <2> QED
      BY <1>1, <1>5, RunQueues
  <1>15. Copied' /\ Living'
    BY <1>1, <1>3, <1>14, CopiedStays DEF IInv, Living
  <1>16. Alone'
    <2> HIDE DEF Holders, Granting
    <2> QED
      BY <1>1, <1>5, <1>14, AloneStays DEF IInv
  <1> QED
    BY <1>3, <1>7, <1>9, <1>11, <1>12, <1>13, <1>14, <1>15, <1>16 DEF IInv

(* It queues what it has not saved.                                        *)
LEMMA LiveFlushKeeps == ASSUME IInv, LiveFlush PROVE IInv'
  <1>1. PICK job : job = Batch("live", state.cursor, unsaved)
    OBVIOUS
  <1>2. /\ Enqueue(job) /\ live \in {"live", "retiring"} /\ unsaved > 0
        /\ \A i \in DOMAIN chain : chain[i].who # "live"
        /\ UNCHANGED <<stored, written, state, pool, entry, call, liveVars>>
    BY <1>1 DEF LiveFlush, Writing, storeVars
  <1>3. state.cursor \in Nat /\ unsaved \in Nat /\ written \in [all : Nat, foreign : Nat]
    BY DEF IInv, Typed
  <1>4. /\ job \in Jobs /\ job.op = "append" /\ job.who = "live" /\ job.entry = NoEntry
        /\ job.n = unsaved /\ ~job.dropped
    BY <1>1, <1>3 DEF Batch, Job, Jobs, EntryIds, Writers
  <1>5. JobFits(job)
    BY <1>2, <1>3, <1>4 DEF JobFits, Asks, Writers
  <1> QED
    BY <1>2, <1>3, <1>4, <1>5, QueuedOnly

(* It queues its retirement.                                               *)
LEMMA RetireCoreKeeps == ASSUME IInv, RetireCore PROVE IInv'
  <1>1. PICK job : job = Job("retire", "live", NoEntry)
    OBVIOUS
  <1>2. /\ Enqueue(job) /\ live = "retiring"
        /\ \A i \in DOMAIN chain : chain[i].who # "live"
        /\ UNCHANGED <<stored, written, state, pool, entry, call, liveVars>>
    BY <1>1 DEF RetireCore, Writing, storeVars
  <1>3. written \in [all : Nat, foreign : Nat]
    BY DEF IInv, Typed
  <1>4. /\ job \in Jobs /\ job.op = "retire" /\ job.who = "live" /\ job.entry = NoEntry
        /\ ~job.dropped
    BY <1>1 DEF Job, Jobs, EntryIds, Writers
  <1>5. JobFits(job)
    BY <1>2, <1>4 DEF JobFits, Asks, Writers
  <1> QED
    BY <1>2, <1>3, <1>4, <1>5, QueuedOnly

(* append is called for a session that is not live.                        *)
LEMMA ApiAppendKeeps == ASSUME IInv, ApiAppend PROVE IInv'
  <1>1. PICK seq \in (stored.len - 1)..Logical(stored) : Enqueue(Batch("api", seq, 1))
    BY DEF ApiAppend
  <1>2. PICK job : job = Batch("api", seq, 1)
    OBVIOUS
  <1>3. /\ Enqueue(job) /\ written' = [written EXCEPT !.all = @ + 1]
        /\ UNCHANGED <<stored, state, pool, entry, call, liveVars>>
    BY <1>1, <1>2 DEF ApiAppend
  <1>4. written' \in [all : Nat, foreign : Nat] /\ written'.foreign = written.foreign
    BY <1>3 DEF IInv, Typed
  <1>5. seq \in Nat
    <2>1. stored.len \in Nat /\ stored.len > 0 /\ Logical(stored) \in Nat
      BY DEF IInv, Typed, Logical, Sources
    <2> QED
      BY <1>1, <2>1
  <1>6. /\ job \in Jobs /\ job.op = "append" /\ job.who = "api" /\ job.entry = NoEntry
        /\ job.n = 1 /\ ~job.dropped
    BY <1>2, <1>5 DEF Batch, Job, Jobs, EntryIds, Writers
  <1>7. JobFits(job)
    BY <1>6 DEF JobFits, Asks, Writers
  <1> QED
    BY <1>3, <1>4, <1>6, <1>7, QueuedOnly

(* The oldest entry goes when another id's becomes ready.                  *)
LEMMA EvictKeeps == ASSUME IInv, Evict PROVE IInv'
  <1>1. /\ pool # NoEntry /\ entry[pool].phase = "ready" /\ pool' = NoEntry
        /\ stored' = stored /\ written' = written /\ state' = state /\ chain' = chain
        /\ run' = run /\ call' = call /\ live' = live /\ unsaved' = unsaved
        /\ entry' = Kept(entry)
    BY DEF Evict, storeVars, liveVars
  <1>2. \A c : c \notin Holders /\ c \notin Holders'
    BY <1>1 DEF IInv, PoolFits, Holders, InPool
  <1>3. /\ entry' \in [Entries -> EntryStates]
        /\ \A e \in Entries : Referenced(e)' => entry'[e] = entry[e]
        /\ \A e \in Entries : entry'[e] = entry[e] \/ entry'[e] = Blank
    BY <1>1, EntriesKept DEF IInv
  <1>4. Typed /\ Typed'
    BY <1>1, <1>3 DEF IInv, Typed, EntryIds
  <1>5. \A e \in Entries : Referenced(e)' => Referenced(e)
    BY <1>1 DEF Referenced, Entries, NoEntry
  <1>6. References'
    BY <1>1, <1>5, StillReferenced DEF IInv, References
  <1>7. Copied'
    BY <1>1, <1>3, CopiedStays DEF IInv
  <1>8. Pairs' /\ Living' /\ InOrder' /\ PoolFits'
    BY <1>1, PoolGone DEF IInv, Pairs, Clash, Asks, Living
  <1>9. ASSUME NEW c \in Callers PROVE CallFits(c)'
    <2>1. CallFits(c)
      BY DEF IInv, Calls
    <2>2. call[c].entry # NoEntry => entry'[call[c].entry] = entry[call[c].entry]
      BY <1>1, <1>3, <1>4 DEF Typed, CallStates, EntryIds, Referenced
    <2>3. Logical(stored)' = Logical(stored) /\ Logical(stored) \in Nat
      BY <1>1, <1>4 DEF Logical, Typed, Sources
    <2>4. call[c].pc \notin {"reserved", "holding"}
      <3>1. call[c].pc \in {"reserved", "holding"} => c \in Holders
        BY <2>1 DEF CallFits, Holders, InPool
      <3> QED
        BY <1>2, <3>1
    <2> QED
      BY <1>1, <1>4, <2>1, <2>2, <2>3, <2>4, CallStays
  <1>10. Calls'
    BY <1>9 DEF Calls
  <1>11. ASSUME NEW i \in DOMAIN chain PROVE JobFits(chain[i])'
    <2>1. PICK j : j = chain[i]
      OBVIOUS
    <2>2. JobFits(j) /\ j \in Jobs
      BY <1>4, <2>1 DEF IInv, Queue, Typed
    <2>3. j.op \in {"read", "commit", "check"} => entry'[j.entry] = entry[j.entry]
      <3>1. j.entry # NoEntry => j.entry \in Entries
        BY <2>2 DEF Jobs, EntryIds
      <3>2. j.entry # NoEntry => Referenced(j.entry)'
        BY <1>1, <2>1 DEF Referenced
      <3> QED
        BY <1>3, <2>2, <3>1, <3>2 DEF JobFits
    <2>4. JobFits(j)'
      BY <1>1, <2>2, <2>3, JobStays DEF JobFits
    <2> QED
      BY <1>1, <2>1, <2>4 DEF JobFits, Asks
  <1>12. Queue'
    BY <1>1, <1>11 DEF Queue
  <1>13. RunFits'
    <2>1. Steps /\ Head(chain).op = "commit" =>
            entry'[Head(chain).entry] = entry[Head(chain).entry]
      <3>1. ASSUME Steps, Head(chain).op = "commit"
            PROVE  entry'[Head(chain).entry] = entry[Head(chain).entry]
        <4>1. chain # <<>>
          BY <3>1 DEF IInv, RunFits, Steps
        <4>2. Head(chain) \in Jobs /\ Head(chain) = chain[1] /\ 1 \in DOMAIN chain
              /\ JobFits(Head(chain))
          BY <4>1, HeadFacts
        <4>3. PICK e : e = Head(chain).entry
          OBVIOUS
        <4>4. e \in Entries /\ Referenced(e)'
          BY <1>1, <3>1, <4>2, <4>3 DEF JobFits, Jobs, EntryIds, Referenced
        <4> QED
          BY <1>3, <4>3, <4>4
      <3> QED
        BY <3>1
    <2> HIDE DEF Holders, Granting
    <2> QED
      BY <1>1, <1>2, <1>4, <2>1, RunStays DEF IInv
  <1>14. Alone'
    <2> HIDE DEF Holders, Granting
    <2> QED
      BY <1>1, <1>2, AloneStays DEF IInv
  <1> QED
    BY <1>4, <1>6, <1>7, <1>8, <1>10, <1>12, <1>13, <1>14 DEF IInv

(* The holder publishes: its entry leaves the pool and the marker that     *)
(* ends the seed is queued.                                                *)
LEMMA PublishKeeps == ASSUME IInv, NEW c \in Callers, Publish(c) PROVE IInv'
  <1>1. PICK job : job = Batch("live", state.cursor, 1)
    OBVIOUS
  <1>2. /\ call[c].pc = "holding" /\ live # "live" /\ Matches(c)
        /\ live' = "live" /\ state' = [state EXCEPT !.owner = "live"]
        /\ pool' = Removed(call[c].entry) /\ call' = [call EXCEPT ![c] = Idle]
        /\ unsaved' = 1 /\ Enqueue(job) /\ written' = [written EXCEPT !.all = @ + 1]
        /\ entry' = Kept(entry) /\ stored' = stored
    BY <1>1 DEF Publish, Step
  <1>3. /\ pool = call[c].entry /\ pool # NoEntry /\ state.owner = "none" /\ pool' = NoEntry
        /\ c \in Holders /\ Granting(c)
    BY <1>2 DEF Matches, InPool, Removed, Holders, Granting, Grants
  <1>4. \A d \in Holders : d = c
    BY <1>3 DEF IInv, PoolFits
  <1>5. live = "absent"
    BY <1>3 DEF IInv, Living
  <1>6. \A i \in DOMAIN chain : chain[i].who # "live"
    BY <1>5 DEF IInv, Queue, JobFits
  <1>7. /\ Typed /\ state.cursor \in Nat
        /\ state' \in [cursor : Nat, owner : {"untracked", "none", "live"}]
        /\ state'.owner = "live" /\ state'.cursor = state.cursor
        /\ written' \in [all : Nat, foreign : Nat] /\ written'.foreign = written.foreign
    BY <1>2 DEF IInv, Typed
  <1>8. /\ job \in Jobs /\ job.op = "append" /\ job.who = "live" /\ job.entry = NoEntry
        /\ job.n = 1 /\ ~job.dropped
    BY <1>1, <1>7 DEF Batch, Job, Jobs, EntryIds, Writers
  <1>9. /\ call' \in [Callers -> CallStates] /\ call'[c] = Idle
        /\ \A d \in Callers : d # c => call'[d] = call[d]
    BY <1>2, IdleIsTyped DEF IInv, Typed
  <1>10. /\ chain' \in Seq(Jobs) /\ run' \in Runs /\ chain' = Append(chain, job)
         /\ \A i \in DOMAIN chain : chain'[i] = chain[i] /\ i \in DOMAIN chain'
         /\ \A i \in DOMAIN chain' : i \in DOMAIN chain \/ chain'[i] = job
    BY <1>2, <1>8, QueueGrows DEF IInv
  <1>11. /\ entry' \in [Entries -> EntryStates]
         /\ \A e \in Entries : Referenced(e)' => entry'[e] = entry[e]
         /\ \A e \in Entries : entry'[e] = entry[e] \/ entry'[e] = Blank
    BY <1>2, EntriesKept DEF IInv
  <1>12. Typed'
    BY <1>2, <1>3, <1>7, <1>9, <1>10, <1>11 DEF Typed, EntryIds
  <1>13. \A e \in Entries : Referenced(e)' => Referenced(e)
    <2>1. ASSUME NEW e \in Entries, Referenced(e)' PROVE Referenced(e)
      <3>1. e # NoEntry
        BY DEF Entries, NoEntry
      <3>2. CASE pool' = e
        BY <1>3, <3>1, <3>2
      <3>3. CASE \E d \in Callers : call'[d].entry = e
        BY <1>9, <3>1, <3>3, IdleIsTyped DEF Referenced
      <3>4. CASE \E i \in DOMAIN chain' : chain'[i].entry = e
        BY <1>8, <1>10, <3>1, <3>4 DEF Referenced
      <3> QED
        BY <2>1, <3>2, <3>3, <3>4 DEF Referenced
    <2> QED
      BY <2>1
  <1>14. References'
    BY <1>2, <1>13, StillReferenced DEF IInv, References
  <1>15. PoolFits' /\ InOrder'
    BY <1>3, PoolGone
  <1>16. Living'
    BY <1>2, <1>7 DEF Living
  <1>17. \A d : d \notin Holders'
    BY <1>3 DEF Holders, InPool
  <1>18. ASSUME NEW d \in Callers PROVE CallFits(d)'
    <2>1. Logical(stored)' = Logical(stored) /\ Logical(stored) \in Nat
      BY <1>2, <1>7 DEF Logical, Typed, Sources
    <2>2. CASE d = c
      <3>1. ~Granting(c)'
        BY <1>9, IdleIsTyped DEF Granting, Grants
      <3> QED
        BY <1>9, <2>1, <2>2, <3>1, IdleIsTyped DEF CallFits
    <2>3. CASE d # c
      <3>1. CallFits(d) /\ call'[d] = call[d]
        BY <1>9, <2>3 DEF IInv, Calls
      <3>2. call[d].entry # NoEntry => entry'[call[d].entry] = entry[call[d].entry]
        <4>1. PICK e : e = call[d].entry
          OBVIOUS
        <4>2. e # NoEntry => e \in Entries /\ Referenced(e)'
          BY <1>7, <3>1, <4>1 DEF Typed, CallStates, EntryIds, Referenced
        <4> QED
          BY <1>11, <4>1, <4>2
      <3>3. d \notin Holders
        BY <1>4, <2>3
      <3>4. call[d].pc \notin {"reserved", "holding"}
        BY <1>3, <3>1, <3>3 DEF CallFits, Holders, InPool
      <3>5. ~(Granting(d) /\ pool = call[d].entry)
        BY <1>3, <3>3 DEF Granting, Grants, Holders, InPool
      <3> QED
        BY <1>2, <1>3, <1>7, <2>1, <3>1, <3>2, <3>4, <3>5, CallStays
    <2> QED
      BY <2>2, <2>3
  <1>19. Calls'
    BY <1>18 DEF Calls
  <1>20. \A i \in DOMAIN chain : Asks(chain[i]) => call'[chain[i].who] = call[chain[i].who]
    BY <1>2, <1>9 DEF IInv, Queue, JobFits, Asks
  <1>21. ASSUME NEW i \in DOMAIN chain' PROVE JobFits(chain[i])'
    <2>1. CASE i \in DOMAIN chain
      <3>1. PICK j : j = chain[i]
        OBVIOUS
      <3>2. chain'[i] = j /\ j \in Jobs /\ JobFits(j) /\ j.who # "live"
        BY <1>6, <1>7, <1>10, <2>1, <3>1 DEF IInv, Queue, Typed
      <3>3. j.op \in {"read", "commit", "check"} => entry'[j.entry] = entry[j.entry]
        <4>1. j.entry # NoEntry => j.entry \in Entries
          BY <3>2 DEF Jobs, EntryIds
        <4>2. j.entry # NoEntry => Referenced(j.entry)'
          BY <1>10, <1>21, <3>2 DEF Referenced
        <4> QED
          BY <1>11, <3>2, <4>1, <4>2 DEF JobFits
      <3>4. Asks(j) => call'[j.who] = call[j.who]
        BY <1>20, <2>1, <3>1
      <3>5. JobFits(j)'
        BY <1>3, <3>2, <3>3, <3>4, JobStays DEF JobFits
      <3> QED
        BY <3>2, <3>5 DEF JobFits, Asks
    <2>2. CASE i \notin DOMAIN chain
      <3>1. chain'[i] = job
        BY <1>10, <1>21, <2>2
      <3>2. JobFits(job)'
        BY <1>2, <1>8 DEF JobFits, Asks, Writers
      <3> QED
        BY <3>1, <3>2 DEF JobFits, Asks
    <2> QED
      BY <2>1, <2>2
  <1>22. Queue'
    BY <1>21 DEF Queue
  <1>23. Pairs'
    <2>1. \A i \in DOMAIN chain : ~Clash(chain[i], job)
      BY <1>6, <1>8 DEF Clash, Asks
    <2> QED
      BY <1>7, <1>8, <1>10, <2>1, PairsAppend DEF IInv
  <1>24. Steps => Head(chain).op \notin {"append", "commit"}
                  /\ run.step \notin {"adoptRead", "adopted", "compared", "writing", "written"}
    <2>1. Steps => Head(chain).op \notin {"append", "commit"}
      BY <1>3 DEF IInv, RunFits
    <2> QED
      BY <2>1 DEF IInv, RunFits, Steps
  <1>25. run.step \in {"adoptRead", "adopted", "compared", "writing", "written"} => Steps
    BY DEF Steps
  <1>26. /\ RunFits' /\ run'.source \in {run.source, NoSource}
         /\ \/ run' = run /\ (run.step = "written" => Head(chain').n = Head(chain).n)
            \/ run.step # "written" /\ run'.step \notin {"read", "written"} /\ ~run'.current
    <2> HIDE DEF Holders, Granting
    <2> QED
      BY <1>2, <1>8, <1>17, <1>24, <1>25, RunQueues
  <1>27. Copied'
    BY <1>2, <1>7, <1>11, <1>26, CopiedStays DEF IInv
  <1>28. Alone'
    <2>1. written.foreign = 0 => state.cursor = stored.len
      BY <1>3, <1>24, <1>25 DEF IInv, Alone
    <2>2. run'.step # "written" /\ (run'.step = "read" \/ run'.current => run' = run)
      BY <1>24, <1>25, <1>26
    <2>3. (run.step = "read" \/ run.current) /\ written.foreign = 0 => run.source = stored
      BY DEF IInv, Alone
    <2> HIDE DEF Holders, Granting
    <2> QED
      BY <1>2, <1>3, <1>7, <2>1, <2>2, <2>3 DEF Alone
  <1> QED
    BY <1>12, <1>14, <1>15, <1>16, <1>19, <1>22, <1>23, <1>26, <1>27, <1>28 DEF IInv

(* A queue in which some operations are told not to start.                 *)
LEMMA DropsAre ==
  ASSUME Typed, NEW c,
         chain' = [i \in DOMAIN chain |->
                     IF chain[i].who = c /\ chain[i].op \in {"commit", "check"}
                     THEN [chain[i] EXCEPT !.dropped = TRUE] ELSE chain[i]]
  PROVE  /\ chain' \in Seq(Jobs) /\ DOMAIN chain' = DOMAIN chain
         /\ chain' = <<>> <=> chain = <<>>
         /\ chain # <<>> => Head(chain) = chain[1] /\ Head(chain') = chain'[1]
                            /\ 1 \in DOMAIN chain
         /\ \A i \in DOMAIN chain :
              /\ chain'[i].op = chain[i].op /\ chain'[i].who = chain[i].who
              /\ chain'[i].entry = chain[i].entry /\ chain'[i].n = chain[i].n
              /\ chain'[i].dropped <=> \/ chain[i].dropped
                                       \/ /\ chain[i].who = c
                                          /\ chain[i].op \in {"commit", "check"}
              /\ chain[i].who # c \/ chain[i].op \notin {"commit", "check"}
                 => chain'[i] = chain[i]
  <1>1. /\ Len(chain) \in Nat /\ DOMAIN chain = 1..Len(chain)
        /\ \A i \in DOMAIN chain : chain[i] \in Jobs
    BY DEF Typed
  <1>2. ASSUME NEW i \in DOMAIN chain
        PROVE  /\ chain'[i] \in Jobs
               /\ chain'[i].op = chain[i].op /\ chain'[i].who = chain[i].who
               /\ chain'[i].entry = chain[i].entry /\ chain'[i].n = chain[i].n
               /\ chain'[i].dropped <=> \/ chain[i].dropped
                                        \/ /\ chain[i].who = c
                                           /\ chain[i].op \in {"commit", "check"}
               /\ chain[i].who # c \/ chain[i].op \notin {"commit", "check"}
                  => chain'[i] = chain[i]
    <2>1. chain[i] \in Jobs
      BY <1>1
    <2>2. CASE chain[i].who = c /\ chain[i].op \in {"commit", "check"}
      <3>1. chain'[i] = [chain[i] EXCEPT !.dropped = TRUE]
        BY <2>2
      <3> QED
        BY <2>1, <2>2, <3>1 DEF Jobs
    <2>3. CASE ~(chain[i].who = c /\ chain[i].op \in {"commit", "check"})
      <3>1. chain'[i] = chain[i]
        BY <2>3
      <3> QED
        BY <2>1, <2>3, <3>1
    <2> QED
      BY <2>2, <2>3
  <1>3. chain' \in [1..Len(chain) -> Jobs]
    BY <1>1, <1>2
  <1>4. chain' \in Seq(Jobs) /\ Len(chain') = Len(chain) /\ DOMAIN chain' = DOMAIN chain
    BY <1>1, <1>3
  <1>5. chain' = <<>> <=> chain = <<>>
    <2>1. chain \in Seq(Jobs)
      BY DEF Typed
    <2>2. chain = <<>> <=> Len(chain) = 0
      BY <2>1, EmptySeq
    <2>3. chain' = <<>> <=> Len(chain') = 0
      BY <1>4, EmptySeq
    <2> QED
      BY <1>4, <2>2, <2>3
  <1>6. chain # <<>> => Head(chain) = chain[1] /\ Head(chain') = chain'[1] /\ 1 \in DOMAIN chain
    <2>1. chain # <<>> => Len(chain) > 0
      BY <1>1, EmptySeq DEF Typed
    <2> QED
      BY <1>1, <1>4, <2>1
  <1> QED
    BY <1>2, <1>4, <1>5, <1>6

(* The signal of a caller whose commit or check has not started.           *)
LEMMA WithdrawKeeps ==
  ASSUME IInv, NEW c \in Callers, UNCHANGED <<storeVars, state, liveVars, run>>,
         \/ call[c].pc \in {"outside", "loading"}
         \/ call[c].pc \in {"committing", "checking"} /\ ~Started(c),
         pool' = IF call[c].pc = "committing" THEN Removed(call[c].entry) ELSE pool,
         chain' = [i \in DOMAIN chain |->
                     IF chain[i].who = c /\ chain[i].op \in {"commit", "check"}
                     THEN [chain[i] EXCEPT !.dropped = TRUE] ELSE chain[i]],
         call' = [call EXCEPT ![c] = Idle], entry' = Kept(entry)
  PROVE  IInv'
  <1>1. /\ stored' = stored /\ written' = written /\ state' = state /\ run' = run
        /\ live' = live /\ unsaved' = unsaved
    BY DEF storeVars, liveVars
  <1>2. Typed /\ CallFits(c) /\ c # "live"
    BY CallersAssumption DEF IInv, Calls
  <1>3. /\ chain' \in Seq(Jobs) /\ DOMAIN chain' = DOMAIN chain
        /\ chain' = <<>> <=> chain = <<>>
        /\ chain # <<>> => Head(chain) = chain[1] /\ Head(chain') = chain'[1]
                           /\ 1 \in DOMAIN chain
        /\ \A i \in DOMAIN chain :
             /\ chain'[i].op = chain[i].op /\ chain'[i].who = chain[i].who
             /\ chain'[i].entry = chain[i].entry /\ chain'[i].n = chain[i].n
             /\ chain'[i].dropped <=> \/ chain[i].dropped
                                      \/ /\ chain[i].who = c
                                         /\ chain[i].op \in {"commit", "check"}
             /\ chain[i].who # c \/ chain[i].op \notin {"commit", "check"}
                => chain'[i] = chain[i]
    BY <1>2, DropsAre
  <1>0. chain # <<>> =>
          /\ Head(chain').op = Head(chain).op /\ Head(chain').who = Head(chain).who
          /\ Head(chain').entry = Head(chain).entry /\ Head(chain').n = Head(chain).n
          /\ chain'[1] = chain[1] => Head(chain').dropped = Head(chain).dropped
    <2>1. PICK i : i = 1
      OBVIOUS
    <2>2. i \in DOMAIN chain => /\ chain'[i].op = chain[i].op /\ chain'[i].who = chain[i].who
                                /\ chain'[i].entry = chain[i].entry
                                /\ chain'[i].n = chain[i].n
      BY <1>3
    <2>3. chain # <<>> => Head(chain') = chain'[i] /\ Head(chain) = chain[i]
                          /\ i \in DOMAIN chain
      BY <1>3, <2>1
    <2> QED
      BY <2>1, <2>2, <2>3
  <1>4. /\ call' \in [Callers -> CallStates] /\ call'[c] = Idle
        /\ \A d \in Callers : d # c => call'[d] = call[d]
    BY <1>2, IdleIsTyped DEF Typed
  <1>5. /\ entry' \in [Entries -> EntryStates]
        /\ \A e \in Entries : Referenced(e)' => entry'[e] = entry[e]
        /\ \A e \in Entries : entry'[e] = entry[e] \/ entry'[e] = Blank
    BY <1>2, EntriesKept
  <1>6. pool' = pool \/ pool' = NoEntry
    BY DEF Removed
  <1>7. c \in Holders => pool' = NoEntry /\ \A d \in Holders : d = c
    BY DEF Holders, InPool, Removed, IInv, PoolFits
  <1>8. pool' # pool => c \in Holders
    BY <1>2 DEF Holders, InPool, Removed, CallFits
  <1>9. Typed'
    BY <1>1, <1>2, <1>3, <1>4, <1>5, <1>6 DEF Typed, EntryIds
  <1>10. \A e \in Entries : Referenced(e)' => Referenced(e)
    <2>1. ASSUME NEW e \in Entries, Referenced(e)' PROVE Referenced(e)
      <3>1. e # NoEntry
        BY DEF Entries, NoEntry
      <3>2. CASE pool' = e
        BY <1>6, <3>1, <3>2 DEF Referenced
      <3>3. CASE \E d \in Callers : call'[d].entry = e
        BY <1>4, <3>1, <3>3, IdleIsTyped DEF Referenced
      <3>4. CASE \E i \in DOMAIN chain' : chain'[i].entry = e
        BY <1>3, <3>4 DEF Referenced
      <3> QED
        BY <2>1, <3>2, <3>3, <3>4 DEF Referenced
    <2> QED
      BY <2>1
  <1>11. References'
    BY <1>10, StillReferenced DEF IInv, References
  <1>12. Pairs'
    <2>1. ASSUME NEW i \in DOMAIN chain', NEW j \in DOMAIN chain', i # j
          PROVE  ~Clash(chain[i], chain[j])'
      BY <1>3, <2>1 DEF IInv, Pairs, Clash, Asks
    <2> QED
      BY <2>1 DEF Pairs, Clash, Asks
  <1>13. InOrder'
    <2>1. ASSUME NEW i \in DOMAIN chain', chain'[i].op = "commit", pool' # NoEntry,
                 chain'[i].entry # pool'
          PROVE  \E j \in DOMAIN chain' : j > i /\ chain'[j].op = "read"
                                          /\ chain'[j].entry = pool'
      <3>1. i \in DOMAIN chain /\ chain[i].op = "commit" /\ pool' = pool
            /\ chain[i].entry # pool
        BY <1>3, <1>6, <2>1
      <3>2. PICK j \in DOMAIN chain : j > i /\ chain[j].op = "read" /\ chain[j].entry = pool
        BY <2>1, <3>1 DEF IInv, InOrder
      <3> QED
        BY <1>3, <3>1, <3>2
    <2> QED
      BY <2>1 DEF InOrder
  <1>14. \A d \in Callers : /\ d \in Holders' <=> d \in Holders /\ pool' = pool
                            /\ d \in Holders' => d # c /\ call'[d] = call[d]
    <2>1. c \notin Holders'
      BY <1>4, IdleIsTyped DEF Holders
    <2>2. ASSUME NEW d \in Callers, d # c
          PROVE  d \in Holders' <=> d \in Holders /\ pool' = pool
      BY <1>4, <1>6, <2>2 DEF Holders, InPool
    <2>3. c \in Holders => pool' # pool
      <3>1. c \in Holders => pool # NoEntry
        BY DEF Holders, InPool
      <3> QED
        BY <1>7, <3>1
    <2> HIDE DEF Holders
    <2> QED
      BY <1>4, <2>1, <2>2, <2>3
  <1>15. \A d \in Callers : d \in Holders' /\ Granting(d)' => d \in Holders /\ Granting(d)
    <2> HIDE DEF Holders
    <2> QED
      BY <1>14 DEF Granting
  <1>16. PoolFits'
    <2>1. CASE pool' = NoEntry
      BY <2>1, PoolGone
    <2>2. CASE pool' = pool /\ pool # NoEntry
      <3>1. entry'[pool] = entry[pool]
        BY <1>2, <1>5, <2>2 DEF Typed, EntryIds, Referenced
      <3>2. \A i \in DOMAIN chain : chain[i].op = "read" /\ chain[i].entry = pool
              => \E j \in DOMAIN chain' : chain'[j].op = "read" /\ chain'[j].entry = pool
        BY <1>3
      <3>3. live' # "live"
        BY <1>1, <2>2 DEF IInv, PoolFits
      <3>4. \A d \in Callers : /\ d \in Holders' <=> d \in Holders
                               /\ d \in Holders => (call'[d].pc = "committing"
                                                    <=> call[d].pc = "committing")
        <4> HIDE DEF Holders
        <4> QED
          BY <1>14, <2>2
      <3> HIDE DEF Holders
      <3> QED
        BY <2>2, <3>1, <3>2, <3>3, <3>4, PoolStays DEF IInv
    <2> QED
      BY <1>6, <2>1, <2>2
  <1>17. ASSUME NEW d \in Callers PROVE CallFits(d)'
    <2>1. Logical(stored)' = Logical(stored) /\ Logical(stored) \in Nat
      BY <1>1, <1>2 DEF Logical, Typed, Sources
    <2>2. CASE d = c
      <3>1. ~Granting(c)'
        BY <1>4, IdleIsTyped DEF Granting, Grants
      <3> QED
        BY <1>4, <2>1, <2>2, <3>1, IdleIsTyped DEF CallFits
    <2>3. CASE d # c
      <3>1. CallFits(d) /\ call'[d] = call[d]
        BY <1>4, <2>3 DEF IInv, Calls
      <3>2. call[d].entry # NoEntry => entry'[call[d].entry] = entry[call[d].entry]
        <4>1. PICK e : e = call[d].entry
          OBVIOUS
        <4>2. e # NoEntry => e \in Entries /\ Referenced(e)'
          BY <1>2, <3>1, <4>1 DEF Typed, CallStates, EntryIds, Referenced
        <4> QED
          BY <1>5, <4>1, <4>2
      <3>3. pool' # pool => call[d].pc \notin {"reserved", "holding"}
        <4>1. call[d].pc \in {"reserved", "holding"} => d \in Holders
          BY <3>1 DEF CallFits, Holders, InPool
        <4> HIDE DEF Holders
        <4> QED
          BY <1>7, <1>8, <2>3, <4>1
      <3> QED
        BY <1>1, <1>2, <1>6, <2>1, <3>1, <3>2, <3>3, CallStays
    <2> QED
      BY <2>2, <2>3
  <1>18. Calls'
    BY <1>17 DEF Calls
  <1>19. ASSUME NEW i \in DOMAIN chain' PROVE JobFits(chain[i])'
    <2>1. PICK j : j = chain[i]
      OBVIOUS
    <2>2. PICK k : k = chain'[i]
      OBVIOUS
    <2>3. i \in DOMAIN chain /\ j \in Jobs /\ JobFits(j)
      BY <1>2, <1>3, <1>19, <2>1 DEF IInv, Queue, Typed
    <2>4. j.op \in {"read", "commit", "check"} => entry'[j.entry] = entry[j.entry]
      <3>1. j.entry # NoEntry => j.entry \in Entries
        BY <2>3 DEF Jobs, EntryIds
      <3>2. j.entry # NoEntry => Referenced(j.entry)'
        BY <1>3, <1>19, <2>1 DEF Referenced
      <3> QED
        BY <1>5, <2>3, <3>1, <3>2 DEF JobFits
    <2>5. CASE j.who = c /\ j.op \in {"commit", "check"}
      <3>1. /\ k.op = j.op /\ k.who = j.who /\ k.entry = j.entry /\ k.n = j.n /\ k.dropped
        BY <1>3, <2>1, <2>2, <2>3, <2>5
      <3>2. j.op = "commit" => j.entry # pool'
        <4>1. ASSUME j.op = "commit", j.entry = pool' PROVE FALSE
          <5>1. j.entry = pool /\ pool # NoEntry
            BY <1>6, <2>3, <4>1 DEF JobFits
          <5>2. ~j.dropped
            BY <2>3, <4>1, <5>1 DEF JobFits
          <5>3. call[c].pc = "committing" /\ call[c].entry = pool
            BY <2>3, <2>5, <4>1, <5>1, <5>2 DEF JobFits, Asks
          <5>4. pool' = NoEntry
            BY <5>3 DEF Removed
          <5> QED
            BY <4>1, <5>1, <5>4
        <4> QED
          BY <4>1
      <3>3. JobFits(k)'
        BY <1>2, <2>3, <2>4, <2>5, <3>1, <3>2 DEF JobFits, Asks
      <3> QED
        BY <2>2, <3>3 DEF JobFits, Asks
    <2>6. CASE ~(j.who = c /\ j.op \in {"commit", "check"})
      <3>1. k = j
        BY <1>3, <2>1, <2>2, <2>3, <2>6
      <3>2. Asks(j) => call'[j.who] = call[j.who]
        BY <1>4, <2>3, <2>6 DEF Asks, JobFits
      <3>3. JobFits(j)'
        BY <1>1, <1>6, <2>3, <2>4, <3>2, JobStays DEF JobFits
      <3> QED
        BY <2>2, <3>1, <3>3 DEF JobFits, Asks
    <2> QED
      BY <2>5, <2>6
  <1>20. Queue'
    BY <1>19 DEF Queue
  <1>21. Steps => chain # <<>> /\ chain'[1] = chain[1]
    <2>1. ASSUME Steps, chain[1].who = c, chain[1].op \in {"commit", "check"} PROVE FALSE
      <3>1. chain # <<>> /\ ~Head(chain).dropped
        BY <2>1 DEF IInv, RunFits, Steps
      <3>2. Head(chain) = chain[1] /\ JobFits(Head(chain))
        BY <3>1, HeadFacts
      <3>3. PICK j : j = Head(chain)
        OBVIOUS
      <3>4. Asks(j) /\ JobFits(j) /\ j.who = c
        BY <2>1, <3>1, <3>2, <3>3 DEF Asks
      <3>5. call[c].pc \in {"committing", "checking"}
        BY <3>4 DEF JobFits, Asks
      <3>6. Started(c)
        BY <2>1, <3>1, <3>2 DEF Started, Steps
      <3> QED
        BY <3>5, <3>6
    <2>2. Steps => chain # <<>>
      BY DEF IInv, RunFits, Steps
    <2> QED
      BY <1>3, <2>1, <2>2
  <1>22. RunFits'
    <2>1. ASSUME Steps, Head(chain).op = "commit"
          PROVE  /\ entry'[Head(chain).entry].source = entry[Head(chain).entry].source
                 /\ call'[Head(chain).who].since = call[Head(chain).who].since
      <3>1. chain # <<>> /\ ~Head(chain).dropped
        BY <2>1 DEF IInv, RunFits, Steps
      <3>2. Head(chain) \in Jobs /\ Head(chain) = chain[1] /\ 1 \in DOMAIN chain
            /\ JobFits(Head(chain))
        BY <3>1, HeadFacts
      <3>3. PICK j : j = Head(chain)
        OBVIOUS
      <3>4. j.entry \in Entries /\ Asks(j) /\ chain'[1] = j /\ j.who \in Callers
        BY <1>21, <2>1, <3>1, <3>2, <3>3 DEF JobFits, Asks, Jobs, EntryIds
      <3>5. Referenced(j.entry)'
        BY <1>3, <3>2, <3>4 DEF Referenced
      <3>6. j.who # c
        <4>1. chain'[1].dropped <=> \/ chain[1].dropped
                                    \/ chain[1].who = c /\ chain[1].op \in {"commit", "check"}
          BY <1>3, <3>2
        <4> QED
          BY <2>1, <3>1, <3>2, <3>3, <3>4, <4>1
      <3> QED
        BY <1>4, <1>5, <3>3, <3>4, <3>5, <3>6
    <2>2. chain # <<>> => /\ Head(chain').op = Head(chain).op
                          /\ Head(chain').who = Head(chain).who
                          /\ Head(chain').entry = Head(chain).entry
      BY <1>0
    <2>3. Steps => Head(chain').dropped = Head(chain).dropped
      BY <1>0, <1>21
    <2> HIDE DEF Holders, Granting
    <2> QED
      BY <1>1, <1>2, <1>3, <1>15, <2>1, <2>2, <2>3, RunStays DEF IInv
  <1>23. Copied'
    BY <1>1, <1>2, <1>5, CopiedStays DEF IInv
  <1>24. Living'
    BY <1>1 DEF IInv, Living
  <1>25. Alone'
    <2>1. pool' # NoEntry => entry'[pool] = entry[pool]
      BY <1>2, <1>5, <1>6 DEF Typed, EntryIds, Referenced
    <2>2. run.step = "written" => Head(chain').n = Head(chain).n
      BY <1>0, <1>21 DEF Steps
    <2> HIDE DEF Holders, Granting
    <2> QED
      BY <1>1, <1>6, <1>15, <2>1, <2>2, AloneStays DEF IInv
  <1> QED
    BY <1>9, <1>11, <1>12, <1>13, <1>16, <1>18, <1>20, <1>22, <1>23, <1>24, <1>25 DEF IInv

(* A caller's signal.                                                      *)
LEMMA CancelKeeps == ASSUME IInv, NEW c \in Callers, Cancel(c) PROVE IInv'
  <1>1. UNCHANGED <<storeVars, state, liveVars>>
    BY DEF Cancel
  <1>2. CASE /\ call[c].pc \in {"committing", "checking"}
             /\ Step(c, [call[c] EXCEPT !.aborted = TRUE])
             /\ UNCHANGED <<pool, entry, chain, run>>
    <2>1. PICK r : r = [call[c] EXCEPT !.aborted = TRUE]
      OBVIOUS
    <2>2. call[c] \in CallStates /\ CallFits(c) /\ Typed
      BY SinceIsStored DEF IInv
    <2>3. /\ r \in CallStates /\ r.pc = call[c].pc /\ r.entry = call[c].entry
          /\ r.since = call[c].since /\ r.result = call[c].result /\ r.got = call[c].got
      BY <2>1, <2>2 DEF CallStates
    <2>4. /\ call' = [call EXCEPT ![c] = r] /\ call'[c] = r
          /\ stored' = stored /\ written' = written /\ state' = state /\ pool' = pool
          /\ entry' = entry
      BY <1>1, <1>2, <2>1, <2>2 DEF Typed, Step, storeVars
    <2>5. (Granting(c)' <=> Granting(c)) /\ (Grants(r) <=> Granting(c))
      BY <2>3, <2>4 DEF Granting, Grants
    <2>6. (Fresher(c)' <=> Fresher(c)) /\ Logical(stored)' = Logical(stored)
      BY <2>3, <2>4 DEF Fresher, Logical
    <2>7. CallFits(c)'
      BY <2>2, <2>3, <2>4, <2>5, <2>6 DEF CallFits
    <2>8. c \in Holders' <=> c \in Holders
      BY <2>3, <2>4 DEF Holders, InPool
    <2> HIDE DEF Holders, Granting, Grants
    <2> QED
      BY <1>1, <1>2, <2>3, <2>4, <2>5, <2>7, <2>8, StayingKeeps
  <1>3. CASE /\ \/ call[c].pc \in {"outside", "loading"}
                \/ call[c].pc \in {"committing", "checking"} /\ ~Started(c)
             /\ UNCHANGED run
             /\ pool' = IF call[c].pc = "committing" THEN Removed(call[c].entry) ELSE pool
             /\ chain' = [i \in DOMAIN chain |->
                            IF chain[i].who = c /\ chain[i].op \in {"commit", "check"}
                            THEN [chain[i] EXCEPT !.dropped = TRUE] ELSE chain[i]]
             /\ Step(c, Idle) /\ entry' = Kept(entry)
    BY <1>1, <1>3, WithdrawKeeps DEF Step
  <1> QED
    BY <1>2, <1>3 DEF Cancel

---------------------------------------------------------------------------
(* The invariant, and what it says to those who call.                      *)

(* Nothing is read, queued or published before the first call.             *)
LEMMA InitFits == Init => IInv
  <1> SUFFICES ASSUME Init PROVE IInv
    OBVIOUS
  <1>1. /\ stored \in [rev : {1}, len : {1}, damage : Damages]
        /\ written = [all |-> 0, foreign |-> 0] /\ state = NoState
        /\ pool = NoEntry /\ entry = [e \in Entries |-> Blank]
        /\ chain = <<>> /\ run = Rest /\ call = [c \in Callers |-> Idle]
        /\ live = "absent" /\ unsaved = 0
    BY DEF Init
  <1>2. stored \in Sources /\ stored.rev = 1 /\ stored.len = 1 /\ Logical(stored) \in Nat
    BY <1>1 DEF Sources, Logical
  <1>3. /\ Rest \in Runs /\ Rest.step = "rest" /\ ~Rest.current /\ Rest.source = NoSource
        /\ NoSource \in Sources
    BY DEF Rest, Runs, NoSource, Sources, Damages
  <1>4. Typed
    BY <1>1, <1>2, <1>3, IdleIsTyped, BlankIsTyped DEF Typed, NoState, EntryIds
  <1>5. \A c \in Callers : call[c] = Idle
    BY <1>1
  <1>6. Calls
    <2>1. ASSUME NEW c \in Callers PROVE CallFits(c)
      BY <1>2, <1>5, IdleIsTyped DEF CallFits, Granting, Grants
    <2> QED
      BY <2>1 DEF Calls
  <1>7. DOMAIN chain = {}
    BY <1>1
  <1>8. Queue /\ Pairs /\ InOrder
    BY <1>7 DEF Queue, Pairs, InOrder
  <1>9. References
    <2>1. ASSUME NEW e \in Entries PROVE entry[e] = Blank /\ ~Referenced(e)
      BY <1>1, <1>5, <1>7, IdleIsTyped DEF Referenced, Entries, NoEntry
    <2>2. Blank.phase = "absent"
      BY DEF Blank
    <2> HIDE DEF Referenced
    <2> QED
      BY <2>1, <2>2 DEF References
  <1>10. PoolFits
    BY <1>1 DEF PoolFits, Holders, InPool
  <1>11. Living
    BY <1>1 DEF Living, NoState
  <1>12. RunFits
    BY <1>1, <1>3 DEF RunFits, Steps
  <1>13. Copied
    <2>1. Copies(NoSource)
      BY <1>2 DEF Copies, NoSource
    <2>2. \A e \in Entries : entry[e].source = NoSource
      BY <1>1 DEF Blank
    <2> QED
      BY <1>1, <1>3, <2>1, <2>2 DEF Copied
  <1>14. Alone
    BY <1>1, <1>3 DEF Alone, NoState, Holders, InPool
  <1> QED
    BY <1>4, <1>6, <1>8, <1>9, <1>10, <1>11, <1>12, <1>13, <1>14 DEF IInv

(* Every step keeps it.                                                    *)
LEMMA StepFits == IInv /\ [Next]_vars => IInv'
  <1> SUFFICES ASSUME IInv, [Next]_vars PROVE IInv'
    OBVIOUS
  <1>1. CASE UNCHANGED vars
    <2>1. /\ written \in [all : Nat, foreign : Nat] /\ unsaved \in Nat
          /\ UNCHANGED <<stored, written, state, pool, entry, chain, run, call, live, unsaved>>
      BY <1>1 DEF vars, IInv, Typed
    <2> QED
      BY <2>1, LiveMoves
  <1>2. CASE Storage
    <2>1. Chain
      BY <1>2 DEF Storage
    <2>2. TRUE \in BOOLEAN /\ FALSE \in BOOLEAN
      OBVIOUS
    <2> QED
      BY <2>1, <2>2, ReadStoredKeeps, ReadEndsKeeps, DropStartsKeeps, CommitStartsKeeps,
         ReadRevisionKeeps, CommitRepairKeeps, CommitEndsKeeps, RepairFailsKeeps,
         AppendStartsKeeps, AppendAdoptsKeeps, WriteLandsKeeps, WriteFailsKeeps,
         AppendEndsKeeps, CheckRevisionKeeps, RetiredKeeps
      DEF Chain
  <1>3. CASE Drain \/ Dispose \/ LiveFlush \/ LiveEvent \/ ApiAppend \/ ForeignWrite \/ Evict
    BY <1>3, LiveFlushKeeps, RetireCoreKeeps, DisposeKeeps, LiveEventKeeps, ApiAppendKeeps,
       ForeignWriteKeeps, EvictKeeps DEF Drain, Retirement
  <1>4. ASSUME NEW c \in Callers,
               GoThrough(c) \/ Begin(c) \/ Proceed(c) \/ Holder(c) \/ Cancel(c)
        PROVE  IInv'
    <2>1. CASE GoThrough(c) \/ Begin(c) \/ Proceed(c)
      BY <2>1, BeginKeeps, PassRetirementKeeps, MeetsLiveKeeps, JoinKeeps, LoadFailsKeeps,
         ClaimKeeps, ReserveKeeps, GrantedKeeps, AskCurrentKeeps, InspectedKeeps, AnsweredKeeps
      DEF GoThrough, Proceed
    <2>2. CASE Holder(c) \/ Cancel(c)
      <3>1. TRUE \in BOOLEAN /\ FALSE \in BOOLEAN
        OBVIOUS
      <3> QED
        BY <2>2, <3>1, PublishKeeps, ReleaseKeeps, CancelKeeps DEF Holder
    <2> QED
      BY <1>4, <2>1, <2>2
  <1> QED
    BY <1>1, <1>2, <1>3, <1>4 DEF Next

(* So it holds throughout, for any callers and any bounds.                 *)
THEOREM PreparationInvariant == Spec => []IInv
  BY InitFits, StepFits, PTL DEF Spec

(* A preparation has one holder, the holder can publish it, the cursor     *)
(* stands at the end of the log, and whoever waits for an entry waits for  *)
(* somebody (preparations.ts, coordinator.ts).                             *)
LEMMA FitsIsSound == IInv => PreparationIsSound
  <1> SUFFICES ASSUME IInv PROVE PreparationIsSound
    OBVIOUS
  <1>1. TypeOK
    <2>1. Typed
      BY DEF IInv
    <2> QED
      BY <2>1 DEF Typed, TypeOK, Sources, EntryIds, EntryStates, CallStates
  <1>2. OneHolder
    <2>1. \A c, d \in Holders : c = d
      BY DEF IInv, PoolFits
    <2> HIDE DEF Holders
    <2>2. CASE Holders = {}
      BY <2>2, FS_EmptySet DEF OneHolder
    <2>3. CASE Holders # {}
      <3>1. PICK c : c \in Holders
        BY <2>3
      <3>2. Holders = {c}
        BY <2>1, <3>1
      <3>3. Cardinality({c}) = 1
        BY FS_Singleton
      <3> QED
        BY <3>2, <3>3 DEF OneHolder
    <2> QED
      BY <2>2, <2>3
  <1>3. HeldIsPublishable
    <2>1. ASSUME NEW c \in Callers, call[c].pc \in {"reserved", "holding"}
          PROVE  Matches(c) /\ Logical(entry[call[c].entry].source) >= call[c].since
      <3>1. CallFits(c) /\ Granting(c) /\ PoolFits
        BY <2>1 DEF IInv, Calls, Granting, Grants
      <3>2. pool = call[c].entry /\ call[c].entry # NoEntry /\ Fresher(c)
            /\ state.owner = "none" /\ state.cursor = entry[call[c].entry].source.len
        BY <2>1, <3>1 DEF CallFits
      <3>3. c \in Holders /\ call[c].pc # "committing"
        BY <2>1, <3>2 DEF Holders, InPool
      <3>4. entry[pool].phase = "reserved"
        BY <3>1, <3>3 DEF PoolFits
      <3> QED
        BY <3>2, <3>4 DEF Matches, InPool, Fresher
    <2> QED
      BY <2>1 DEF HeldIsPublishable
  <1>4. CursorIsEnd
    <2>1. \A c \in Holders : call[c].pc # "committing" => Granting(c)
      BY DEF Holders, Granting, Grants
    <2> HIDE DEF Holders, Granting
    <2> QED
      BY <2>1 DEF IInv, Alone, CursorIsEnd
  <1>5. EntryIsAttended
    <2>1. ASSUME pool # NoEntry
          PROVE  CASE entry[pool].phase = "loading" ->
                        \E i \in DOMAIN chain : chain[i].op = "read" /\ chain[i].entry = pool
                   [] entry[pool].phase = "committing" ->
                        \E c \in Holders : call[c].pc = "committing"
                   [] entry[pool].phase = "reserved" ->
                        \E c \in Holders : call[c].pc \in {"reserved", "holding"}
                   [] OTHER -> entry[pool].phase = "ready"
      <3>1. PoolFits /\ References /\ pool \in Entries /\ entry[pool] \in EntryStates
        BY <2>1 DEF IInv, Typed, EntryIds
      <3>2. entry[pool].phase # "absent"
        BY <3>1 DEF References, Referenced
      <3>3. entry[pool].phase \in {"loading", "ready", "committing", "reserved"}
        BY <3>1, <3>2 DEF EntryStates
      <3>4. \A c \in Holders : call[c].pc \in {"committing", "reserved", "holding"}
        BY DEF Holders
      <3>5. entry[pool].phase = "loading" =>
              \E i \in DOMAIN chain : chain[i].op = "read" /\ chain[i].entry = pool
        BY <2>1, <3>1 DEF PoolFits
      <3>6. entry[pool].phase = "committing" => \E c \in Holders : call[c].pc = "committing"
        BY <2>1, <3>1 DEF PoolFits
      <3>7. entry[pool].phase = "reserved" =>
              \E c \in Holders : call[c].pc \in {"reserved", "holding"}
        BY <2>1, <3>1, <3>4 DEF PoolFits
      <3> HIDE DEF Holders
      <3>8. CASE entry[pool].phase = "loading"
        BY <3>5, <3>8
      <3>9. CASE entry[pool].phase = "committing"
        BY <3>6, <3>9
      <3>10. CASE entry[pool].phase = "reserved"
        BY <3>7, <3>10
      <3>11. CASE entry[pool].phase = "ready"
        BY <3>11
      <3> QED
        BY <3>3, <3>8, <3>9, <3>10, <3>11
    <2> QED
      BY <2>1 DEF EntryIsAttended
  <1> QED
    BY <1>1, <1>2, <1>3, <1>4, <1>5 DEF PreparationIsSound

(* PreparationIsSound, for any number of callers of each kind, appends,    *)
(* other processes' writes and queued operations.                          *)
THEOREM PreparationsAreSound == Spec => []PreparationIsSound
  BY PreparationInvariant, FitsIsSound, PTL

(* No answer omits what was durable when the call was made, a view that is *)
(* borrowed while another process writes excepted (coordinator.ts          *)
(* inspect).                                                               *)
THEOREM AnswersStayFresh == Spec => []AnswersAreFresh
  <1>1. IInv => AnswersAreFresh
    BY DEF IInv, Calls, CallFits, AnswersAreFresh
  <1> QED
    BY <1>1, PreparationInvariant, PTL
=============================================================================
