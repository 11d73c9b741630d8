----------------------------- MODULE Compaction -----------------------------
(* Compaction of a session's surface (packages/compaction): the balance of  *)
(* tool calls over the surface with its cache (tool-pairing.ts), the choice *)
(* of a range and the transaction that replaces it (compaction-basic/src/   *)
(* region.ts), and the ways into it (compaction-basic/src/index.ts): before *)
(* a step under pressure, after a context overflow, by command between two  *)
(* turns, and by a caller of compactRegion; beside a driver that appends,   *)
(* other clients of the session, failing appends, and crashes.              *)
EXTENDS Naturals, Sequences, FiniteSets, SequencesExt

CONSTANTS Threshold, Retain, \* budgets in tokens
          Retries,           \* compactionRetries
          MaxOverflow,       \* maxOverflowRetries
          Callers,           \* whether anybody calls compactRegion
          MaxTurns, MaxAnswers, MaxCalls, MaxOthers, MaxFails, MaxLives \* bounds

ASSUME BoundsAssumption == {Retries, MaxOverflow, MaxCalls} \subseteq Nat

VARIABLES log,      \* the session's events
          nodes,    \* its surface: the events a request is made of, in their order
          phase, aborted, \* the driver's
          tx,       \* the transactions of the driver and of a caller
          cache,    \* BalanceCache
          retries,  \* overflow retries since the last answer
          asked,    \* the surface's generation when an overflow came in
          durable,  \* length of the log that is stored for certain
          reported, \* the last compaction whose command succeeded, by its end event
          others, fails, lives

bounds == <<others, fails, lives>>
turn   == <<aborted, retries, asked>>
session == <<log, nodes>>
vars   == <<session, phase, turn, tx, cache, durable, reported, bounds>>

Actors == {"driver", "caller"}
NoTx   == [stage |-> "none", trigger |-> "none", from |-> 0, to |-> 0, nodes |-> <<>>, attempt |-> 0]
Fresh  == [gen |-> 0, cuts |-> <<TRUE>>, open |-> 0]

Marker(t)  == [type |-> t, op |-> "none"]
User       == [type |-> "user", op |-> "append", price |-> 1]
Message(n) == [type |-> "assistant", op |-> "append", calls |-> n, price |-> 1]
Result(c, price) == [type |-> "result", op |-> "append", call |-> c, price |-> price]
Pruned(l, x) == [type |-> "result", op |-> "replace", from |-> x, to |-> x, call |-> l[x].call, price |-> 1]
Bracket(t, w) == [type |-> t, op |-> "none", by |-> w]
Summary(w, span) == [type |-> "summary", op |-> "none", by |-> w, shadowed |-> span]
End(w, failed) == [type |-> "end", op |-> "none", by |-> w, failed |-> failed]
Checkpoint(w, from, to, price) ==
  [type |-> "checkpoint", op |-> "replace", by |-> w, from |-> from, to |-> to, price |-> price]

-----------------------------------------------------------------------------
(* The surface and the balance of its calls *)

Last0(S)  == CHOOSE i \in S \cup {0} : \A j \in S : j <= i
Pos(s, x) == Last0({k \in DOMAIN s : s[k] = x})   \* 0 where indexOf has -1
Events(l, types) == {i \in DOMAIN l : l[i].type \in types}
Price(l, xs) == FoldLeft(LAMBDA t, x : t + l[x].price, 0, xs)
Span(s, from, to) == SubSeq(s, Pos(s, from), Pos(s, to))
Generation(l) == Cardinality({i \in DOMAIN l : l[i].op = "replace"})

\* applySurfacePlan, for event i of l.
Applied(s, l, i) ==
  CASE l[i].op = "append"  -> Append(s, i)
    [] l[i].op = "replace" -> SubSeq(s, 1, Pos(s, l[i].from) - 1) \o <<i>>
                                \o SubSeq(s, Pos(s, l[i].to) + 1, Len(s))
    [] OTHER -> s

\* ... and for the events of l after the first n.
Advance(surface, l, n) ==
  LET s[i \in n .. Len(l)] == IF i = n THEN surface ELSE Applied(s[i - 1], l, i) IN s[Len(l)]

\* A log with its surface: as it is, and with more events.
Here       == [log |-> log, nodes |-> nodes]
With(l)    == [log |-> l, nodes |-> Advance(nodes, l, Len(log))]
Tokens(v)  == Price(v.log, v.nodes)
Publish(v) == log' = v.log /\ nodes' = v.nodes
Log(es)    == Publish(With(log \o es))

\* eventDelta, over the nodes xs.
Delta(l, xs) ==
  FoldLeft(LAMBDA t, x : CASE l[x].type = "assistant" -> t + l[x].calls
                           [] l[x].type = "result"    -> t - 1
                           [] OTHER                   -> t, 0, xs)

\* extendCache: the nodes that are new, counted on from where the cache ended.
Extend(v, c) ==
  LET new == SubSeq(v.nodes, Len(c.cuts), Len(v.nodes))
      open(k) == c.open + Delta(v.log, SubSeq(new, 1, k))
  IN [c EXCEPT !.cuts = @ \o [k \in DOMAIN new |-> open(k) = 0], !.open = open(Len(new))]
Rebuilt(v) == Extend(v, [Fresh EXCEPT !.gen = Generation(v.log)])

\* A bug: a rewrite of the surface goes unnoticed unless it became shorter.
SyncedByLength(v) == IF Len(cache.cuts) - 1 > Len(v.nodes) THEN Rebuilt(v) ELSE Extend(v, cache)

\* balanceCache; entry k of its cuts is the cut before node k.
Synced(v) ==
  IF cache.gen # Generation(v.log) \/ Len(cache.cuts) - 1 > Len(v.nodes)
  THEN Rebuilt(v) ELSE Extend(v, cache)

-----------------------------------------------------------------------------
(* The choice of a range *)

\* The first node that is kept: the shortest tail worth `retain`, else all.
Kept(v, retain) ==
  LET enough == {k \in DOMAIN v.nodes : Price(v.log, SubSeq(v.nodes, k, Len(v.nodes))) >= retain}
  IN IF enough = {} THEN 1 ELSE Last0(enough)

\* ... moved back to a balanced cut.
KeepFrom(v, retain) == LET cuts == Synced(v).cuts IN Last0({k \in 2 .. Kept(v, retain) : cuts[k]})

\* selectCompactableRange: the nodes in front of it, or none.
Selected(v, retain) == IF v.nodes = <<>> THEN <<>> ELSE SubSeq(v.nodes, 1, KeepFrom(v, retain) - 1)
Looked(v, retain)   == IF v.nodes # <<>> /\ Kept(v, retain) > 1 THEN Synced(v) ELSE cache

-----------------------------------------------------------------------------
(* The transaction *)

\* A bug: a start of an earlier life keeps the session locked.
LockedForever(l) ==
  LET b == Last0(Events(l, {"start", "end"})) IN b # 0 /\ l[b].type = "start"

\* assertCompactionInactive
Locked(l) ==
  LET b == Last0(Events(l, {"start", "end"}))
  IN b # 0 /\ l[b].type = "start" /\ Last0(Events(l, {"seed"})) < b

TurnOpen(l) == LET b == Last0(Events(l, {"turn", "turnend"})) IN b # 0 /\ l[b].type = "turn"

\* validateSurfaceRegion
Valid(v, from, to) ==
  LET cuts == Synced(v).cuts
  IN /\ {from, to} \subseteq ToSet(v.nodes) /\ Pos(v.nodes, from) <= Pos(v.nodes, to)
     /\ cuts[Pos(v.nodes, from)] /\ cuts[Pos(v.nodes, to) + 1]

\* compactSurfaceRegion up to the summarizer.
Begin(w, trigger, attempt, v, from, to) ==
  /\ Publish([v EXCEPT !.log = Append(@, Bracket("start", w))])
  /\ tx' = [tx EXCEPT ![w] = [stage |-> "summary", trigger |-> trigger, from |-> from, to |-> to,
                              nodes |-> v.nodes, attempt |-> attempt]]
BeginSelected(trigger, attempt, v, span) == Begin("driver", trigger, attempt, v, span[1], span[Len(span)])

\* A bug: only the ends of the span are looked for.
EndsPresent(t) == Valid(Here, t.from, t.to)

\* assertSelectedSpanStable
SpanStable(t) == Valid(Here, t.from, t.to) /\ Span(nodes, t.from, t.to) = Span(t.nodes, t.from, t.to)

\* A command's summary may be joined by context outside its span; any other is not.
Stable(t) == IF t.trigger = "manual" THEN SpanStable(t) ELSE nodes = t.nodes

Smaller(t, price) == price < Price(log, Span(t.nodes, t.from, t.to))

\* What a settled summary appends; with a failing append, also what remains then.
Appended(w, price) ==
  LET t == tx[w]
      good == price # 0 /\ Smaller(t, price) /\ (t.trigger = "manual" => ~aborted) /\ Stable(t)
      summary == Summary(w, Span(t.nodes, t.from, t.to))
      checkpoint == Checkpoint(w, t.from, t.to, price)
      closed == <<End(w, TRUE)>>
  IN [whole  |-> IF good THEN <<summary, checkpoint, End(w, FALSE)>> ELSE closed,
      broken |-> IF good THEN {closed, <<summary, End(w, TRUE)>>, <<summary, checkpoint>>} ELSE {<<>>}]

-----------------------------------------------------------------------------
TypeOK ==
  /\ phase \in {"idle", "pre", "capacity", "compacting", "again", "entering", "request",
                "recovered", "tools", "ending", "failing", "between", "flushing"}
  /\ phase = "compacting" <=> tx["driver"].stage = "summary"
  /\ \A w \in Actors : /\ tx[w].stage \in {"none", "summary"}
                       /\ tx[w].trigger \in {"none", "pressure", "overflow", "manual", "region"}
                       /\ tx[w].attempt \in 0 .. Retries
  /\ aborted \in BOOLEAN /\ retries \in 0 .. MaxOverflow /\ asked \in 0 .. Generation(log)
  /\ cache.cuts # <<>> /\ cache.gen \in 0 .. Generation(log)
  /\ durable \in 0 .. Len(log) /\ reported \in 0 .. durable

Init ==
  /\ log = <<>> /\ nodes = <<>> /\ phase = "idle" /\ aborted = FALSE /\ tx = [w \in Actors |-> NoTx]
  /\ cache = Fresh /\ retries = 0 /\ asked = 0 /\ durable = 0 /\ reported = 0
  /\ others = 0 /\ fails = 0 /\ lives = 1

Goto(p) == phase' = p
StepsOn == IF aborted THEN "failing" ELSE "entering"
Fail    == fails < MaxFails /\ fails' = fails + 1
Ask     == others < MaxOthers /\ others' = others + 1   \* by a person or another client

-----------------------------------------------------------------------------
(* The driver *)

TurnsLeft == Cardinality(Events(log, {"turn"})) < MaxTurns
OpenTurn  == Log(<<Marker("turn")>>) /\ Goto("pre")

StartTurn ==
  /\ phase = "idle" /\ TurnsLeft /\ OpenTurn
  /\ UNCHANGED <<turn, tx, cache, durable, reported, bounds>>

\* The pressure listener: the surface is measured before the capacity is asked for.
PreStep ==
  /\ phase = "pre"
  /\ \/ Goto(StepsOn) /\ UNCHANGED tx   \* no routed request yet, or an abort
     \/ /\ ~aborted /\ Goto("capacity")
        /\ tx' = [tx EXCEPT !["driver"].nodes = nodes]
  /\ UNCHANGED <<session, turn, cache, durable, reported, bounds>>

\* pruneSession: every result that is too large is replaced by its ends, in surface
\* order; a pass that throws leaves the first n replaced.
InOrder(S) == SetToSortSeq(S, LAMBDA i, j : i < j)
Large == {k \in DOMAIN nodes : log[nodes[k]].type = "result" /\ log[nodes[k]].price > 1}
PruneFirst(n) == With(log \o [j \in 1 .. n |-> Pruned(log, nodes[InOrder(Large)[j]])])
Prune         == PruneFirst(Cardinality(Large))
BrokenPrunes  == {PruneFirst(n) : n \in 0 .. Cardinality(Large) - 1}

\* The step goes on, with what was pruned.
StepOn(v) == Publish(v) /\ Goto(StepsOn) /\ tx' = [tx EXCEPT !["driver"] = NoTx]

\* One attempt to compact under pressure; a lock, no range or a start that is not
\* accepted leaves the step to go on.
Attempt(v, attempt) ==
  LET span == Selected(v, Retain)
  IN IF span # <<>> /\ ~Locked(v.log)
     THEN /\ cache' = Synced(v)
          /\ \/ /\ BeginSelected("pressure", attempt, v, span) /\ Goto("compacting")
                /\ UNCHANGED fails
             \/ Fail /\ StepOn(v)
     ELSE StepOn(v) /\ cache' = Looked(v, Retain) /\ UNCHANGED fails

\* compactIfNeeded once the capacity is known, or not.
Capacity ==
  /\ phase = "capacity"
  /\ LET pressing == Price(log, tx["driver"].nodes) >= Threshold /\ ~Locked(log)
         pruned == Prune
     IN \/ StepOn(Here) /\ UNCHANGED <<cache, fails>>
        \/ pressing /\ Fail /\ (\E v \in BrokenPrunes : StepOn(v)) /\ UNCHANGED cache
        \/ /\ pressing
           /\ IF Tokens(pruned) >= Threshold THEN Attempt(pruned, 0)
              ELSE StepOn(pruned) /\ UNCHANGED <<cache, fails>>
  /\ UNCHANGED <<turn, durable, reported, others, lives>>

\* After a summary that landed: once more while the pressure lasts.
Again ==
  /\ phase = "again"
  /\ IF Tokens(Here) >= Threshold /\ tx["driver"].attempt < Retries
     THEN Attempt(Here, tx["driver"].attempt + 1) ELSE StepOn(Here) /\ UNCHANGED <<cache, fails>>
  /\ UNCHANGED <<turn, durable, reported, others, lives>>

Answers == Cardinality(Events(log, {"assistant"}))
Enter ==
  /\ phase = "entering"
  /\ IF aborted THEN Goto("failing") /\ UNCHANGED session
     ELSE /\ Goto("request")
          /\ Log(IF Last0(Events(log, {"turn"})) > Last0(Events(log, {"assistant"})) THEN <<User>> ELSE <<>>)
  /\ UNCHANGED <<turn, tx, cache, durable, reported, bounds>>

\* An answer starts a fresh recovery; with calls the step goes on to their results.
Answer ==
  /\ phase = "request" /\ ~aborted /\ Answers < MaxAnswers
  /\ \E n \in 0 .. MaxCalls : /\ Log(<<Message(n)>>)
                              /\ Goto(IF n = 0 THEN "ending" ELSE "tools")
  /\ retries' = 0
  /\ UNCHANGED <<aborted, asked, tx, cache, durable, reported, bounds>>

RequestFails ==
  /\ phase = "request" /\ Goto("failing")
  /\ UNCHANGED <<session, turn, tx, cache, durable, reported, bounds>>

\* The recovery of a context overflow: prune, then the largest balanced head.
Overflow ==
  /\ phase = "request" /\ ~aborted /\ retries < MaxOverflow /\ asked' = Generation(log)
  /\ LET pruned == Prune
         span == Selected(pruned, 0)
         ready == span # <<>> /\ ~Locked(log)
     IN \/ /\ ready /\ BeginSelected("overflow", 0, pruned, span) /\ Goto("compacting")
           /\ cache' = Synced(pruned) /\ UNCHANGED fails
        \/ /\ ready /\ Fail /\ Publish(pruned) /\ Goto("recovered")  \* its start is not accepted
           /\ cache' = Synced(pruned) /\ UNCHANGED tx
        \/ /\ ~ready /\ Publish(pruned) /\ Goto("recovered")
           /\ cache' = Looked(pruned, 0) /\ UNCHANGED <<tx, fails>>
        \/ /\ Fail /\ (\E v \in BrokenPrunes : Publish(v)) /\ Goto("recovered")
           /\ UNCHANGED <<tx, cache>>
  /\ UNCHANGED <<aborted, retries, durable, reported, others, lives>>

\* A replacement on the surface, whoever made it, authorizes a retry.
Recover ==
  /\ phase = "recovered"
  /\ IF ~aborted /\ Generation(log) > asked THEN retries' = retries + 1 /\ Goto("request")
     ELSE Goto("failing") /\ UNCHANGED retries
  /\ UNCHANGED <<aborted, asked, session, tx, cache, durable, reported, bounds>>

Unanswered(l) ==
  LET b == Last0(Events(l, {"turn", "turnend"}))
      called == {c \in (b + 1 .. Len(l)) \X (1 .. MaxCalls) :
                   l[c[1]].type = "assistant" /\ c[2] <= l[c[1]].calls}
  IN called \ {l[i].call : i \in Events(l, {"result"})}
CallOrder(S) == SetToSortSeq(S, LAMBDA c, d : c[1] < d[1] \/ (c[1] = d[1] /\ c[2] < d[2]))

\* Results come in the order of the calls; the batch may fail and leave the rest open.
ToolResult ==
  /\ phase = "tools"
  /\ LET open == Unanswered(log)
         c == CHOOSE c \in open : \A d \in open : c[1] < d[1] \/ (c[1] = d[1] /\ c[2] <= d[2])
     IN /\ \E price \in 1 .. 2 : Log(<<Result(c, price)>>)
        /\ IF open # {c} THEN UNCHANGED phase ELSE phase' \in (IF aborted THEN {"failing"} ELSE {"pre", "ending"})
  /\ UNCHANGED <<turn, tx, cache, durable, reported, bounds>>
BatchFails ==
  /\ phase = "tools" /\ Fail /\ Goto("failing")
  /\ UNCHANGED <<session, turn, tx, cache, durable, reported, others, lives>>

\* A turn that completed may be followed by the next; only an idle status forgets the
\* overflow retries.
EndTurn ==
  /\ phase \in {"ending", "failing"}
  /\ \/ Goto("idle") /\ retries' = 0
     \/ phase = "ending" /\ TurnsLeft /\ Goto("between") /\ UNCHANGED retries
  /\ Log(<<Marker("turnend")>>) /\ aborted' = FALSE
  /\ UNCHANGED <<asked, tx, cache, durable, reported, bounds>>

\* ... unless an abort comes first.
NextTurn ==
  /\ phase = "between" /\ aborted' = FALSE
  /\ IF aborted THEN Goto("idle") /\ retries' = 0 /\ UNCHANGED session
     ELSE OpenTurn /\ UNCHANGED retries
  /\ UNCHANGED <<asked, tx, cache, durable, reported, bounds>>

Abort ==
  /\ phase # "idle" /\ ~aborted /\ Ask /\ aborted' = TRUE
  /\ UNCHANGED <<session, phase, retries, asked, tx, cache, durable, reported, fails, lives>>

-----------------------------------------------------------------------------
(* The command and the other clients *)

\* compactNow: maintenance of the idle agent, so that no turn starts beside it.
CompactNow ==
  /\ phase = "idle" /\ Ask /\ ~Locked(log) /\ Selected(Here, 0) # <<>>
  /\ \/ /\ BeginSelected("manual", 0, Here, Selected(Here, 0)) /\ Goto("compacting")
        /\ UNCHANGED fails
     \/ Fail /\ UNCHANGED <<session, phase, tx>>   \* its start is not accepted
  /\ cache' = Synced(Here)
  /\ UNCHANGED <<turn, durable, reported, lives>>

CompactRegion ==
  /\ Callers /\ tx["caller"].stage = "none" /\ Ask
  /\ TurnOpen(log) /\ ~Locked(log)
  /\ \E from, to \in ToSet(nodes) :
       /\ Valid(Here, from, to)
       /\ \/ Begin("caller", "region", 0, Here, from, to) /\ UNCHANGED fails
          \/ Fail /\ UNCHANGED <<session, tx>>
  /\ cache' = Synced(Here)
  /\ UNCHANGED <<phase, turn, durable, reported, lives>>

\* Another client's context, or its call of the pruner.
Beside ==
  /\ Ask
  /\ \/ Log(<<User>>) /\ UNCHANGED fails
     \/ Prune # Here /\ Publish(Prune) /\ UNCHANGED fails
     \/ Fail /\ \E v \in BrokenPrunes : Publish(v)
  /\ UNCHANGED <<phase, turn, tx, cache, durable, reported, lives>>

\* The summarizer settles; the rest of the transaction is one job.
Settle(w) ==
  /\ tx[w].stage = "summary"
  /\ \E price \in 0 .. 1 :   \* 0: it rejects
       LET outcome == Appended(w, price)
           ok == outcome.whole[Len(outcome.whole)] = End(w, FALSE)
           t == tx[w]
           next(landed, closed) ==
             CASE w = "caller"           -> "none"
               [] t.trigger = "manual"   -> IF closed THEN "flushing" ELSE "idle"
               [] t.trigger = "overflow" -> "recovered"
               [] OTHER                  -> IF landed THEN "again" ELSE StepsOn
           leave(landed, closed) ==
             /\ IF w = "caller" THEN UNCHANGED phase ELSE Goto(next(landed, closed))
             /\ tx' = [tx EXCEPT ![w] = IF next(landed, closed) = "again" THEN [t EXCEPT !.stage = "none"] ELSE NoTx]
             /\ aborted' = (aborted /\ next(landed, closed) # "idle")
       IN \/ Log(outcome.whole) /\ leave(ok, TRUE) /\ UNCHANGED fails
          \/ /\ Fail
             /\ \E part \in outcome.broken :
                  Log(part) /\ leave(FALSE, part # <<>> /\ part[Len(part)].type = "end")
  /\ cache' = IF tx[w].trigger = "manual" /\ ~aborted THEN Synced(Here) ELSE cache
  /\ UNCHANGED <<retries, asked, durable, reported, others, lives>>

\* The flush vouches for the closed bracket; a command that was cancelled fails all the same.
Flush ==
  /\ phase = "flushing" /\ Goto("idle") /\ aborted' = FALSE
  /\ LET end == Last0(Events(log, {"end"}))
     IN \/ /\ durable' = IF end > durable THEN end ELSE durable
           /\ reported' = IF ~log[end].failed /\ ~aborted THEN end ELSE reported
        \/ UNCHANGED <<durable, reported>>
  /\ UNCHANGED <<session, retries, asked, tx, cache, bounds>>

\* A crash keeps a prefix; the reload answers its open calls, closes its turn and marks
\* the end of what it was given.
Crash ==
  /\ lives < MaxLives /\ lives' = lives + 1
  /\ \E keep \in durable .. Len(log) :
       LET l == SubSeq(log, 1, keep)
           open == CallOrder(Unanswered(l))
           results == [k \in 1 .. Cardinality(Unanswered(l)) |-> Result(open[k], 1)]
       IN log' = l \o (IF TurnOpen(l) THEN results \o <<Marker("turnend")>> ELSE <<>>) \o <<Marker("seed")>>
  /\ nodes' = Advance(<<>>, log', 0)
  /\ phase' = "idle" /\ aborted' = FALSE /\ retries' = 0 /\ asked' = 0 /\ cache' = Fresh
  /\ tx' = [w \in Actors |-> NoTx] /\ UNCHANGED <<durable, reported, others, fails>>

Driver == \/ PreStep \/ Capacity \/ Again \/ Enter \/ Answer \/ RequestFails \/ Overflow \/ Recover
          \/ ToolResult \/ EndTurn \/ NextTurn \/ Flush \/ \E w \in Actors : Settle(w)
Alone == Driver \/ StartTurn \/ BatchFails \/ Abort \/ CompactNow \/ Beside
Next  == Alone \/ CompactRegion \/ Crash

Spec == Init /\ [][Next]_vars

(* Models, summarizers, tools and flushes settle. *)
FairSpec == Spec /\ WF_vars(Driver)

-----------------------------------------------------------------------------
(* Properties *)

\* A call and its result are on the surface together or not at all, whatever was
\* replaced, and the call comes first (tool-pairing.ts:2).
PairsTogether ==
  \A i \in Events(log, {"assistant"}) : \A k \in 1 .. log[i].calls :
    LET results == {j \in Events(log, {"result"}) : log[j].call = <<i, k>>}
        shown   == results \cap ToSet(nodes)
    IN IF i \in ToSet(nodes) THEN results # {} => \E j \in shown : Pos(nodes, i) < Pos(nodes, j)
       ELSE shown = {}

\* The range that is chosen is the longest head that leaves the tail its tokens and
\* whose calls all have their results in it (region.ts:98).
SelectionIsBest ==
  LET head(k) == ToSet(SubSeq(nodes, 1, k - 1))
      whole(k) == \A i \in head(k) : log[i].type = "assistant" =>
                    \A c \in 1 .. log[i].calls :
                      \E x \in head(k) : log[x].type = "result" /\ log[x].call = <<i, c>>
  IN \A retain \in {0, Retain} :
       LET cuts == {k \in 2 .. Len(nodes) : whole(k) /\ Price(log, SubSeq(nodes, k, Len(nodes))) >= retain}
       IN Selected(Here, retain) = SubSeq(nodes, 1, Last0(cuts) - 1)

\* A step replaces what it recorded: a checkpoint stands for exactly what its summary
\* was made from, and is smaller, although the surface may change while the summary is
\* made (region.ts:398).
ReplacesRecorded ==
  lives' = lives =>
    \A i \in Events(log', {"checkpoint"}) \ DOMAIN log :
      LET span == Span(nodes, log'[i].from, log'[i].to)
      IN log'[i - 1].shadowed = span /\ log'[i].price < Price(log, span)

\* No transaction starts inside another of the same life (compaction/src/index.ts:90).
OneBracket ==
  \A i \in Events(log, {"start"}) : ~Locked(SubSeq(log, 1, i - 1))

\* The lock is held by a running transaction or left by a close that failed; a crash
\* never leaves it behind (compaction-basic/README.md:22).
LockIsOwned == Locked(log) => fails > 0 \/ \E w \in Actors : tx[w].stage = "summary"

\* What a command reported as done survives every crash.
ReportedIsStored == reported # 0 => /\ reported <= Len(log)
                                    /\ log[reported].type = "end" /\ ~log[reported].failed

\* The surface that is advanced beside every append is the one a reload folds the log
\* to (surface.ts:387).
SurfaceIsFold == nodes = Advance(<<>>, log, 0)

\* A step keeps turns apart from the driver's transactions: no turn starts or ends
\* inside a running one.  It is the part of invariant.ts:94 that the loop itself keeps;
\* a caller of compactRegion that the turn does not wait for may still be compacting
\* when the turn ends, which only that companion refuses, where it is installed.
KeepsTurnsApart ==
  lives' = lives /\ tx["driver"].stage = "summary" =>
    Events(log', {"turn", "turnend"}) = Events(log, {"turn", "turnend"})

\* What the log says of compactions is true.
CompactionsAreSound == TypeOK /\ LockIsOwned /\ ReportedIsStored /\ OneBracket /\ SurfaceIsFold

\* A checkpoint replaces what was recorded, and turns keep clear of transactions.
ReplacementsAreSound == [][ReplacesRecorded /\ KeepsTurnsApart]_vars

\* Every turn and every command ends, although overflows are retried and pressure
\* is tried again.
ActivityEnds == phase # "idle" ~> phase = "idle"
=============================================================================
