--------------------------- MODULE SessionRepair ---------------------------
(* The pure functions over one session log that recovery is built from:    *)
(* interruptedTurnClosers (packages/core/session/src/repair.ts), the       *)
(* account of consumed work (packages/core/agent/src/consumed-work.ts) and *)
(* the projection of the inbox (packages/core/agent/src/inbox.ts), with    *)
(* the reference definitions they are checked against.  A log is a         *)
(* sequence of events; an event has the fields these functions read.       *)
EXTENDS Naturals, Sequences

LOCAL INSTANCE SequencesExt

\* Events.
Inserted(m)    == [type |-> "inserted", message |-> m]
Claimed(ms)    == [type |-> "claimed", messages |-> ms]
Canceled(m)    == [type |-> "canceled", message |-> m]
TurnStart(t)   == [type |-> "turn/start", turn |-> t]
TurnEnd(t, r)  == [type |-> "turn/end", turn |-> t, reason |-> r]
StepStart(t)   == [type |-> "step/start", turn |-> t]
StepEnd        == [type |-> "step/end"]
User(m)        == [type |-> "user/message", message |-> m]
Assistant(cs)  == [type |-> "assistant/message", calls |-> cs]
Call(c)        == [type |-> "tool/call", call |-> c]
Result(c, how) == [type |-> "tool/result", call |-> c, how |-> how]

\* Turns count from 1.
NoTurn == 0

---------------------------------------------------------------------------
(* interruptedTurnClosers                                                  *)

\* The scan: the open turn, whether a step is open, and the calls without a
\* result, in the order of the assistant's blocks.
Balance == [turn |-> NoTurn, step |-> FALSE, pending |-> <<>>]

Marked(pending, c) ==
  [k \in DOMAIN pending |->
     IF pending[k].call = c THEN [call |-> c, started |-> TRUE] ELSE pending[k]]

Without(pending, c) == SelectSeq(pending, LAMBDA p : p.call # c)

Scan(b, e) ==
  CASE e.type = "turn/start"  -> [Balance EXCEPT !.turn = e.turn]
    [] e.type = "turn/end"    -> Balance
    [] e.type = "step/start"  -> [b EXCEPT !.step = TRUE]
    [] e.type = "step/end"    -> [b EXCEPT !.step = FALSE, !.pending = <<>>]
    [] e.type = "assistant/message" ->
         [b EXCEPT !.pending = @ \o
            [k \in DOMAIN e.calls |-> [call |-> e.calls[k], started |-> FALSE]]]
    [] e.type = "tool/call"   -> [b EXCEPT !.pending = Marked(@, e.call)]
    [] e.type = "tool/result" -> [b EXCEPT !.pending = Without(@, e.call)]
    [] OTHER                  -> b

\* A bug: the turn is closed as if it had run to its end.
EndCompleted(t) == TurnEnd(t, "completed")

EndInterrupted(t) == TurnEnd(t, "interrupted")

StepCloser(b) == IF b.step THEN <<StepEnd>> ELSE <<>>

Closers(log) ==
  LET b == FoldLeft(Scan, Balance, log) IN
  IF b.turn = NoTurn THEN <<>>
  ELSE [k \in DOMAIN b.pending |->
          Result(b.pending[k].call,
                 IF b.pending[k].started THEN "outcomeUnknown" ELSE "notStarted")]
       \o StepCloser(b) \o <<EndInterrupted(b.turn)>>

---------------------------------------------------------------------------
(* foldConsumedWork                                                        *)

\* Only a completed end says nothing about a claim: it was rewritten away.
AccountsForClaim(reason) == reason # "completed"

Nothing == [stepped |-> {}, claimed |-> {}, open |-> NoTurn,
            end |-> NoTurn, reason |-> "none", droppedUnrun |-> FALSE]

Consume(a, e) ==
  CASE e.type = "turn/start" -> [a EXCEPT !.open = e.turn]
    [] e.type = "step/start" -> [a EXCEPT !.stepped = @ \cup {e.turn}]
    [] e.type = "canceled"   -> [a EXCEPT !.droppedUnrun = TRUE]
    [] e.type = "claimed"    ->
         IF a.open = NoTurn THEN a ELSE [a EXCEPT !.claimed = @ \cup {a.open}]
    [] e.type = "turn/end"   ->
         LET stepped == e.turn \in a.stepped
             owed    == e.turn \in a.claimed /\ AccountsForClaim(e.reason)
             closed  == [a EXCEPT !.open = NoTurn, !.stepped = @ \ {e.turn},
                           !.claimed = IF stepped THEN @ ELSE @ \ {e.turn}]
         IN IF stepped \/ owed
            THEN [closed EXCEPT !.end = e.turn, !.reason = e.reason,
                                !.droppedUnrun = FALSE]
            ELSE closed
    [] OTHER                 -> a

ConsumedWork(log) ==
  LET a == FoldLeft(Consume, Nothing, log)
  IN [end |-> a.end, reason |-> a.reason, droppedUnrun |-> a.droppedUnrun]

---------------------------------------------------------------------------
(* The inbox as the splices of a log leave it.                             *)

Events(log, type) == {k \in DOMAIN log : log[k].type = type}

\* The pending messages (Inbox, replayed from the log).
Pending(log) ==
  FoldLeft(LAMBDA inbox, e :
             CASE e.type = "inserted" -> inbox \cup {e.message}
               [] e.type = "claimed"  -> inbox \ e.messages
               [] e.type = "canceled" -> inbox \ {e.message}
               [] OTHER               -> inbox,
           {}, log)

Transcript(log) == {log[k].message : k \in Events(log, "user/message")}

---------------------------------------------------------------------------
(* Reference definitions: what the functions should say, by positions.     *)

\* The first event after position k that satisfies P.
NextAfter(log, k, P(_)) ==
  LET after == {i \in k + 1 .. Len(log) : P(log[i])} IN
  IF after = {} THEN 0 ELSE CHOOSE i \in after : \A j \in after : i <= j

\* A log a reader can use: turns do not overlap and are closed, steps are
\* closed inside their turn, and every tool call of a message has exactly one
\* result before the step ends; or it is one of those that a failure dropped,
\* has none, and the turn that ends with this step did not run to its end.
IsBalanced(log, dropped) ==
  /\ \A k \in Events(log, "turn/start") :
        LET n == NextAfter(log, k, LAMBDA e : e.type \in {"turn/start", "turn/end"})
        IN n # 0 /\ log[n].type = "turn/end" /\ log[n].turn = log[k].turn
  /\ \A k \in Events(log, "step/start") :
        LET n == NextAfter(log, k, LAMBDA e :
                   e.type \in {"step/start", "step/end", "turn/end"})
        IN n # 0 /\ log[n].type = "step/end"
  /\ \A k \in Events(log, "assistant/message") :
        LET n == NextAfter(log, k, LAMBDA e : e.type = "step/end") IN
        \A c \in {log[k].calls[i] : i \in DOMAIN log[k].calls} :
           LET results == {i \in Events(log, "tool/result") : log[i].call = c} IN
           \/ \E r \in k + 1 .. n : results = {r}
           \/ /\ c \in dropped /\ results = {}
              /\ n < Len(log) /\ log[n + 1].type = "turn/end"
              /\ log[n + 1].reason \in {"error", "aborted", "interrupted"}

\* The turn at position k ended work: it stepped, or it claimed and did not
\* complete.
EndsWork(log, k) ==
  LET t == log[k].turn
      inside(i) == /\ i < k
                   /\ \E s \in Events(log, "turn/start") :
                         s < i /\ log[s].turn = t
  IN \/ \E i \in Events(log, "step/start") : log[i].turn = t /\ i < k
     \/ /\ log[k].reason # "completed"
        /\ \E i \in Events(log, "claimed") : inside(i)

ReferenceWork(log) ==
  LET ends == {k \in Events(log, "turn/end") : EndsWork(log, k)}
      last == IF ends = {} THEN 0 ELSE CHOOSE k \in ends : \A j \in ends : j <= k
  IN [end          |-> IF last = 0 THEN NoTurn ELSE log[last].turn,
      reason       |-> IF last = 0 THEN "none" ELSE log[last].reason,
      droppedUnrun |-> \E k \in Events(log, "canceled") : k > last]
=============================================================================
