---------------------------- MODULE SessionStore ----------------------------
(* The live session store and the publication of its sessions              *)
(* (packages/core/session/src/index.ts): enter, announce, append, detach.  *)
(* All of it is synchronous; what makes it hard is that the observers of   *)
(* session/created, session/event and session/disposed are called in the   *)
(* middle, and may append, announce, detach or enter a session themselves. *)
(* The JavaScript stack is a sequence of dispatches; each has called its   *)
(* first `called` observers, the last of which is still running.           *)
EXTENDS Naturals, Sequences, FiniteSets, SequencesExt

CONSTANTS Sessions,   \* session objects; they all have one session id
          Observers,  \* how many observers each event has
          MaxEvents,  \* bound: events of one session
          MaxDepth    \* bound: nested dispatches

ASSUME Bounds == /\ Observers \in Nat \ {0}
                 /\ MaxEvents \in Nat /\ MaxDepth \in Nat

VARIABLES log,        \* how many events each session holds
          entry,      \* each session's SessionEntry
          capability, \* whether its detach disposer is still unused
          stack,      \* the dispatches in progress, the innermost last
          seen,       \* what each observer was told about each session
          published   \* the events appended while the session was attached

vars == <<log, entry, capability, stack, seen, published>>

\* An entry is in the store exactly while it is attached: enter() and
\* detachEntered() write both maps together.
Entry == [attached : BOOLEAN, announced : BOOLEAN, announcing : BOOLEAN,
          appending : BOOLEAN, detachRequested : BOOLEAN, used : BOOLEAN]

NoEntry == [attached |-> FALSE, announced |-> FALSE, announcing |-> FALSE,
            appending |-> FALSE, detachRequested |-> FALSE, used |-> FALSE]

Dispatch == [of : {"created", "event", "disposed"}, session : Sessions,
             seq : Nat, called : 0 .. Observers]

\* What an observer is told, and where it stands.
Told(what, n) == [of |-> what, seq |-> n]

Observed == [of : {"created", "event", "disposed"}, seq : Nat]

InDispatch(s, what) ==
  \E k \in DOMAIN stack : stack[k].session = s /\ stack[k].of = what

\* The types, and the two flags that say which dispatch is on the stack.
TypeOK ==
  /\ log \in [Sessions -> 0 .. MaxEvents]
  /\ entry \in [Sessions -> Entry]
  /\ capability \in [Sessions -> BOOLEAN]
  /\ stack \in Seq(Dispatch)
  /\ seen \in [1 .. Observers -> [Sessions -> Seq(Observed)]]
  /\ published \in [Sessions -> Seq(Observed)]
  /\ \A s \in Sessions : /\ entry[s].announcing = InDispatch(s, "created")
                         /\ entry[s].appending = InDispatch(s, "event")

Init ==
  /\ log = [s \in Sessions |-> 0]
  /\ entry = [s \in Sessions |-> NoEntry]
  /\ capability = [s \in Sessions |-> FALSE]
  /\ stack = <<>>
  /\ seen = [o \in 1 .. Observers |-> [s \in Sessions |-> <<>>]]
  /\ published = [s \in Sessions |-> <<>>]

Starting(what, s, n) == [of |-> what, session |-> s, seq |-> n, called |-> 0]

\* A caller runs: nothing is on the stack, or an observer is running.
MayCall == stack # <<>> => Last(stack).called > 0 /\ Len(stack) < MaxDepth

\* detachEntered: the entry goes, and a disposal pairs an announced creation.
DetachEntered(s, e, frames) ==
  /\ entry' = [entry EXCEPT ![s] = [e EXCEPT !.attached = FALSE,
                                             !.detachRequested = FALSE]]
  /\ stack' = IF e.announced THEN Append(frames, Starting("disposed", s, 0))
                             ELSE frames

\* The end of a dispatch: its flag is cleared, and a detachment that was
\* requested meanwhile happens unless the other dispatch still runs.
Finally(s, e) ==
  IF e.detachRequested /\ ~e.announcing /\ ~e.appending
  THEN DetachEntered(s, e, Front(stack))
  ELSE entry' = [entry EXCEPT ![s] = e] /\ stack' = Front(stack)

---------------------------------------------------------------------------
(* Calls.                                                                  *)

\* enter(): the id must be free.
Enter(s) ==
  /\ MayCall
  /\ ~entry[s].used /\ \A t \in Sessions : ~entry[t].attached
  /\ entry' = [entry EXCEPT ![s].attached = TRUE, ![s].used = TRUE]
  /\ capability' = [capability EXCEPT ![s] = TRUE]
  /\ UNCHANGED <<log, stack, seen, published>>

\* announce(): once; marked before the first observer is called.
Announce(s) ==
  /\ MayCall
  /\ entry[s].attached /\ ~entry[s].announced
  /\ entry' = [entry EXCEPT ![s].announced = TRUE, ![s].announcing = TRUE]
  /\ stack' = Append(stack, Starting("created", s, 0))
  /\ UNCHANGED <<log, capability, seen, published>>

\* A bug: append() does not look for one in progress.
MayAppendAlways(s) == TRUE

\* append() throws while another append of the session is being published.
MayAppend(s) == ~entry[s].appending

AppendEvent(s) ==
  /\ MayCall /\ log[s] < MaxEvents
  /\ MayAppend(s)
  /\ log' = [log EXCEPT ![s] = @ + 1]
  /\ IF entry[s].attached
     THEN /\ entry' = [entry EXCEPT ![s].appending = TRUE]
          /\ stack' = Append(stack, Starting("event", s, log[s]))
          /\ published' = [published EXCEPT ![s] = Append(@, Told("event", log[s]))]
     ELSE UNCHANGED <<entry, stack, published>>
  /\ UNCHANGED <<capability, seen>>

\* A detachment waits for the dispatches of its session.
MustWait(s) == entry[s].announcing \/ entry[s].appending

\* The disposer enter() returned; it works once.
Detach(s) ==
  /\ MayCall
  /\ capability[s]
  /\ capability' = [capability EXCEPT ![s] = FALSE]
  /\ IF MustWait(s)
     THEN /\ entry' = [entry EXCEPT ![s].detachRequested = TRUE]
          /\ UNCHANGED stack
     ELSE DetachEntered(s, entry[s], stack)
  /\ UNCHANGED <<log, seen, published>>

---------------------------------------------------------------------------
(* Dispatches.                                                             *)

\* The running observer returns and the next one is called.  One that throws
\* out of session/event or session/disposed is contained, and so a return.
Call ==
  /\ stack # <<>> /\ Last(stack).called < Observers
  /\ LET d == Last(stack)
         o == d.called + 1
     IN /\ stack' = [stack EXCEPT ![Len(stack)].called = o]
        /\ seen' = [seen EXCEPT ![o][d.session] = Append(@, Told(d.of, d.seq))]
  /\ UNCHANGED <<log, entry, capability, published>>

\* The last observer has returned.
Finish ==
  /\ stack # <<>> /\ Last(stack).called = Observers
  /\ LET d == Last(stack)
         s == d.session
     IN CASE d.of = "event"    -> Finally(s, [entry[s] EXCEPT !.appending = FALSE])
          [] d.of = "created"  -> Finally(s, [entry[s] EXCEPT !.announcing = FALSE])
          [] d.of = "disposed" -> stack' = Front(stack) /\ UNCHANGED entry
  /\ UNCHANGED <<log, capability, seen, published>>

\* An observer of session/created throws: the rest are not called, and the
\* caller, whose effect holds the disposer, detaches.
Veto ==
  /\ stack # <<>> /\ Last(stack).of = "created"
  /\ Last(stack).called \in 1 .. Observers
  /\ LET s == Last(stack).session
         e == [entry[s] EXCEPT !.announcing = FALSE,
                               !.detachRequested = @ \/ capability[s]]
     IN Finally(s, e) /\ capability' = [capability EXCEPT ![s] = FALSE]
  /\ UNCHANGED <<log, seen, published>>

Next ==
  \/ \E s \in Sessions : Enter(s) \/ Announce(s) \/ AppendEvent(s) \/ Detach(s)
  \/ Call \/ Finish \/ Veto

Spec == Init /\ [][Next]_vars

---------------------------------------------------------------------------
(* Properties.                                                             *)

\* The events among the first k things an observer was told of a session.
EventsHeard(o, s, k) == Cardinality({j \in 1 .. k : seen[o][s][j].of = "event"})

\* Every observer hears the events of a session in log order, without a gap:
\* the n-th event it hears is the n-th one published, also in the middle of
\* nested dispatches.
HeardInOrder ==
  \A o \in 1 .. Observers, s \in Sessions : \A k \in DOMAIN seen[o][s] :
     seen[o][s][k].of = "event" =>
       LET n == EventsHeard(o, s, k)
       IN  n \in DOMAIN published[s] /\ seen[o][s][k] = published[s][n]

\* Disposal is the last thing an observer hears of a session, and creation
\* and disposal come once.
DisposalIsLast ==
  \A o \in 1 .. Observers, s \in Sessions : \A k, m \in DOMAIN seen[o][s] :
     k < m => /\ seen[o][s][k].of # "disposed"
              /\ "created" \notin {seen[o][s][k].of} \cap {seen[o][s][m].of}

\* When the stack has unwound, everyone has heard everything: all events,
\* and the disposal of each session whose announcement had begun.
EveryoneHeard ==
  stack = <<>> =>
    \A o \in 1 .. Observers, s \in Sessions :
       /\ EventsHeard(o, s, Len(seen[o][s])) = Len(published[s])
       /\ Contains(seen[o][s], Told("disposed", 0)) <=>
             entry[s].announced /\ ~entry[s].attached

\* A detachment asked for in the middle of a dispatch is not forgotten: when
\* the stack has unwound, a session whose disposer was used is detached.
DetachIsHonoured ==
  stack = <<>> => \A s \in Sessions : entry[s].attached => capability[s]
=============================================================================
