-------------------------- MODULE LifecycleProofs --------------------------
(***************************************************************************)
(* Proofs about the two parts of MCLifecycles.  SessionStore, for any      *)
(* sessions, observers and nesting of dispatches: every observer hears     *)
(* every event in order, disposal last, and a detachment asked for is not  *)
(* forgotten.  AgentLifecycle, for any attempts, ids and owners: a session *)
(* has one driver, and what ends leaves nothing.                           *)
(***************************************************************************)
EXTENDS MCLifecycles, Integers, SequenceTheorems, FiniteSetTheorems, TLAPS

---------------------------------------------------------------------------
(* The dispatches of a stack: which are in progress, what they say, and    *)
(* which of them an observer is still to hear.                             *)

In(st, s, w) == \E k \in DOMAIN st : st[k].session = s /\ st[k].of = w
Says(st, s, w, n) == \E k \in DOMAIN st : st[k].session = s /\ st[k].of = w /\ st[k].seq = n
Owes(st, o, s, w) == \E k \in DOMAIN st : st[k].session = s /\ st[k].of = w /\ st[k].called < o

(* A session has one dispatch of a kind at a time, and each dispatch but   *)
(* the innermost is in the middle of an observer.                          *)
Nested(st) ==
  /\ st \in Seq(Dispatch)
  /\ \A j, k \in DOMAIN st : st[j].session = st[k].session /\ st[j].of = st[k].of => j = k
  /\ \A k \in DOMAIN st : k < Len(st) => st[k].called > 0

---------------------------------------------------------------------------
(* The inductive invariant, in named parts.                                *)

(* The flags of an entry: a detachment that waits has a dispatch to wait   *)
(* for, a session is attached as long as it has a disposer or a request,   *)
(* and its disposal is dispatched once it is gone.                         *)
EntryFollows ==
  \A s \in Sessions :
    /\ capability[s] => entry[s].attached /\ ~entry[s].detachRequested
    /\ entry[s].attached => entry[s].used /\ (capability[s] \/ entry[s].detachRequested)
    /\ entry[s].detachRequested => entry[s].announcing \/ entry[s].appending
    /\ entry[s].announcing \/ entry[s].appending => entry[s].attached
    /\ entry[s].announcing => entry[s].announced
    /\ entry[s].announced => entry[s].used
    /\ In(stack, s, "disposed") => entry[s].announced /\ ~entry[s].attached

(* The event that is dispatched is the last one published.                 *)
DispatchSays ==
  \A s \in Sessions, n \in Nat :
    /\ Says(stack, s, "event", n) =>
         published[s] # <<>> /\ published[s][Len(published[s])] = Told("event", n)
    /\ Says(stack, s, "disposed", n) => n = 0

(* An observer has heard all events but the one that it is still to hear.  *)
EventsAreCounted ==
  \A o \in 1 .. Observers, s \in Sessions :
    EventsHeard(o, s, Len(seen[o][s])) + (IF Owes(stack, o, s, "event") THEN 1 ELSE 0)
      = Len(published[s])

Hears(o, s, w) == \E k \in DOMAIN seen[o][s] : seen[o][s][k].of = w

(* What is heard once is owed until then and never again.                  *)
OnceIsOwed ==
  \A o \in 1 .. Observers, s \in Sessions :
    /\ Hears(o, s, "created") => entry[s].announced /\ ~Owes(stack, o, s, "created")
    /\ Hears(o, s, "disposed") =>
         entry[s].announced /\ ~entry[s].attached /\ ~Owes(stack, o, s, "disposed")
    /\ entry[s].announced /\ ~entry[s].attached =>
         Owes(stack, o, s, "disposed") \/ Contains(seen[o][s], Told("disposed", 0))

IInv == /\ TypeOK /\ Nested(stack) /\ EntryFollows /\ DispatchSays /\ EventsAreCounted
        /\ OnceIsOwed /\ HeardInOrder /\ DisposalIsLast

---------------------------------------------------------------------------
(* The stack: pushing a dispatch, ending the innermost, calling an observer. *)

(* Pushing a dispatch keeps the stack nested.                              *)
LEMMA PushDispatch ==
  ASSUME NEW st, Nested(st), NEW f \in Dispatch, ~In(st, f.session, f.of),
         st # <<>> => st[Len(st)].called > 0
  PROVE  /\ Nested(Append(st, f))
         /\ \A s, w : In(Append(st, f), s, w) <=> In(st, s, w) \/ (s = f.session /\ w = f.of)
         /\ \A s, w, n : Says(Append(st, f), s, w, n) <=>
              Says(st, s, w, n) \/ (s = f.session /\ w = f.of /\ n = f.seq)
         /\ \A o, s, w : Owes(Append(st, f), o, s, w) <=>
              Owes(st, o, s, w) \/ (s = f.session /\ w = f.of /\ f.called < o)
  <1> DEFINE t == Append(st, f)
  <1>1. /\ t \in Seq(Dispatch) /\ Len(t) = Len(st) + 1 /\ Len(st) \in Nat
        /\ DOMAIN st = 1 .. Len(st) /\ DOMAIN t = 1 .. Len(st) + 1
        /\ \A k \in DOMAIN st : t[k] = st[k]
        /\ t[Len(st) + 1] = f
    BY DEF Nested
  <1>2. DOMAIN t = DOMAIN st \cup {Len(st) + 1} /\ Len(st) + 1 \notin DOMAIN st
    BY <1>1
  <1>3. \A k \in DOMAIN st : k < Len(st) => st[k].called > 0
    BY DEF Nested
  <1>4. st = <<>> <=> Len(st) = 0
    BY DEF Nested
  <1> HIDE DEF t
  <1>5. \A k \in DOMAIN t : k < Len(t) => t[k].called > 0
    <2> SUFFICES ASSUME NEW k \in DOMAIN t, k < Len(t) PROVE t[k].called > 0
      OBVIOUS
    <2>1. k \in DOMAIN st /\ t[k] = st[k] /\ k \in 1 .. Len(st)
      BY <1>1
    <2>2. CASE k < Len(st)
      BY <2>1, <2>2, <1>3
    <2>3. CASE k = Len(st)
      BY <2>1, <2>3, <1>1, <1>4
    <2> QED
      BY <2>1, <2>2, <2>3, <1>1
  <1>6. \A j, k \in DOMAIN t : t[j].session = t[k].session /\ t[j].of = t[k].of => j = k
    <2>1. \A k \in DOMAIN st : ~(st[k].session = f.session /\ st[k].of = f.of)
      BY DEF In
    <2>2. \A j, k \in DOMAIN st : st[j].session = st[k].session /\ st[j].of = st[k].of => j = k
      BY DEF Nested
    <2> QED
      BY <2>1, <2>2, <1>1, <1>2
  <1>7. Nested(t)
    BY <1>1, <1>5, <1>6 DEF Nested
  <1>8. \A s, w : In(t, s, w) <=> In(st, s, w) \/ (s = f.session /\ w = f.of)
    BY <1>1, <1>2 DEF In
  <1>9. \A s, w, n : Says(t, s, w, n) <=>
          Says(st, s, w, n) \/ (s = f.session /\ w = f.of /\ n = f.seq)
    BY <1>1, <1>2 DEF Says
  <1>10. \A o, s, w : Owes(t, o, s, w) <=>
           Owes(st, o, s, w) \/ (s = f.session /\ w = f.of /\ f.called < o)
    BY <1>1, <1>2 DEF Owes
  <1> QED
    BY <1>7, <1>8, <1>9, <1>10 DEF t

(* Ending the innermost dispatch takes away what it says and owes.         *)
LEMMA PopDispatch ==
  ASSUME NEW st, Nested(st), st # <<>>
  PROVE  /\ Len(st) \in DOMAIN st /\ st[Len(st)] \in Dispatch /\ Last(st) = st[Len(st)]
         /\ Nested(Front(st))
         /\ Front(st) # <<>> => Front(st)[Len(Front(st))].called > 0
         /\ \A s, w : In(Front(st), s, w) <=>
              In(st, s, w) /\ ~(s = Last(st).session /\ w = Last(st).of)
         /\ \A s, w, n : Says(Front(st), s, w, n) <=>
              Says(st, s, w, n) /\ ~(s = Last(st).session /\ w = Last(st).of)
         /\ \A o, s, w : Owes(Front(st), o, s, w) <=>
              Owes(st, o, s, w) /\ ~(s = Last(st).session /\ w = Last(st).of)
  <1> DEFINE t == Front(st)
             d == st[Len(st)]
  <1>1. /\ st \in Seq(Dispatch) /\ Len(st) \in Nat /\ Len(st) > 0 /\ DOMAIN st = 1 .. Len(st)
        /\ d \in Dispatch /\ Last(st) = d
    BY DEF Nested, Last
  <1>2. /\ t \in Seq(Dispatch) /\ Len(t) = Len(st) - 1 /\ DOMAIN t = 1 .. Len(st) - 1
        /\ \A k \in DOMAIN t : t[k] = st[k]
    BY <1>1 DEF Front
  <1>3. DOMAIN st = DOMAIN t \cup {Len(st)} /\ Len(st) \notin DOMAIN t
    BY <1>1, <1>2
  <1>4. /\ \A k \in DOMAIN st : k < Len(st) => st[k].called > 0
        /\ \A j, k \in DOMAIN st : st[j].session = st[k].session /\ st[j].of = st[k].of => j = k
    BY DEF Nested
  <1>5. \A k \in DOMAIN t : ~(st[k].session = d.session /\ st[k].of = d.of)
    BY <1>3, <1>4
  <1>6. \A k \in DOMAIN t : t[k].called > 0
    BY <1>2, <1>3, <1>4, <1>1
  <1> HIDE DEF t, d
  <1>7. Nested(t)
    BY <1>2, <1>3, <1>4, <1>6 DEF Nested
  <1>8. t # <<>> => t[Len(t)].called > 0
    <2> SUFFICES ASSUME t # <<>> PROVE t[Len(t)].called > 0
      OBVIOUS
    <2>1. Len(t) \in DOMAIN t
      BY <1>2
    <2> QED
      BY <2>1, <1>6
  <1>9. \A s, w : In(t, s, w) <=> In(st, s, w) /\ ~(s = d.session /\ w = d.of)
    BY <1>2, <1>3, <1>5 DEF In, d
  <1>10. \A s, w, n : Says(t, s, w, n) <=> Says(st, s, w, n) /\ ~(s = d.session /\ w = d.of)
    BY <1>2, <1>3, <1>5 DEF Says, d
  <1>11. \A o, s, w : Owes(t, o, s, w) <=> Owes(st, o, s, w) /\ ~(s = d.session /\ w = d.of)
    BY <1>2, <1>3, <1>5 DEF Owes, d
  <1> QED
    BY <1>1, <1>7, <1>8, <1>9, <1>10, <1>11 DEF t, d

(* Calling an observer changes nothing else of a dispatch.                 *)
LEMMA CalledFields ==
  ASSUME NEW d \in Dispatch, NEW o \in 0 .. Observers
  PROVE  LET e == [d EXCEPT !.called = o]
         IN  /\ e \in Dispatch /\ e.session = d.session /\ e.of = d.of /\ e.seq = d.seq
             /\ e.called = o
  BY DEF Dispatch

(* Calling the next observer pays the duty to it, and no other.            *)
LEMMA CallDispatch ==
  ASSUME NEW st, Nested(st), st # <<>>, st[Len(st)].called < Observers
  PROVE  LET d == st[Len(st)]
             o == d.called + 1
             t == [st EXCEPT ![Len(st)].called = o]
         IN  /\ d \in Dispatch /\ o \in 1 .. Observers /\ d = Last(st)
             /\ Nested(t)
             /\ In(st, d.session, d.of) /\ Says(st, d.session, d.of, d.seq)
             /\ Owes(st, o, d.session, d.of)
             /\ \A s, w : In(t, s, w) <=> In(st, s, w)
             /\ \A s, w, n : Says(t, s, w, n) <=> Says(st, s, w, n)
             /\ \A p \in Nat : \A s, w : Owes(t, p, s, w) <=>
                  Owes(st, p, s, w) /\ ~(p = o /\ s = d.session /\ w = d.of)
  <1> DEFINE d == st[Len(st)]
             o == d.called + 1
             t == [st EXCEPT ![Len(st)].called = o]
             e == [d EXCEPT !.called = o]
  <1>1. /\ st \in Seq(Dispatch) /\ Len(st) \in Nat /\ Len(st) > 0 /\ DOMAIN st = 1 .. Len(st)
        /\ Len(st) \in DOMAIN st /\ d \in Dispatch /\ Last(st) = d
    BY DEF Nested, Last
  <1>2. d.called \in 0 .. Observers /\ o \in 1 .. Observers /\ Observers \in Nat
    BY <1>1, Bounds DEF Dispatch
  <1>3. /\ e \in Dispatch /\ e.session = d.session /\ e.of = d.of /\ e.seq = d.seq /\ e.called = o
    <2>1. d \in Dispatch /\ o \in 0 .. Observers
      BY <1>1, <1>2
    <2> QED
      BY <2>1, CalledFields
  <1>4. t = [st EXCEPT ![Len(st)] = e]
    OBVIOUS
  <1>5. /\ t \in Seq(Dispatch) /\ Len(t) = Len(st) /\ DOMAIN t = DOMAIN st
        /\ t[Len(st)] = e
        /\ \A k \in DOMAIN st : k # Len(st) => t[k] = st[k]
    BY <1>1, <1>3, <1>4
  <1> HIDE DEF t, e
  <1>6. \A k \in DOMAIN st : /\ t[k].session = st[k].session /\ t[k].of = st[k].of
                             /\ t[k].seq = st[k].seq
    BY <1>3, <1>5
  <1>7. /\ \A k \in DOMAIN st : k < Len(st) => st[k].called > 0
        /\ \A j, k \in DOMAIN st : st[j].session = st[k].session /\ st[j].of = st[k].of => j = k
    BY DEF Nested
  <1>8. \A k \in DOMAIN t : k < Len(t) => t[k].called > 0
    BY <1>5, <1>7, <1>1
  <1>9. \A j, k \in DOMAIN t : t[j].session = t[k].session /\ t[j].of = t[k].of => j = k
    BY <1>5, <1>6, <1>7
  <1>10. Nested(t)
    BY <1>5, <1>8, <1>9 DEF Nested
  <1>11. \A s, w : In(t, s, w) <=> In(st, s, w)
    BY <1>5, <1>6 DEF In
  <1>12. \A s, w, n : Says(t, s, w, n) <=> Says(st, s, w, n)
    BY <1>5, <1>6 DEF Says
  <1>13. ASSUME NEW p \in Nat, NEW s, NEW w
         PROVE  Owes(t, p, s, w) <=> Owes(st, p, s, w) /\ ~(p = o /\ s = d.session /\ w = d.of)
    <2>1. d.called < p /\ p # o <=> o < p
      BY <1>2
    <2>2. CASE s = d.session /\ w = d.of
      <3>1. \A k \in DOMAIN st : st[k].session = s /\ st[k].of = w <=> k = Len(st)
        BY <2>2, <1>1, <1>7
      <3>2. Owes(st, p, s, w) <=> d.called < p
        BY <3>1, <1>1 DEF Owes
      <3>3. Owes(t, p, s, w) <=> o < p
        BY <3>1, <1>1, <1>3, <1>5, <1>6 DEF Owes
      <3> QED
        BY <3>2, <3>3, <2>1, <2>2
    <2>3. CASE ~(s = d.session /\ w = d.of)
      <3>1. \A k \in DOMAIN st : st[k].session = s /\ st[k].of = w => k # Len(st)
        BY <2>3
      <3> QED
        BY <3>1, <2>3, <1>5, <1>6 DEF Owes
    <2> QED
      BY <2>2, <2>3
  <1>14. In(st, d.session, d.of) /\ Says(st, d.session, d.of, d.seq) /\ Owes(st, o, d.session, d.of)
    BY <1>1, <1>2 DEF In, Says, Owes
  <1> QED
    BY <1>1, <1>2, <1>10, <1>11, <1>12, <1>13, <1>14 DEF t

---------------------------------------------------------------------------
(* Hearing one thing more.                                                 *)

EventsIn(q, k) == Cardinality({j \in 1 .. k : q[j].of = "event"})

(* The events among the first k entries: how the count grows.              *)
LEMMA CountFacts ==
  ASSUME NEW q \in Seq(Observed), NEW e \in Observed
  PROVE  /\ EventsIn(q, Len(q)) \in Nat
         /\ \A k \in 1 .. Len(q) : EventsIn(Append(q, e), k) = EventsIn(q, k)
         /\ EventsIn(Append(q, e), Len(q) + 1)
              = EventsIn(q, Len(q)) + (IF e.of = "event" THEN 1 ELSE 0)
  <1> DEFINE Up(t, k) == {j \in 1 .. k : t[j].of = "event"}
             u == Append(q, e)
             n == Len(q)
  <1>1. n \in Nat /\ u \in Seq(Observed) /\ u[n + 1] = e /\ \A j \in 1 .. n : u[j] = q[j]
    OBVIOUS
  <1>2. IsFiniteSet(Up(q, n)) /\ Cardinality(Up(q, n)) \in Nat
    <2>1. IsFiniteSet(1 .. n)
      BY <1>1, FS_Interval
    <2>2. IsFiniteSet(Up(q, n))
      BY <2>1, FS_Subset
    <2> QED
      BY <2>2, FS_CardinalityType
  <1>3. \A k \in 1 .. n : Up(u, k) = Up(q, k)
    BY <1>1
  <1>4. Cardinality(Up(u, n + 1)) = Cardinality(Up(q, n)) + (IF e.of = "event" THEN 1 ELSE 0)
    <2>1. CASE e.of = "event"
      <3>1. Up(u, n + 1) = Up(q, n) \cup {n + 1} /\ n + 1 \notin Up(q, n)
        BY <1>1, <2>1
      <3>2. Cardinality(Up(u, n + 1)) = Cardinality(Up(q, n)) + 1
        BY <3>1, <1>2, FS_AddElement
      <3> QED
        BY <3>2, <2>1
    <2>2. CASE e.of # "event"
      <3>1. Up(u, n + 1) = Up(q, n)
        BY <1>1, <2>2
      <3>2. Cardinality(Up(u, n + 1)) = Cardinality(Up(q, n))
        BY <3>1
      <3>3. Cardinality(Up(q, n)) + 0 = Cardinality(Up(q, n))
        BY <1>2
      <3> QED
        BY <3>2, <3>3, <2>2
    <2> QED
      BY <2>1, <2>2
  <1>5. \A t, k : EventsIn(t, k) = Cardinality(Up(t, k))
    BY DEF EventsIn
  <1>6. \A k \in 1 .. n : EventsIn(u, k) = EventsIn(q, k)
    BY <1>3, <1>5
  <1>7. EventsIn(u, n + 1) = EventsIn(q, n) + (IF e.of = "event" THEN 1 ELSE 0)
    BY <1>4, <1>5
  <1>8. EventsIn(q, n) \in Nat
    BY <1>2, <1>5
  <1> QED
    BY <1>6, <1>7, <1>8

(* What an observer heard, once it is told something more.                 *)
HeardOneMore(o, s, e) ==
  /\ seen' \in [1 .. Observers -> [Sessions -> Seq(Observed)]]
  /\ \A p \in 1 .. Observers, r \in Sessions : p # o \/ r # s => seen'[p][r] = seen[p][r]
  /\ seen[o][s] \in Seq(Observed)
  /\ seen'[o][s] = Append(seen[o][s], e)
  /\ DOMAIN seen[o][s] = 1 .. Len(seen[o][s])
  /\ DOMAIN seen'[o][s] = 1 .. Len(seen[o][s]) + 1
  /\ Len(seen[o][s]) \in Nat /\ Len(seen'[o][s]) = Len(seen[o][s]) + 1
  /\ \A k \in 1 .. Len(seen[o][s]) : seen'[o][s][k] = seen[o][s][k]
  /\ seen'[o][s][Len(seen[o][s]) + 1] = e

(* What hearing one more event leaves of what was heard.                   *)
LEMMA HearOneMore ==
  ASSUME TypeOK, NEW o \in 1 .. Observers, NEW s \in Sessions, NEW e \in Observed,
         seen' = [seen EXCEPT ![o][s] = Append(@, e)]
  PROVE  HeardOneMore(o, s, e)
  <1>1. seen \in [1 .. Observers -> [Sessions -> Seq(Observed)]]
    BY DEF TypeOK
  <1>2. seen[o] \in [Sessions -> Seq(Observed)] /\ seen[o][s] \in Seq(Observed)
    BY <1>1
  <1>3. Append(seen[o][s], e) \in Seq(Observed)
    BY <1>2
  <1>4. [seen[o] EXCEPT ![s] = Append(seen[o][s], e)] \in [Sessions -> Seq(Observed)]
    BY <1>2, <1>3
  <1>5. seen' = [seen EXCEPT ![o] = [seen[o] EXCEPT ![s] = Append(seen[o][s], e)]]
    BY <1>1
  <1>6. seen' \in [1 .. Observers -> [Sessions -> Seq(Observed)]]
    BY <1>1, <1>4, <1>5
  <1>7. \A p \in 1 .. Observers, r \in Sessions : p # o \/ r # s => seen'[p][r] = seen[p][r]
    BY <1>1, <1>2, <1>5
  <1>8. seen'[o][s] = Append(seen[o][s], e)
    BY <1>1, <1>2, <1>5
  <1> QED
    BY <1>2, <1>6, <1>7, <1>8 DEF HeardOneMore

---------------------------------------------------------------------------
(* Changing one entry.                                                     *)

(* The flags of an entry, with what its session's dispatches are.          *)
FlagsOk(f, c, disposed) ==
  /\ c => f.attached /\ ~f.detachRequested
  /\ f.attached => f.used /\ (c \/ f.detachRequested)
  /\ f.detachRequested => f.announcing \/ f.appending
  /\ f.announcing \/ f.appending => f.attached
  /\ f.announcing => f.announced
  /\ f.announced => f.used
  /\ disposed => f.announced /\ ~f.attached

(* The entries are typed, their flags say what is dispatched, and they    *)
(* follow the dispatches.                                                  *)
EntriesFit ==
  /\ entry' \in [Sessions -> Entry] /\ capability' \in [Sessions -> BOOLEAN]
  /\ stack' \in Seq(Dispatch)
  /\ \A r \in Sessions : /\ entry'[r].announcing = InDispatch(r, "created")'
                         /\ entry'[r].appending = InDispatch(r, "event")'
  /\ EntryFollows'

(* One entry changes, its flags with it: the entries fit.                  *)
LEMMA EntryStep ==
  ASSUME IInv, NEW s \in Sessions, NEW f \in Entry, NEW c \in BOOLEAN,
         entry' = [entry EXCEPT ![s] = f], capability' = [capability EXCEPT ![s] = c],
         Nested(stack'),
         \A r \in Sessions : \A w : r # s => (In(stack', r, w) <=> In(stack, r, w)),
         f.announcing <=> In(stack', s, "created"), f.appending <=> In(stack', s, "event"),
         FlagsOk(f, c, In(stack', s, "disposed"))
  PROVE  EntriesFit
  <1>1. entry \in [Sessions -> Entry] /\ capability \in [Sessions -> BOOLEAN]
    BY DEF IInv, TypeOK
  <1>2. entry' \in [Sessions -> Entry] /\ capability' \in [Sessions -> BOOLEAN]
    BY <1>1
  <1>3. entry'[s] = f /\ capability'[s] = c
    BY <1>1
  <1>4. \A r \in Sessions : r # s => entry'[r] = entry[r] /\ capability'[r] = capability[r]
    BY <1>1
  <1>5. \A r \in Sessions : entry'[r].announcing \in BOOLEAN /\ entry'[r].appending \in BOOLEAN
    BY <1>2 DEF Entry
  <1>6. ASSUME NEW r \in Sessions
        PROVE  /\ entry'[r].announcing = In(stack', r, "created")
               /\ entry'[r].appending = In(stack', r, "event")
    <2>1. CASE r = s
      <3>1. In(stack', r, "created") \in BOOLEAN /\ In(stack', r, "event") \in BOOLEAN
        BY DEF In
      <3> QED
        BY <2>1, <3>1, <1>3, <1>5
    <2>2. CASE r # s
      <3>1. /\ entry[r].announcing = In(stack, r, "created")
            /\ entry[r].appending = In(stack, r, "event")
        BY DEF IInv, TypeOK, InDispatch, In
      <3>2. /\ In(stack, r, "created") = In(stack', r, "created")
            /\ In(stack, r, "event") = In(stack', r, "event")
        <4>1. \A w : In(stack, r, w) \in BOOLEAN /\ In(stack', r, w) \in BOOLEAN
          BY DEF In
        <4> QED
          BY <4>1, <2>2
      <3> QED
        BY <3>1, <3>2, <1>4, <2>2
    <2> QED
      BY <2>1, <2>2
  <1>7. \A r \in Sessions : /\ entry'[r].announcing = InDispatch(r, "created")'
                            /\ entry'[r].appending = InDispatch(r, "event")'
    BY <1>6 DEF In, InDispatch
  <1>8. \A r \in Sessions : FlagsOk(entry'[r], capability'[r], In(stack', r, "disposed"))
    <2> SUFFICES ASSUME NEW r \in Sessions
                 PROVE  FlagsOk(entry'[r], capability'[r], In(stack', r, "disposed"))
      OBVIOUS
    <2>1. CASE r = s
      BY <2>1, <1>3
    <2>2. CASE r # s
      <3>1. FlagsOk(entry[r], capability[r], In(stack, r, "disposed"))
        BY DEF IInv, EntryFollows, FlagsOk
      <3> QED
        BY <3>1, <1>4, <2>2 DEF FlagsOk
    <2> QED
      BY <2>1, <2>2
  <1>9. EntryFollows'
    BY <1>8 DEF EntryFollows, FlagsOk
  <1>10. stack' \in Seq(Dispatch)
    BY DEF Nested
  <1> QED
    BY <1>2, <1>7, <1>9, <1>10 DEF EntriesFit

(* The duties to those who heard nothing new.                              *)
LEMMA OwedStep ==
  ASSUME IInv, UNCHANGED seen, NEW s \in Sessions, NEW f \in Entry,
         entry' = [entry EXCEPT ![s] = f],
         \A r \in Sessions : \A o, w : r # s => (Owes(stack', o, r, w) <=> Owes(stack, o, r, w)),
         entry[s].announced => f.announced,
         entry[s].announced /\ ~entry[s].attached => ~f.attached,
         \A o \in 1 .. Observers :
           /\ Owes(stack', o, s, "created") => Owes(stack, o, s, "created") \/ ~entry[s].announced
           /\ Owes(stack', o, s, "disposed") => Owes(stack, o, s, "disposed") \/ entry[s].attached
           /\ f.announced /\ ~f.attached =>
                \/ Owes(stack', o, s, "disposed")
                \/ /\ entry[s].announced /\ ~entry[s].attached
                   /\ ~Owes(stack, o, s, "disposed")
  PROVE  OnceIsOwed'
  <1>1. entry \in [Sessions -> Entry]
    BY DEF IInv, TypeOK
  <1>2. entry'[s] = f /\ \A r \in Sessions : r # s => entry'[r] = entry[r]
    BY <1>1
  <1> SUFFICES ASSUME NEW o \in 1 .. Observers, NEW r \in Sessions
               PROVE  /\ Hears(o, r, "created") =>
                           entry'[r].announced /\ ~Owes(stack', o, r, "created")
                      /\ Hears(o, r, "disposed") =>
                           /\ entry'[r].announced /\ ~entry'[r].attached
                           /\ ~Owes(stack', o, r, "disposed")
                      /\ entry'[r].announced /\ ~entry'[r].attached =>
                           \/ Owes(stack', o, r, "disposed")
                           \/ Contains(seen[o][r], Told("disposed", 0))
    BY DEF OnceIsOwed, Hears
  <1>3. /\ Hears(o, r, "created") => entry[r].announced /\ ~Owes(stack, o, r, "created")
        /\ Hears(o, r, "disposed") =>
             entry[r].announced /\ ~entry[r].attached /\ ~Owes(stack, o, r, "disposed")
        /\ entry[r].announced /\ ~entry[r].attached =>
             Owes(stack, o, r, "disposed") \/ Contains(seen[o][r], Told("disposed", 0))
    BY DEF IInv, OnceIsOwed
  <1>4. CASE r = s
    BY <1>2, <1>3, <1>4
  <1>5. CASE r # s
    BY <1>2, <1>3, <1>5
  <1> QED
    BY <1>4, <1>5

(* What was heard stays heard in order.                                    *)
LEMMA SameHearing ==
  ASSUME IInv, UNCHANGED <<seen, published>>
  PROVE  HeardInOrder' /\ DisposalIsLast'
  <1>1. \A o, s, k : EventsHeard(o, s, k)' = EventsHeard(o, s, k)
    BY DEF EventsHeard
  <1>2. HeardInOrder'
    BY <1>1 DEF IInv, HeardInOrder
  <1>3. DisposalIsLast'
    BY DEF IInv, DisposalIsLast
  <1> QED
    BY <1>2, <1>3

(* Nobody is told of another event.                                        *)
LEMMA SameEvents ==
  ASSUME IInv, UNCHANGED <<seen, published>>,
         \A o \in 1 .. Observers, r \in Sessions :
           Owes(stack', o, r, "event") <=> Owes(stack, o, r, "event"),
         \A r \in Sessions, n \in Nat :
           /\ Says(stack', r, "event", n) => Says(stack, r, "event", n)
           /\ Says(stack', r, "disposed", n) => Says(stack, r, "disposed", n) \/ n = 0
  PROVE  EventsAreCounted' /\ DispatchSays'
  <1>1. EventsAreCounted'
    BY DEF IInv, EventsAreCounted, EventsHeard
  <1>2. DispatchSays'
    BY DEF IInv, DispatchSays
  <1> QED
    BY <1>1, <1>2

---------------------------------------------------------------------------
(* The calls.                                                              *)

(* A session enters the store.                                             *)
LEMMA EnterStep ==
  ASSUME IInv, NEW s \in Sessions, Enter(s)
  PROVE  IInv'
  <1> DEFINE f == [entry[s] EXCEPT !.attached = TRUE, !.used = TRUE]
  <1>1. entry \in [Sessions -> Entry] /\ Nested(stack) /\ UNCHANGED <<log, stack, seen, published>>
    BY DEF IInv, TypeOK, Enter
  <1>2. entry[s] \in Entry /\ ~entry[s].used /\ ~entry[s].attached
    BY <1>1 DEF Enter
  <1>3. /\ f \in Entry /\ f.attached /\ f.used /\ f.announced = entry[s].announced
        /\ f.announcing = entry[s].announcing /\ f.appending = entry[s].appending
        /\ f.detachRequested = entry[s].detachRequested
    BY <1>2 DEF Entry
  <1>4. entry' = [entry EXCEPT ![s] = f] /\ capability' = [capability EXCEPT ![s] = TRUE]
    BY <1>1 DEF Enter
  <1> HIDE DEF f
  <1>5. /\ entry[s].announcing = In(stack, s, "created")
        /\ entry[s].appending = In(stack, s, "event")
    BY DEF IInv, TypeOK, InDispatch, In
  <1>6. /\ ~entry[s].announcing /\ ~entry[s].appending /\ ~entry[s].detachRequested
        /\ ~entry[s].announced /\ ~In(stack, s, "disposed")
    BY <1>2 DEF IInv, EntryFollows
  <1>7. FlagsOk(f, TRUE, In(stack', s, "disposed"))
    BY <1>1, <1>3, <1>6 DEF FlagsOk
  <1>8. EntriesFit
    BY <1>1, <1>3, <1>4, <1>5, <1>7, EntryStep
  <1>9. TypeOK'
    BY <1>1, <1>8 DEF IInv, TypeOK, EntriesFit
  <1>10. OnceIsOwed'
    BY <1>1, <1>3, <1>4, <1>6, <1>2, OwedStep
  <1>11. EventsAreCounted' /\ DispatchSays' /\ HeardInOrder' /\ DisposalIsLast'
    BY <1>1, SameEvents, SameHearing
  <1> QED
    BY <1>1, <1>8, <1>9, <1>10, <1>11 DEF IInv, EntriesFit

(* What a dispatch starts with.                                            *)
LEMMA StartFields ==
  ASSUME NEW s \in Sessions, NEW w \in {"created", "event", "disposed"}, NEW n \in Nat
  PROVE  LET d == Starting(w, s, n)
         IN  /\ d \in Dispatch /\ d.of = w /\ d.session = s /\ d.seq = n /\ d.called = 0
  BY Bounds DEF Starting, Dispatch

(* Whoever may call is a running observer or the outside.                  *)
LEMMA CallerRuns ==
  ASSUME MayCall, Nested(stack), stack # <<>>
  PROVE  stack[Len(stack)].called > 0
  BY DEF MayCall, Last

(* A session is announced: a dispatch of its creation begins.              *)
LEMMA AnnounceStep ==
  ASSUME IInv, NEW s \in Sessions, Announce(s)
  PROVE  IInv'
  <1> DEFINE f == [entry[s] EXCEPT !.announced = TRUE, !.announcing = TRUE]
             d == Starting("created", s, 0)
  <1>1. /\ entry \in [Sessions -> Entry] /\ capability \in [Sessions -> BOOLEAN] /\ Nested(stack)
        /\ UNCHANGED <<log, capability, seen, published>>
    BY DEF IInv, TypeOK, Announce
  <1>2. entry[s] \in Entry /\ entry[s].attached /\ ~entry[s].announced /\ MayCall
    BY <1>1 DEF Announce
  <1>3. /\ f \in Entry /\ f.announced /\ f.announcing /\ f.attached = entry[s].attached
        /\ f.used = entry[s].used /\ f.appending = entry[s].appending
        /\ f.detachRequested = entry[s].detachRequested
    BY <1>2 DEF Entry
  <1>4. /\ entry' = [entry EXCEPT ![s] = f] /\ stack' = Append(stack, d)
        /\ capability' = [capability EXCEPT ![s] = capability[s]]
    BY <1>1 DEF Announce
  <1> HIDE DEF f
  <1>5. /\ entry[s].announcing = In(stack, s, "created")
        /\ entry[s].appending = In(stack, s, "event")
    BY DEF IInv, TypeOK, InDispatch, In
  <1>6. /\ FlagsOk(entry[s], capability[s], In(stack, s, "disposed"))
        /\ ~In(stack, s, "created") /\ ~In(stack, s, "disposed")
    BY <1>2, <1>5 DEF IInv, EntryFollows, FlagsOk
  <1>7. d \in Dispatch /\ d.of = "created" /\ d.session = s /\ d.seq = 0 /\ d.called = 0
    BY StartFields
  <1>8. stack # <<>> => stack[Len(stack)].called > 0
    BY <1>1, <1>2, CallerRuns
  <1> HIDE DEF d
  <1>9. /\ Nested(stack')
        /\ \A r, w : In(stack', r, w) <=> In(stack, r, w) \/ (r = s /\ w = "created")
        /\ \A r, w, n : Says(stack', r, w, n) <=>
             Says(stack, r, w, n) \/ (r = s /\ w = "created" /\ n = 0)
        /\ \A o, r, w : Owes(stack', o, r, w) <=>
             Owes(stack, o, r, w) \/ (r = s /\ w = "created" /\ 0 < o)
    BY <1>1, <1>4, <1>6, <1>7, <1>8, PushDispatch
  <1>10. FlagsOk(f, capability[s], In(stack', s, "disposed"))
    BY <1>2, <1>3, <1>6, <1>9 DEF FlagsOk
  <1>11. /\ f.announcing <=> In(stack', s, "created")
         /\ f.appending <=> In(stack', s, "event")
    BY <1>3, <1>5, <1>9
  <1>12. EntriesFit
    <2>1. f \in Entry /\ capability[s] \in BOOLEAN
      BY <1>1, <1>3
    <2>2. \A r \in Sessions : \A w : r # s => (In(stack', r, w) <=> In(stack, r, w))
      BY <1>9
    <2> QED
      BY ONLY IInv, s \in Sessions, <2>1, <2>2, <1>4, <1>9, <1>10, <1>11, EntryStep
  <1>13. TypeOK'
    BY <1>1, <1>12 DEF IInv, TypeOK, EntriesFit
  <1>14. OnceIsOwed'
    BY <1>1, <1>2, <1>3, <1>4, <1>9, OwedStep
  <1>15. EventsAreCounted' /\ DispatchSays' /\ HeardInOrder' /\ DisposalIsLast'
    BY <1>1, <1>9, SameEvents, SameHearing
  <1> QED
    BY <1>9, <1>12, <1>13, <1>14, <1>15 DEF IInv, EntriesFit

(* An event is appended: published and dispatched if attached.             *)
LEMMA AppendStep ==
  ASSUME IInv, NEW s \in Sessions, AppendEvent(s)
  PROVE  IInv'
  <1> DEFINE f == [entry[s] EXCEPT !.appending = TRUE]
             e == Told("event", log[s])
             d == Starting("event", s, log[s])
  <1>1. /\ entry \in [Sessions -> Entry] /\ capability \in [Sessions -> BOOLEAN] /\ Nested(stack)
        /\ log \in [Sessions -> 0 .. MaxEvents] /\ published \in [Sessions -> Seq(Observed)]
        /\ UNCHANGED <<capability, seen>> /\ log' = [log EXCEPT ![s] = @ + 1]
        /\ MayCall /\ log[s] < MaxEvents /\ ~entry[s].appending
    BY DEF IInv, TypeOK, AppendEvent, MayAppend
  <1>2. log' \in [Sessions -> 0 .. MaxEvents] /\ log[s] \in Nat
    <2>1. MaxEvents \in Nat /\ log[s] \in 0 .. MaxEvents
      BY <1>1, Bounds
    <2>2. log[s] + 1 \in 0 .. MaxEvents
      BY <1>1, <2>1
    <2> QED
      BY <1>1, <2>1, <2>2
  <1>3. CASE ~entry[s].attached
    <2>1. UNCHANGED <<entry, stack, published>>
      BY <1>3 DEF AppendEvent
    <2>2. TypeOK'
      BY <1>1, <1>2, <2>1 DEF IInv, TypeOK, InDispatch
    <2>3. EntryFollows' /\ DispatchSays' /\ EventsAreCounted' /\ OnceIsOwed'
      BY <1>1, <2>1 DEF IInv, EntryFollows, DispatchSays, EventsAreCounted, OnceIsOwed,
                        EventsHeard, Hears
    <2> QED
      BY <1>1, <2>1, <2>2, <2>3, SameHearing DEF IInv
  <1>4. CASE entry[s].attached
    <2>1. entry[s] \in Entry
      BY <1>1
    <2>2. /\ f \in Entry /\ f.appending /\ f.attached = entry[s].attached
          /\ f.used = entry[s].used /\ f.announcing = entry[s].announcing
          /\ f.detachRequested = entry[s].detachRequested /\ f.announced = entry[s].announced
      BY <2>1 DEF Entry
    <2>3. /\ entry' = [entry EXCEPT ![s] = f] /\ stack' = Append(stack, d)
          /\ capability' = [capability EXCEPT ![s] = capability[s]]
          /\ published' = [published EXCEPT ![s] = Append(@, e)]
      BY <1>1, <1>4 DEF AppendEvent
    <2> HIDE DEF f
    <2>4. /\ entry[s].announcing = In(stack, s, "created")
          /\ entry[s].appending = In(stack, s, "event")
      BY DEF IInv, TypeOK, InDispatch, In
    <2>5. /\ FlagsOk(entry[s], capability[s], In(stack, s, "disposed"))
          /\ ~In(stack, s, "event") /\ ~In(stack, s, "disposed")
      BY <1>1, <1>4, <2>4 DEF IInv, EntryFollows, FlagsOk
    <2>6. d \in Dispatch /\ d.of = "event" /\ d.session = s /\ d.seq = log[s] /\ d.called = 0
      BY <1>2, StartFields
    <2>7. stack # <<>> => stack[Len(stack)].called > 0
      BY <1>1, CallerRuns
    <2> HIDE DEF d
    <2>8. /\ Nested(stack')
          /\ \A r, w : In(stack', r, w) <=> In(stack, r, w) \/ (r = s /\ w = "event")
          /\ \A r, w, n : Says(stack', r, w, n) <=>
               Says(stack, r, w, n) \/ (r = s /\ w = "event" /\ n = log[s])
          /\ \A o, r, w : Owes(stack', o, r, w) <=>
               Owes(stack, o, r, w) \/ (r = s /\ w = "event" /\ 0 < o)
      BY <1>1, <2>3, <2>5, <2>6, <2>7, PushDispatch
    <2>9. FlagsOk(f, capability[s], In(stack', s, "disposed"))
      BY <1>4, <2>2, <2>5, <2>8 DEF FlagsOk
    <2>10. /\ f.announcing <=> In(stack', s, "created")
           /\ f.appending <=> In(stack', s, "event")
      BY <2>2, <2>4, <2>8
    <2>11. EntriesFit
      <3>1. f \in Entry /\ capability[s] \in BOOLEAN
        BY <1>1, <2>2
      <3>2. \A r \in Sessions : \A w : r # s => (In(stack', r, w) <=> In(stack, r, w))
        BY <2>8
      <3> QED
        BY ONLY IInv, s \in Sessions, <3>1, <3>2, <2>3, <2>8, <2>9, <2>10, EntryStep
    <2>12. /\ e \in Observed /\ published[s] \in Seq(Observed)
           /\ published'[s] = Append(published[s], e)
           /\ \A r \in Sessions : r # s => published'[r] = published[r]
           /\ published' \in [Sessions -> Seq(Observed)]
      <3>1. e \in Observed /\ published[s] \in Seq(Observed)
        BY <1>1, <1>2 DEF Observed, Told
      <3>2. Append(published[s], e) \in Seq(Observed)
        BY <3>1
      <3> QED
        BY <1>1, <2>3, <3>1, <3>2
    <2> HIDE DEF e
    <2>13. /\ Len(published[s]) \in Nat /\ Len(published'[s]) = Len(published[s]) + 1
           /\ published'[s][Len(published'[s])] = e /\ published'[s] # <<>>
           /\ DOMAIN published[s] \subseteq DOMAIN published'[s]
           /\ \A n \in DOMAIN published[s] : published'[s][n] = published[s][n]
      BY <2>12
    <2>14. TypeOK'
      BY <1>1, <1>2, <2>11, <2>12 DEF IInv, TypeOK, EntriesFit
    <2>15. OnceIsOwed'
      <3>1. /\ \A r \in Sessions : \A o, w : r # s => (Owes(stack', o, r, w) <=> Owes(stack, o, r, w))
            /\ \A o : /\ Owes(stack', o, s, "created") <=> Owes(stack, o, s, "created")
                     /\ Owes(stack', o, s, "disposed") <=> Owes(stack, o, s, "disposed")
        BY <2>8
      <3>2. UNCHANGED seen /\ f.attached
        BY <1>1, <1>4, <2>2
      <3>3. /\ IInv /\ s \in Sessions /\ f \in Entry /\ entry' = [entry EXCEPT ![s] = f]
            /\ entry[s].announced => f.announced
            /\ entry[s].announced /\ ~entry[s].attached => ~f.attached
        BY <1>4, <2>2, <2>3
      <3>4. \A o \in 1 .. Observers :
              /\ Owes(stack', o, s, "created") => Owes(stack, o, s, "created") \/ ~entry[s].announced
              /\ Owes(stack', o, s, "disposed") => Owes(stack, o, s, "disposed") \/ entry[s].attached
              /\ f.announced /\ ~f.attached =>
                   \/ Owes(stack', o, s, "disposed")
                   \/ /\ entry[s].announced /\ ~entry[s].attached
                      /\ ~Owes(stack, o, s, "disposed")
        <4> SUFFICES ASSUME NEW o \in 1 .. Observers
                     PROVE  /\ Owes(stack', o, s, "created") => Owes(stack, o, s, "created")
                            /\ Owes(stack', o, s, "disposed") => Owes(stack, o, s, "disposed")
          BY <3>2
        <4> QED
          BY <2>8
      <3> QED
        BY ONLY <3>1, <3>2, <3>3, <3>4, OwedStep
    <2>16. DispatchSays'
      <3>1. ASSUME NEW r \in Sessions, NEW n \in Nat, Says(stack', r, "event", n)
            PROVE  /\ published'[r] # <<>>
                   /\ published'[r][Len(published'[r])] = Told("event", n)
        <4>1. CASE r = s
          <5>1. ~Says(stack, s, "event", n)
            BY <2>5 DEF Says, In
          <5>2. n = log[s]
            BY <3>1, <4>1, <5>1, <2>8
          <5> QED
            BY <5>2, <4>1, <2>13 DEF e
        <4>2. CASE r # s
          BY <3>1, <4>2, <2>8, <2>12 DEF IInv, DispatchSays
        <4> QED
          BY <4>1, <4>2
      <3>2. \A r \in Sessions, n \in Nat : Says(stack', r, "disposed", n) => n = 0
        BY <2>8 DEF IInv, DispatchSays
      <3> QED
        BY <3>1, <3>2 DEF DispatchSays
    <2>17. EventsAreCounted'
      <3> SUFFICES ASSUME NEW o \in 1 .. Observers, NEW r \in Sessions
                   PROVE  EventsHeard(o, r, Len(seen[o][r]))
                            + (IF Owes(stack', o, r, "event") THEN 1 ELSE 0)
                              = Len(published'[r])
        BY <1>1 DEF EventsAreCounted, EventsHeard
      <3>1. EventsHeard(o, r, Len(seen[o][r])) + (IF Owes(stack, o, r, "event") THEN 1 ELSE 0)
              = Len(published[r])
        BY DEF IInv, EventsAreCounted
      <3>2. CASE r = s
        <4>1. ~Owes(stack, o, s, "event") /\ Owes(stack', o, s, "event")
          <5>1. 0 < o
            BY Bounds
          <5> QED
            BY <5>1, <2>5, <2>8 DEF Owes, In
        <4>2. EventsHeard(o, s, Len(seen[o][s])) + 0 = Len(published[s])
          BY <3>1, <3>2, <4>1
        <4>3. EventsHeard(o, s, Len(seen[o][s])) \in Nat
          <5>1. seen[o][s] \in Seq(Observed)
            BY DEF IInv, TypeOK
          <5>2. EventsIn(seen[o][s], Len(seen[o][s])) \in Nat
            BY <5>1, <2>12, CountFacts
          <5> QED
            BY <5>2 DEF EventsHeard, EventsIn
        <4>4. EventsHeard(o, s, Len(seen[o][s])) + 1 = Len(published'[s])
          BY <4>2, <4>3, <2>13
        <4> QED
          BY <4>1, <4>4, <3>2
      <3>3. CASE r # s
        <4>1. Owes(stack', o, r, "event") <=> Owes(stack, o, r, "event")
          BY <3>3, <2>8
        <4> QED
          BY <3>1, <3>3, <4>1, <2>12
      <3> QED
        BY <3>2, <3>3
    <2>18. HeardInOrder'
      <3> SUFFICES ASSUME NEW o \in 1 .. Observers, NEW r \in Sessions, NEW k \in DOMAIN seen[o][r],
                          seen[o][r][k].of = "event"
                   PROVE  /\ EventsHeard(o, r, k) \in DOMAIN published'[r]
                          /\ seen[o][r][k] = published'[r][EventsHeard(o, r, k)]
        <4>1. \A o, r, k : EventsHeard(o, r, k)' = EventsHeard(o, r, k)
          BY <1>1 DEF EventsHeard
        <4> QED
          BY <4>1, <1>1 DEF HeardInOrder
      <3>1. /\ EventsHeard(o, r, k) \in DOMAIN published[r]
            /\ seen[o][r][k] = published[r][EventsHeard(o, r, k)]
        BY DEF IInv, HeardInOrder
      <3> QED
        BY <3>1, <2>12, <2>13
    <2>19. DisposalIsLast'
      BY <1>1 DEF IInv, DisposalIsLast
    <2> QED
      BY <2>8, <2>11, <2>14, <2>15, <2>16, <2>17, <2>18, <2>19 DEF IInv, EntriesFit
  <1> QED
    BY <1>3, <1>4

(* A session that goes: its entry, and the dispatch of its disposal.       *)
LEMMA Detached ==
  ASSUME NEW s \in Sessions, NEW e \in Entry, NEW st, Nested(st), ~In(st, s, "disposed"),
         st # <<>> => st[Len(st)].called > 0, DetachEntered(s, e, st)
  PROVE  /\ Nested(stack')
         /\ \A r, w : In(stack', r, w) <=>
              In(st, r, w) \/ (e.announced /\ r = s /\ w = "disposed")
         /\ \A r, w, n : Says(stack', r, w, n) <=>
              Says(st, r, w, n) \/ (e.announced /\ r = s /\ w = "disposed" /\ n = 0)
         /\ \A o, r, w : Owes(stack', o, r, w) <=>
              Owes(st, o, r, w) \/ (e.announced /\ r = s /\ w = "disposed" /\ 0 < o)
  <1> DEFINE d == Starting("disposed", s, 0)
  <1>1. d \in Dispatch /\ d.of = "disposed" /\ d.session = s /\ d.seq = 0 /\ d.called = 0
    BY StartFields
  <1>2. stack' = IF e.announced THEN Append(st, d) ELSE st
    BY DEF DetachEntered
  <1> HIDE DEF d
  <1>3. CASE e.announced
    <2>1. stack' = Append(st, d)
      BY <1>2, <1>3
    <2>2. /\ Nested(stack')
          /\ \A r, w : In(stack', r, w) <=> In(st, r, w) \/ (r = s /\ w = "disposed")
          /\ \A r, w, n : Says(stack', r, w, n) <=>
               Says(st, r, w, n) \/ (r = s /\ w = "disposed" /\ n = 0)
          /\ \A o, r, w : Owes(stack', o, r, w) <=>
               Owes(st, o, r, w) \/ (r = s /\ w = "disposed" /\ 0 < o)
      BY <2>1, <1>1, PushDispatch
    <2> QED
      BY <2>2, <1>3
  <1>4. CASE ~e.announced
    <2>1. stack' = st
      BY <1>2, <1>4
    <2> QED
      BY <2>1, <1>4
  <1> QED
    BY <1>3, <1>4

Gone(e) == [e EXCEPT !.attached = FALSE, !.detachRequested = FALSE]

(* What detachEntered() changes of an entry.                               *)
LEMMA DetachedFields ==
  ASSUME NEW s \in Sessions, NEW e \in Entry, NEW st, DetachEntered(s, e, st)
  PROVE  /\ entry' = [entry EXCEPT ![s] = Gone(e)]
         /\ Gone(e) \in Entry /\ ~Gone(e).attached /\ ~Gone(e).detachRequested
         /\ Gone(e).announced = e.announced /\ Gone(e).announcing = e.announcing
         /\ Gone(e).appending = e.appending /\ Gone(e).used = e.used
  BY DEF DetachEntered, Entry, Gone

(* A disposer is used: the session goes now, or when unlocked.             *)
LEMMA DetachStep ==
  ASSUME IInv, NEW s \in Sessions, Detach(s)
  PROVE  IInv'
  <1>1. /\ entry \in [Sessions -> Entry] /\ capability \in [Sessions -> BOOLEAN] /\ Nested(stack)
        /\ UNCHANGED <<log, seen, published>> /\ MayCall /\ capability[s]
        /\ capability' = [capability EXCEPT ![s] = FALSE] /\ entry[s] \in Entry
    BY DEF IInv, TypeOK, Detach
  <1>2. /\ entry[s].announcing = In(stack, s, "created")
        /\ entry[s].appending = In(stack, s, "event")
    BY DEF IInv, TypeOK, InDispatch, In
  <1>3. /\ FlagsOk(entry[s], capability[s], In(stack, s, "disposed"))
        /\ entry[s].attached /\ ~In(stack, s, "disposed")
    BY <1>1 DEF IInv, EntryFollows, FlagsOk
  <1>4. CASE MustWait(s)
    <2> DEFINE f == [entry[s] EXCEPT !.detachRequested = TRUE]
    <2>1. /\ f \in Entry /\ f.detachRequested /\ f.attached = entry[s].attached
          /\ f.used = entry[s].used /\ f.appending = entry[s].appending
          /\ f.announcing = entry[s].announcing /\ f.announced = entry[s].announced
      BY <1>1 DEF Entry
    <2>2. entry' = [entry EXCEPT ![s] = f] /\ UNCHANGED stack
      BY <1>1, <1>4 DEF Detach
    <2> HIDE DEF f
    <2>3. FlagsOk(f, FALSE, In(stack', s, "disposed"))
      BY <1>3, <1>4, <2>1, <2>2 DEF FlagsOk, MustWait
    <2>4. EntriesFit
      BY <1>1, <1>2, <2>1, <2>2, <2>3, EntryStep
    <2>5. TypeOK'
      BY <1>1, <2>4 DEF IInv, TypeOK, EntriesFit
    <2>6. OnceIsOwed'
      BY <1>1, <1>3, <2>1, <2>2, OwedStep
    <2>7. EventsAreCounted' /\ DispatchSays' /\ HeardInOrder' /\ DisposalIsLast'
      BY <1>1, <2>2, SameEvents, SameHearing
    <2> QED
      BY <1>1, <2>2, <2>4, <2>5, <2>6, <2>7 DEF IInv, EntriesFit
  <1>5. CASE ~MustWait(s)
    <2>1. DetachEntered(s, entry[s], stack)
      BY <1>5 DEF Detach
    <2>2. stack # <<>> => stack[Len(stack)].called > 0
      BY <1>1, CallerRuns
    <2> DEFINE f == Gone(entry[s])
    <2>20. /\ Nested(stack')
           /\ \A r, w : In(stack', r, w) <=>
                In(stack, r, w) \/ (entry[s].announced /\ r = s /\ w = "disposed")
           /\ \A r, w, n : Says(stack', r, w, n) <=>
                Says(stack, r, w, n) \/ (entry[s].announced /\ r = s /\ w = "disposed" /\ n = 0)
           /\ \A o, r, w : Owes(stack', o, r, w) <=>
                Owes(stack, o, r, w) \/ (entry[s].announced /\ r = s /\ w = "disposed" /\ 0 < o)
      BY <1>1, <1>3, <2>1, <2>2, Detached
    <2>21. /\ entry' = [entry EXCEPT ![s] = f]
           /\ f \in Entry /\ ~f.attached /\ ~f.detachRequested
           /\ f.announced = entry[s].announced /\ f.announcing = entry[s].announcing
           /\ f.appending = entry[s].appending /\ f.used = entry[s].used
      BY <1>1, <2>1, DetachedFields
    <2> HIDE DEF f
    <2>4. FlagsOk(f, FALSE, In(stack', s, "disposed"))
      BY <1>3, <1>5, <2>20, <2>21 DEF FlagsOk, MustWait
    <2>5. /\ f.announcing <=> In(stack', s, "created")
          /\ f.appending <=> In(stack', s, "event")
      BY <1>2, <2>20, <2>21
    <2>6. EntriesFit
      BY <1>1, <2>20, <2>21, <2>4, <2>5, EntryStep
    <2>7. TypeOK'
      BY <1>1, <2>6 DEF IInv, TypeOK, EntriesFit
    <2>8. OnceIsOwed'
      <3>1. \A o \in 1 .. Observers : 0 < o
        BY Bounds
      <3>2. /\ \A r \in Sessions : \A o, w : r # s => (Owes(stack', o, r, w) <=> Owes(stack, o, r, w))
            /\ \A o : Owes(stack', o, s, "created") <=> Owes(stack, o, s, "created")
            /\ \A o \in 1 .. Observers : Owes(stack', o, s, "disposed") <=>
                 Owes(stack, o, s, "disposed") \/ f.announced
        BY <3>1, <2>20, <2>21
      <3>3. UNCHANGED seen /\ IInv /\ s \in Sessions
        BY <1>1
      <3>4. /\ f \in Entry /\ entry' = [entry EXCEPT ![s] = f]
            /\ ~f.attached /\ f.announced = entry[s].announced
        BY <2>21
      <3> QED
        BY ONLY <3>2, <3>3, <3>4, <1>3, OwedStep
    <2>9. EventsAreCounted' /\ DispatchSays' /\ HeardInOrder' /\ DisposalIsLast'
      BY <1>1, <2>20, <2>21, SameEvents, SameHearing
    <2> QED
      BY <2>20, <2>21, <2>6, <2>7, <2>8, <2>9 DEF IInv, EntriesFit
  <1> QED
    BY <1>4, <1>5

---------------------------------------------------------------------------
(* The dispatches.                                                         *)

(* The end of a dispatch of an event or a creation: what happens to the    *)
(* entry is the same for one that returns and one that is vetoed.          *)
LEMMA FinallyStep ==
  ASSUME IInv, stack # <<>>, NEW w \in {"created", "event"},
         NEW s \in Sessions, Last(stack).of = w, Last(stack).session = s,
         w = "event" => Last(stack).called = Observers,
         NEW e \in Entry, NEW c \in BOOLEAN, Finally(s, e),
         capability' = [capability EXCEPT ![s] = c], UNCHANGED <<log, seen, published>>,
         e.attached = entry[s].attached, e.used = entry[s].used,
         e.announced = entry[s].announced,
         e.announcing = IF w = "created" THEN FALSE ELSE entry[s].announcing,
         e.appending = IF w = "event" THEN FALSE ELSE entry[s].appending,
         c => ~e.detachRequested, c \/ e.detachRequested
  PROVE  IInv'
  <1> DEFINE st == Front(stack)
  <1>1. Nested(stack) /\ entry \in [Sessions -> Entry] /\ capability \in [Sessions -> BOOLEAN]
    BY DEF IInv, TypeOK
  <1>2. /\ Len(stack) \in DOMAIN stack /\ stack[Len(stack)] \in Dispatch
        /\ Last(stack) = stack[Len(stack)]
        /\ Nested(st)
        /\ st # <<>> => st[Len(st)].called > 0
        /\ \A r, v : In(st, r, v) <=> In(stack, r, v) /\ ~(r = s /\ v = w)
        /\ \A r, v, n : Says(st, r, v, n) <=> Says(stack, r, v, n) /\ ~(r = s /\ v = w)
        /\ \A o, r, v : Owes(st, o, r, v) <=> Owes(stack, o, r, v) /\ ~(r = s /\ v = w)
    BY <1>1, PopDispatch
  <1> HIDE DEF st
  <1>3. In(stack, s, w)
    BY <1>2 DEF In
  <1>4. /\ entry[s].announcing = In(stack, s, "created")
        /\ entry[s].appending = In(stack, s, "event")
    BY DEF IInv, TypeOK, InDispatch, In
  <1>5. /\ FlagsOk(entry[s], capability[s], In(stack, s, "disposed"))
        /\ entry[s].attached /\ ~In(stack, s, "disposed") /\ entry[s].used
    BY <1>3, <1>4 DEF IInv, EntryFollows, FlagsOk
  <1>6. /\ e.announcing <=> In(st, s, "created")
        /\ e.appending <=> In(st, s, "event")
    <2>1. CASE w = "created"
      BY <2>1, <1>2, <1>3, <1>4
    <2>2. CASE w = "event"
      BY <2>2, <1>2, <1>3, <1>4
    <2> QED
      BY <2>1, <2>2
  <1>7. e.attached /\ e.used /\ (e.announcing => e.announced)
    BY <1>5 DEF FlagsOk
  <1>8. ~In(st, s, "disposed")
    BY <1>2, <1>5
  <1>9. \A o \in 1 .. Observers, r \in Sessions :
          Owes(st, o, r, "event") <=> Owes(stack, o, r, "event")
    <2> SUFFICES ASSUME NEW o \in 1 .. Observers, w = "event"
                 PROVE  ~Owes(stack, o, s, "event")
      BY <1>2
    <2>1. \A k \in DOMAIN stack : stack[k].session = s /\ stack[k].of = w => k = Len(stack)
      BY <1>1, <1>2 DEF Nested
    <2>2. ~(Observers < o)
      BY Bounds
    <2> QED
      BY <2>1, <2>2, <1>2 DEF Owes
  <1>10. CASE e.detachRequested /\ ~e.announcing /\ ~e.appending
    <2> DEFINE f == Gone(e)
    <2>1. DetachEntered(s, e, st)
      BY <1>10 DEF Finally, st
    <2>20. /\ Nested(stack')
           /\ \A r, v : In(stack', r, v) <=>
                In(st, r, v) \/ (e.announced /\ r = s /\ v = "disposed")
           /\ \A r, v, n : Says(stack', r, v, n) <=>
                Says(st, r, v, n) \/ (e.announced /\ r = s /\ v = "disposed" /\ n = 0)
           /\ \A o, r, v : Owes(stack', o, r, v) <=>
                Owes(st, o, r, v) \/ (e.announced /\ r = s /\ v = "disposed" /\ 0 < o)
      BY <1>2, <1>8, <2>1, Detached
    <2>21. /\ entry' = [entry EXCEPT ![s] = f]
           /\ f \in Entry /\ ~f.attached /\ ~f.detachRequested
           /\ f.announced = e.announced /\ f.announcing = e.announcing
           /\ f.appending = e.appending /\ f.used = e.used
      BY <2>1, DetachedFields
    <2> HIDE DEF f
    <2>3. ~c
      BY <1>10
    <2>4. FlagsOk(f, c, In(stack', s, "disposed"))
      BY <1>7, <1>8, <1>10, <2>20, <2>21, <2>3 DEF FlagsOk
    <2>5. /\ f.announcing <=> In(stack', s, "created")
          /\ f.appending <=> In(stack', s, "event")
      BY <1>6, <2>20, <2>21
    <2>6. \A r \in Sessions : \A v : r # s => (In(stack', r, v) <=> In(stack, r, v))
      BY <1>2, <2>20, <2>21
    <2>7. EntriesFit
      BY ONLY IInv, s \in Sessions, c \in BOOLEAN, capability' = [capability EXCEPT ![s] = c],
              <2>20, <2>21, <2>4, <2>5, <2>6, EntryStep
    <2>8. TypeOK'
      BY <2>7 DEF IInv, TypeOK, EntriesFit
    <2>9. OnceIsOwed'
      <3>1. \A o \in 1 .. Observers : 0 < o
        BY Bounds
      <3>2. /\ \A r \in Sessions : \A o, v : r # s => (Owes(stack', o, r, v) <=> Owes(stack, o, r, v))
            /\ \A o : Owes(stack', o, s, "created") => Owes(stack, o, s, "created")
            /\ \A o \in 1 .. Observers : f.announced => Owes(stack', o, s, "disposed")
        BY <1>2, <3>1, <2>20, <2>21
      <3> QED
        BY <3>2, <1>5, <2>20, <2>21, OwedStep
    <2>10. /\ \A o \in 1 .. Observers, r \in Sessions :
                Owes(stack', o, r, "event") <=> Owes(stack, o, r, "event")
           /\ \A r \in Sessions, n \in Nat :
                /\ Says(stack', r, "event", n) => Says(stack, r, "event", n)
                /\ Says(stack', r, "disposed", n) => Says(stack, r, "disposed", n) \/ n = 0
      BY <1>2, <1>9, <2>20, <2>21
    <2>11. EventsAreCounted' /\ DispatchSays' /\ HeardInOrder' /\ DisposalIsLast'
      BY <2>10, SameEvents, SameHearing
    <2> QED
      BY <2>20, <2>21, <2>7, <2>8, <2>9, <2>11 DEF IInv, EntriesFit
  <1>11. CASE ~(e.detachRequested /\ ~e.announcing /\ ~e.appending)
    <2>1. entry' = [entry EXCEPT ![s] = e] /\ stack' = st
      BY <1>11 DEF Finally, st
    <2>2. FlagsOk(e, c, In(stack', s, "disposed"))
      BY <1>7, <1>8, <1>11, <2>1 DEF FlagsOk
    <2>3. \A r \in Sessions : \A v : r # s => (In(stack', r, v) <=> In(stack, r, v))
      BY <1>2, <2>1
    <2>4. EntriesFit
      BY ONLY IInv, s \in Sessions, c \in BOOLEAN, capability' = [capability EXCEPT ![s] = c],
              e \in Entry, <1>2, <1>6, <2>1, <2>2, <2>3, EntryStep
    <2>5. TypeOK'
      BY <2>4 DEF IInv, TypeOK, EntriesFit
    <2>6. OnceIsOwed'
      <3>1. /\ \A r \in Sessions : \A o, v : r # s => (Owes(stack', o, r, v) <=> Owes(stack, o, r, v))
            /\ \A o : Owes(stack', o, s, "created") => Owes(stack, o, s, "created")
            /\ \A o : Owes(stack', o, s, "disposed") => Owes(stack, o, s, "disposed")
        BY <1>2, <2>1
      <3> QED
        BY <3>1, <1>5, <1>7, <2>1, OwedStep
    <2>7. /\ \A o \in 1 .. Observers, r \in Sessions :
               Owes(stack', o, r, "event") <=> Owes(stack, o, r, "event")
          /\ \A r \in Sessions, n \in Nat :
               /\ Says(stack', r, "event", n) => Says(stack, r, "event", n)
               /\ Says(stack', r, "disposed", n) => Says(stack, r, "disposed", n) \/ n = 0
      BY <1>2, <1>9, <2>1
    <2>8. EventsAreCounted' /\ DispatchSays' /\ HeardInOrder' /\ DisposalIsLast'
      BY <2>7, SameEvents, SameHearing
    <2> QED
      BY <1>2, <2>1, <2>4, <2>5, <2>6, <2>8 DEF IInv, EntriesFit
  <1> QED
    BY <1>10, <1>11

(* What is known of the dispatch that ends: its session is attached, and   *)
(* somebody holds its disposer or has used it.                             *)
LEMMA EndingFacts ==
  ASSUME IInv, stack # <<>>
  PROVE  LET s == Last(stack).session
             w == Last(stack).of
         IN  /\ Last(stack) \in Dispatch /\ s \in Sessions /\ w \in {"created", "event", "disposed"}
             /\ entry[s] \in Entry /\ capability[s] \in BOOLEAN
             /\ Last(stack) = stack[Len(stack)] /\ Len(stack) \in DOMAIN stack
             /\ In(stack, s, w)
             /\ w # "disposed" => /\ entry[s].attached
                                  /\ capability[s] \/ entry[s].detachRequested
                                  /\ capability[s] => ~entry[s].detachRequested
  <1> DEFINE d == Last(stack)
  <1>1. /\ Nested(stack) /\ entry \in [Sessions -> Entry] /\ capability \in [Sessions -> BOOLEAN]
    BY DEF IInv, TypeOK
  <1>2. /\ Len(stack) \in DOMAIN stack /\ stack[Len(stack)] \in Dispatch /\ d = stack[Len(stack)]
    BY <1>1, PopDispatch
  <1> HIDE DEF d
  <1>3. d \in Dispatch /\ d.session \in Sessions /\ d.of \in {"created", "event", "disposed"}
    BY <1>2 DEF Dispatch
  <1>4. In(stack, d.session, d.of)
    BY <1>2 DEF In
  <1>5. /\ entry[d.session].announcing = In(stack, d.session, "created")
        /\ entry[d.session].appending = In(stack, d.session, "event")
    BY <1>3 DEF IInv, TypeOK, InDispatch, In
  <1>6. d.of # "disposed" => entry[d.session].announcing \/ entry[d.session].appending
    BY <1>3, <1>4, <1>5
  <1>7. /\ d.of # "disposed" => entry[d.session].attached
        /\ entry[d.session].attached => capability[d.session] \/ entry[d.session].detachRequested
        /\ capability[d.session] => ~entry[d.session].detachRequested
    BY <1>3, <1>6 DEF IInv, EntryFollows
  <1> QED
    BY <1>1, <1>2, <1>3, <1>4, <1>7 DEF d

(* A dispatch returns, with all its observers called.                      *)
LEMMA FinishStep ==
  ASSUME IInv, Finish
  PROVE  IInv'
  <1>1. PICK d : d = Last(stack)
    OBVIOUS
  <1>2. PICK s : s = d.session
    OBVIOUS
  <1>3. /\ stack # <<>> /\ d.called = Observers /\ UNCHANGED <<log, capability, seen, published>>
    BY <1>1 DEF Finish
  <1>4. /\ d \in Dispatch /\ s \in Sessions /\ d.of \in {"created", "event", "disposed"}
        /\ entry[s] \in Entry /\ capability[s] \in BOOLEAN
        /\ d = stack[Len(stack)] /\ Len(stack) \in DOMAIN stack
        /\ In(stack, s, d.of)
        /\ d.of # "disposed" => /\ entry[s].attached
                                /\ capability[s] \/ entry[s].detachRequested
                                /\ capability[s] => ~entry[s].detachRequested
    BY <1>1, <1>2, <1>3, EndingFacts
  <1>5. capability' = [capability EXCEPT ![s] = capability[s]]
    BY <1>3, <1>4 DEF IInv, TypeOK
  <1>6. CASE d.of = "event"
    <2>1. PICK e : e = [entry[s] EXCEPT !.appending = FALSE]
      OBVIOUS
    <2>2. /\ e \in Entry /\ e.attached = entry[s].attached /\ e.used = entry[s].used
          /\ e.announced = entry[s].announced /\ e.announcing = entry[s].announcing
          /\ e.appending = FALSE /\ e.detachRequested = entry[s].detachRequested
      BY <2>1, <1>4 DEF Entry
    <2>3. Finally(s, e)
      BY <2>1, <1>1, <1>2, <1>6 DEF Finish
    <2> QED
      BY <1>1, <1>2, <1>3, <1>4, <1>5, <1>6, <2>2, <2>3, FinallyStep
  <1>7. CASE d.of = "created"
    <2>1. PICK e : e = [entry[s] EXCEPT !.announcing = FALSE]
      OBVIOUS
    <2>2. /\ e \in Entry /\ e.attached = entry[s].attached /\ e.used = entry[s].used
          /\ e.announced = entry[s].announced /\ e.appending = entry[s].appending
          /\ e.announcing = FALSE /\ e.detachRequested = entry[s].detachRequested
      BY <2>1, <1>4 DEF Entry
    <2>3. Finally(s, e)
      BY <2>1, <1>1, <1>2, <1>7 DEF Finish
    <2> QED
      BY <1>1, <1>2, <1>3, <1>4, <1>5, <1>7, <2>2, <2>3, FinallyStep
  <1>8. CASE d.of = "disposed"
    <2>1. stack' = Front(stack) /\ UNCHANGED entry
      BY <1>1, <1>8 DEF Finish
    <2>2. Nested(stack) /\ entry \in [Sessions -> Entry]
      BY DEF IInv, TypeOK
    <2>3. /\ Nested(stack')
          /\ \A r, w : In(stack', r, w) <=> In(stack, r, w) /\ ~(r = s /\ w = "disposed")
          /\ \A r, w, n : Says(stack', r, w, n) <=>
               Says(stack, r, w, n) /\ ~(r = s /\ w = "disposed")
          /\ \A o, r, w : Owes(stack', o, r, w) <=>
               Owes(stack, o, r, w) /\ ~(r = s /\ w = "disposed")
      BY <1>1, <1>2, <1>3, <1>8, <2>1, <2>2, PopDispatch
    <2>4. \A o \in 1 .. Observers : ~Owes(stack, o, s, "disposed")
      <3>1. \A k \in DOMAIN stack : stack[k].session = s /\ stack[k].of = "disposed" => k = Len(stack)
        BY <1>2, <1>4, <1>8, <2>2 DEF Nested
      <3>2. \A o \in 1 .. Observers : ~(Observers < o)
        BY Bounds
      <3> QED
        BY <3>1, <3>2, <1>3, <1>4 DEF Owes
    <2>5. entry' = [entry EXCEPT ![s] = entry[s]]
      BY <2>1, <2>2
    <2>6. FlagsOk(entry[s], capability[s], In(stack', s, "disposed"))
      BY <1>4, <2>3 DEF IInv, EntryFollows, FlagsOk
    <2>7. /\ entry[s].announcing <=> In(stack', s, "created")
          /\ entry[s].appending <=> In(stack', s, "event")
      <3>1. /\ entry[s].announcing = In(stack, s, "created")
            /\ entry[s].appending = In(stack, s, "event")
        BY <1>4 DEF IInv, TypeOK, InDispatch, In
      <3> QED
        BY <3>1, <2>3
    <2>8. \A r \in Sessions : \A w : r # s => (In(stack', r, w) <=> In(stack, r, w))
      BY <2>3
    <2>9. EntriesFit
      BY <1>4, <1>5, <2>3, <2>5, <2>6, <2>7, <2>8, EntryStep
    <2>10. TypeOK'
      BY <1>3, <2>9 DEF IInv, TypeOK, EntriesFit
    <2>11. OnceIsOwed'
      <3>1. /\ \A r \in Sessions : \A o, w : r # s => (Owes(stack', o, r, w) <=> Owes(stack, o, r, w))
            /\ \A o : Owes(stack', o, s, "created") => Owes(stack, o, s, "created")
            /\ \A o : ~Owes(stack', o, s, "disposed")
        BY <2>3
      <3>2. entry[s].announced /\ ~entry[s].attached
        BY <1>4, <1>8 DEF IInv, EntryFollows
      <3>3. UNCHANGED seen
        BY <1>3
      <3> QED
        BY <3>1, <3>2, <3>3, <1>4, <2>4, <2>5, OwedStep
    <2>12. EventsAreCounted' /\ DispatchSays' /\ HeardInOrder' /\ DisposalIsLast'
      BY <1>3, <2>3, SameEvents, SameHearing
    <2> QED
      BY <2>3, <2>9, <2>10, <2>11, <2>12 DEF IInv, EntriesFit
  <1> QED
    BY <1>4, <1>6, <1>7, <1>8

(* An observer vetoes the creation of a session.                           *)
LEMMA VetoStep ==
  ASSUME IInv, Veto
  PROVE  IInv'
  <1>1. PICK d : d = Last(stack)
    OBVIOUS
  <1>2. PICK s : s = d.session
    OBVIOUS
  <1>3. stack # <<>> /\ d.of = "created" /\ UNCHANGED <<log, seen, published>>
    BY <1>1 DEF Veto
  <1>4. /\ s \in Sessions /\ entry[s] \in Entry /\ capability[s] \in BOOLEAN
        /\ entry[s].attached /\ (capability[s] \/ entry[s].detachRequested)
    BY <1>1, <1>2, <1>3, EndingFacts
  <1>5. PICK e : e = [entry[s] EXCEPT !.announcing = FALSE, !.detachRequested = @ \/ capability[s]]
    OBVIOUS
  <1>6. /\ e \in Entry /\ e.attached = entry[s].attached /\ e.used = entry[s].used
        /\ e.announced = entry[s].announced /\ e.announcing = FALSE
        /\ e.appending = entry[s].appending /\ e.detachRequested
    BY <1>4, <1>5 DEF Entry
  <1>7. Finally(s, e) /\ capability' = [capability EXCEPT ![s] = FALSE]
    BY <1>1, <1>2, <1>5 DEF Veto
  <1> QED
    BY <1>1, <1>2, <1>3, <1>4, <1>6, <1>7, FinallyStep

(* The next observer of the innermost dispatch is called.                  *)
LEMMA CallStep ==
  ASSUME IInv, Call
  PROVE  IInv'
  <1>1. PICK d : d = Last(stack)
    OBVIOUS
  <1>2. PICK s : s = d.session
    OBVIOUS
  <1>3. PICK o : o = d.called + 1
    OBVIOUS
  <1>4. PICK e : e = Told(d.of, d.seq)
    OBVIOUS
  <1>5. /\ stack # <<>> /\ d.called < Observers /\ UNCHANGED <<log, entry, capability, published>>
        /\ stack' = [stack EXCEPT ![Len(stack)].called = o]
        /\ seen' = [seen EXCEPT ![o][s] = Append(@, e)]
    BY <1>1, <1>2, <1>3, <1>4 DEF Call
  <1>6. /\ Nested(stack) /\ TypeOK /\ published \in [Sessions -> Seq(Observed)]
        /\ d = stack[Len(stack)] /\ d \in Dispatch /\ s \in Sessions
    BY <1>1, <1>2, <1>5, EndingFacts DEF IInv, TypeOK
  <1>7. /\ o \in 1 .. Observers /\ Nested(stack')
        /\ In(stack, s, d.of) /\ Says(stack, s, d.of, d.seq) /\ Owes(stack, o, s, d.of)
        /\ \A r, w : In(stack', r, w) <=> In(stack, r, w)
        /\ \A r, w, n : Says(stack', r, w, n) <=> Says(stack, r, w, n)
        /\ \A p \in Nat : \A r, w : Owes(stack', p, r, w) <=>
             Owes(stack, p, r, w) /\ ~(p = o /\ r = s /\ w = d.of)
    BY <1>2, <1>3, <1>5, <1>6, CallDispatch
  <1>8. /\ e \in Observed /\ e.of = d.of /\ e.seq = d.seq
        /\ d.of \in {"created", "event", "disposed"} /\ d.seq \in Nat
    BY <1>4, <1>6 DEF Observed, Told, Dispatch
  <1>9. 1 .. Observers \subseteq Nat
    BY Bounds
  <1>10. /\ seen' \in [1 .. Observers -> [Sessions -> Seq(Observed)]]
         /\ \A p \in 1 .. Observers, r \in Sessions : p # o \/ r # s => seen'[p][r] = seen[p][r]
         /\ seen[o][s] \in Seq(Observed)
         /\ seen'[o][s] = Append(seen[o][s], e)
         /\ DOMAIN seen[o][s] = 1 .. Len(seen[o][s])
         /\ DOMAIN seen'[o][s] = 1 .. Len(seen[o][s]) + 1
         /\ Len(seen[o][s]) \in Nat /\ Len(seen'[o][s]) = Len(seen[o][s]) + 1
         /\ \A k \in 1 .. Len(seen[o][s]) : seen'[o][s][k] = seen[o][s][k]
         /\ seen'[o][s][Len(seen[o][s]) + 1] = e
    <2>1. TypeOK /\ o \in 1 .. Observers /\ s \in Sessions /\ e \in Observed
      BY <1>6, <1>7, <1>8
    <2>2. seen' = [seen EXCEPT ![o][s] = Append(@, e)]
      BY <1>5
    <2>3. HeardOneMore(o, s, e)
      BY ONLY <2>1, <2>2, HearOneMore
    <2> QED
      BY <2>3 DEF HeardOneMore
  <1> DEFINE n == Len(seen[o][s])
  <1>11. /\ DOMAIN seen'[o][s] = DOMAIN seen[o][s] \cup {n + 1} /\ n + 1 \notin DOMAIN seen[o][s]
         /\ \A k \in DOMAIN seen[o][s] : seen'[o][s][k] = seen[o][s][k] /\ k < n + 1
    BY <1>10
  <1>12. \A r \in Sessions : \A w : InDispatch(r, w)' <=> InDispatch(r, w)
    BY <1>7 DEF In, InDispatch
  <1>13. TypeOK'
    <2>1. \A r \in Sessions : \A w : InDispatch(r, w) \in BOOLEAN /\ InDispatch(r, w)' \in BOOLEAN
      BY DEF InDispatch
    <2>2. \A r \in Sessions : \A w : InDispatch(r, w)' = InDispatch(r, w)
      BY <1>12, <2>1
    <2>3. stack' \in Seq(Dispatch)
      BY <1>7 DEF Nested
    <2> QED
      BY <1>5, <1>10, <2>2, <2>3 DEF IInv, TypeOK
  <1>14. EntryFollows'
    BY <1>5, <1>7 DEF IInv, EntryFollows
  <1>15. DispatchSays'
    BY <1>5, <1>7 DEF IInv, DispatchSays
  <1>16. /\ EventsIn(seen'[o][s], n + 1) = EventsIn(seen[o][s], n) + (IF e.of = "event" THEN 1 ELSE 0)
         /\ \A k \in 1 .. n : EventsIn(seen'[o][s], k) = EventsIn(seen[o][s], k)
         /\ EventsIn(seen[o][s], n) \in Nat
    BY <1>8, <1>10, CountFacts
  <1>17. /\ \A p, r, k : EventsHeard(p, r, k) = EventsIn(seen[p][r], k)
         /\ \A p, r, k : EventsHeard(p, r, k)' = EventsIn(seen'[p][r], k)
    BY DEF EventsHeard, EventsIn
  <1>18. d.of = "event" => /\ published[s] # <<>>
                           /\ published[s][Len(published[s])] = e
                           /\ EventsIn(seen'[o][s], n + 1) = Len(published[s])
    <2> SUFFICES ASSUME d.of = "event"
                 PROVE  /\ published[s] # <<>> /\ published[s][Len(published[s])] = e
                        /\ EventsIn(seen'[o][s], n + 1) = Len(published[s])
      OBVIOUS
    <2>1. published[s] # <<>> /\ published[s][Len(published[s])] = e
      BY <1>4, <1>6, <1>7, <1>8 DEF IInv, DispatchSays
    <2>2. EventsIn(seen[o][s], n) + 1 = Len(published[s])
      <3>1. EventsHeard(o, s, n) + (IF Owes(stack, o, s, "event") THEN 1 ELSE 0) = Len(published[s])
        BY <1>6, <1>7 DEF IInv, EventsAreCounted
      <3> QED
        BY <3>1, <1>7, <1>17
    <2> QED
      BY <2>1, <2>2, <1>8, <1>16
  <1> HIDE DEF n
  <1>19. EventsAreCounted'
    <2> SUFFICES ASSUME NEW p \in 1 .. Observers, NEW r \in Sessions
                 PROVE  EventsIn(seen'[p][r], Len(seen'[p][r]))
                          + (IF Owes(stack', p, r, "event") THEN 1 ELSE 0) = Len(published[r])
      BY <1>5, <1>17 DEF EventsAreCounted
    <2>1. EventsIn(seen[p][r], Len(seen[p][r]))
            + (IF Owes(stack, p, r, "event") THEN 1 ELSE 0) = Len(published[r])
      BY <1>17 DEF IInv, EventsAreCounted
    <2>2. CASE ~(p = o /\ r = s)
      <3>1. seen'[p][r] = seen[p][r]
        BY <1>10, <2>2
      <3>2. Owes(stack', p, r, "event") <=> Owes(stack, p, r, "event")
        BY <1>7, <1>9, <2>2
      <3> QED
        BY <2>1, <3>1, <3>2
    <2>3. CASE p = o /\ r = s /\ d.of = "event"
      <3>1. ~Owes(stack', p, r, "event")
        BY <1>7, <1>9, <2>3
      <3>2. EventsIn(seen'[o][s], Len(seen'[o][s])) = Len(published[s])
        BY <1>10, <1>18, <2>3 DEF n
      <3>3. Len(published[s]) + 0 = Len(published[s])
        BY <1>6
      <3> QED
        BY <3>1, <3>2, <3>3, <2>3
    <2>4. CASE p = o /\ r = s /\ d.of # "event"
      <3>1. Owes(stack', p, r, "event") <=> Owes(stack, p, r, "event")
        BY <1>7, <1>9, <2>4
      <3>2. EventsIn(seen'[o][s], Len(seen'[o][s])) = EventsIn(seen[o][s], Len(seen[o][s]))
        BY <1>8, <1>10, <1>16, <2>4 DEF n
      <3> QED
        BY <2>1, <3>1, <3>2, <2>4
    <2> QED
      BY <2>2, <2>3, <2>4
  <1>20. HeardInOrder'
    <2> SUFFICES ASSUME NEW p \in 1 .. Observers, NEW r \in Sessions, NEW k \in DOMAIN seen'[p][r],
                        seen'[p][r][k].of = "event"
                 PROVE  /\ EventsIn(seen'[p][r], k) \in DOMAIN published[r]
                        /\ seen'[p][r][k] = published[r][EventsIn(seen'[p][r], k)]
      BY <1>5, <1>17 DEF HeardInOrder
    <2>1. \A j \in DOMAIN seen[p][r] : seen[p][r][j].of = "event" =>
            /\ EventsIn(seen[p][r], j) \in DOMAIN published[r]
            /\ seen[p][r][j] = published[r][EventsIn(seen[p][r], j)]
      BY <1>17 DEF IInv, HeardInOrder
    <2>2. CASE ~(p = o /\ r = s)
      <3>1. seen'[p][r] = seen[p][r]
        BY <1>10, <2>2
      <3> QED
        BY <2>1, <3>1
    <2>3. CASE p = o /\ r = s /\ k \in DOMAIN seen[o][s]
      <3>1. seen'[o][s][k] = seen[o][s][k] /\ EventsIn(seen'[o][s], k) = EventsIn(seen[o][s], k)
        BY <1>10, <1>11, <1>16, <2>3 DEF n
      <3> QED
        BY <2>1, <3>1, <2>3
    <2>4. CASE p = o /\ r = s /\ k \notin DOMAIN seen[o][s]
      <3>1. k = n + 1 /\ seen'[o][s][k] = e
        BY <1>10, <1>11, <2>4 DEF n
      <3>2. d.of = "event"
        BY <3>1, <1>8, <2>4
      <3>3. Len(published[s]) \in DOMAIN published[s]
        <4>1. published[s] \in Seq(Observed) /\ published[s] # <<>>
          BY <1>6, <1>18, <3>2
        <4> QED
          BY <4>1
      <3> QED
        BY <3>1, <3>2, <3>3, <1>18, <2>4
    <2> QED
      BY <2>2, <2>3, <2>4
  <1>21. ~Hears(o, s, "disposed") /\ (d.of = "created" => ~Hears(o, s, "created"))
    <2>1. /\ Hears(o, s, "created") => ~Owes(stack, o, s, "created")
          /\ Hears(o, s, "disposed") => ~entry[s].attached /\ ~Owes(stack, o, s, "disposed")
      BY <1>6, <1>7 DEF IInv, OnceIsOwed
    <2>2. d.of # "disposed" => entry[s].attached
      BY <1>1, <1>2, <1>5, EndingFacts
    <2> QED
      BY <2>1, <2>2, <1>7
  <1>22. DisposalIsLast'
    <2> SUFFICES ASSUME NEW p \in 1 .. Observers, NEW r \in Sessions,
                        NEW k \in DOMAIN seen'[p][r], NEW m \in DOMAIN seen'[p][r], k < m
                 PROVE  /\ seen'[p][r][k].of # "disposed"
                        /\ ~(seen'[p][r][k].of = "created" /\ seen'[p][r][m].of = "created")
      BY DEF DisposalIsLast
    <2>1. \A i, j \in DOMAIN seen[p][r] : i < j =>
            /\ seen[p][r][i].of # "disposed"
            /\ ~(seen[p][r][i].of = "created" /\ seen[p][r][j].of = "created")
      BY DEF IInv, DisposalIsLast
    <2>2. CASE ~(p = o /\ r = s)
      <3>1. seen'[p][r] = seen[p][r]
        BY <1>10, <2>2
      <3> QED
        BY <2>1, <3>1
    <2>3. CASE p = o /\ r = s /\ m \in DOMAIN seen[o][s]
      <3>1. k \in DOMAIN seen[o][s]
        BY <1>10, <2>3
      <3> QED
        BY <2>1, <2>3, <3>1, <1>11
    <2>4. CASE p = o /\ r = s /\ m \notin DOMAIN seen[o][s]
      <3>1. m = n + 1 /\ k \in DOMAIN seen[o][s]
        BY <1>10, <1>11, <2>4 DEF n
      <3>2. seen'[o][s][k] = seen[o][s][k] /\ seen'[o][s][m] = e
        BY <3>1, <1>10, <1>11 DEF n
      <3>3. seen[o][s][k].of # "disposed" /\ (d.of = "created" => seen[o][s][k].of # "created")
        BY <3>1, <1>21 DEF Hears
      <3> QED
        BY <3>2, <3>3, <1>8, <2>4
    <2> QED
      BY <2>2, <2>3, <2>4
  <1>23. OnceIsOwed'
    <2>1. \A r \in Sessions : entry'[r] = entry[r]
      BY <1>5
    <2> SUFFICES ASSUME NEW p \in 1 .. Observers, NEW r \in Sessions
                 PROVE  /\ (\E k \in DOMAIN seen'[p][r] : seen'[p][r][k].of = "created") =>
                             entry[r].announced /\ ~Owes(stack', p, r, "created")
                        /\ (\E k \in DOMAIN seen'[p][r] : seen'[p][r][k].of = "disposed") =>
                             /\ entry[r].announced /\ ~entry[r].attached
                             /\ ~Owes(stack', p, r, "disposed")
                        /\ entry[r].announced /\ ~entry[r].attached =>
                             \/ Owes(stack', p, r, "disposed")
                             \/ Contains(seen'[p][r], Told("disposed", 0))
      BY <1>5 DEF OnceIsOwed, Hears
    <2>2. /\ (\E k \in DOMAIN seen[p][r] : seen[p][r][k].of = "created") =>
               entry[r].announced /\ ~Owes(stack, p, r, "created")
          /\ (\E k \in DOMAIN seen[p][r] : seen[p][r][k].of = "disposed") =>
               entry[r].announced /\ ~entry[r].attached /\ ~Owes(stack, p, r, "disposed")
          /\ entry[r].announced /\ ~entry[r].attached =>
               Owes(stack, p, r, "disposed") \/ Contains(seen[p][r], Told("disposed", 0))
      BY DEF IInv, OnceIsOwed, Hears
    <2>3. \A w : Owes(stack', p, r, w) <=> Owes(stack, p, r, w) /\ ~(p = o /\ r = s /\ w = d.of)
      BY <1>7, <1>9
    <2>4. CASE ~(p = o /\ r = s)
      <3>1. seen'[p][r] = seen[p][r]
        BY <1>10, <2>4
      <3> QED
        BY <2>2, <2>3, <2>4, <3>1
    <2>5. CASE p = o /\ r = s
      <3>1. \A w : (\E k \in DOMAIN seen'[o][s] : seen'[o][s][k].of = w) <=>
                     (\E k \in DOMAIN seen[o][s] : seen[o][s][k].of = w) \/ w = d.of
        BY <1>8, <1>10, <1>11 DEF n
      <3>2. Contains(seen[o][s], Told("disposed", 0)) => Contains(seen'[o][s], Told("disposed", 0))
        BY <1>10 DEF Contains
      <3>3. d.of = "disposed" => Contains(seen'[o][s], Told("disposed", 0))
        <4> SUFFICES ASSUME d.of = "disposed" PROVE Contains(seen'[o][s], Told("disposed", 0))
          OBVIOUS
        <4>1. d.seq = 0
          BY <1>6, <1>7, <1>8 DEF IInv, DispatchSays
        <4> QED
          BY <4>1, <1>4, <1>10 DEF Contains
      <3>4. /\ d.of = "created" => entry[s].announced
            /\ d.of = "disposed" => entry[s].announced /\ ~entry[s].attached
        <4>1. entry[s].announcing = In(stack, s, "created")
          BY <1>6 DEF IInv, TypeOK, InDispatch, In
        <4> QED
          BY <4>1, <1>6, <1>7 DEF IInv, EntryFollows
      <3>5. (\E k \in DOMAIN seen'[o][s] : seen'[o][s][k].of = "created") =>
              entry[s].announced /\ ~Owes(stack', o, s, "created")
        <4>1. CASE d.of = "created"
          BY <4>1, <2>3, <2>5, <3>4
        <4>2. CASE d.of # "created"
          BY <4>2, <2>2, <2>3, <2>5, <3>1
        <4> QED
          BY <4>1, <4>2
      <3>6. (\E k \in DOMAIN seen'[o][s] : seen'[o][s][k].of = "disposed") =>
              entry[s].announced /\ ~entry[s].attached /\ ~Owes(stack', o, s, "disposed")
        <4>1. CASE d.of = "disposed"
          BY <4>1, <2>3, <2>5, <3>4
        <4>2. CASE d.of # "disposed"
          BY <4>2, <2>2, <2>3, <2>5, <3>1
        <4> QED
          BY <4>1, <4>2
      <3>7. entry[s].announced /\ ~entry[s].attached =>
              Owes(stack', o, s, "disposed") \/ Contains(seen'[o][s], Told("disposed", 0))
        <4>1. CASE d.of = "disposed"
          BY <4>1, <3>3
        <4>2. CASE d.of # "disposed"
          BY <4>2, <2>2, <2>3, <2>5, <3>2
        <4> QED
          BY <4>1, <4>2
      <3> QED
        BY <2>5, <3>5, <3>6, <3>7
    <2> QED
      BY <2>4, <2>5
  <1> QED
    BY <1>7, <1>13, <1>14, <1>15, <1>19, <1>20, <1>22, <1>23 DEF IInv

---------------------------------------------------------------------------
(* The invariant and what it implies.                                      *)

(* The invariant holds of an empty store.                                  *)
LEMMA InitIInv ==
  ASSUME Init
  PROVE  IInv
  <1>1. DOMAIN stack = {} /\ stack \in Seq(Dispatch)
    BY DEF Init
  <1>2. \A s, w, n, o : ~In(stack, s, w) /\ ~Says(stack, s, w, n) /\ ~Owes(stack, o, s, w)
    BY <1>1 DEF In, Says, Owes
  <1>3. TypeOK
    <2>1. NoEntry \in Entry
      BY DEF NoEntry, Entry
    <2>2. 0 \in 0 .. MaxEvents
      BY Bounds
    <2>3. \A s \in Sessions : /\ entry[s].announcing = InDispatch(s, "created")
                              /\ entry[s].appending = InDispatch(s, "event")
      BY <1>1 DEF Init, NoEntry, InDispatch
    <2> QED
      BY <1>1, <2>1, <2>2, <2>3 DEF Init, TypeOK
  <1>4. Nested(stack)
    BY <1>1 DEF Nested
  <1>5. EntryFollows
    BY <1>2 DEF Init, EntryFollows, NoEntry
  <1>6. DispatchSays
    BY <1>2 DEF DispatchSays
  <1>7. \A o \in 1 .. Observers, s \in Sessions : seen[o][s] = <<>> /\ published[s] = <<>>
    BY DEF Init
  <1>8. EventsAreCounted
    <2>1. \A o \in 1 .. Observers, s \in Sessions : EventsHeard(o, s, Len(seen[o][s])) = 0
      <3> SUFFICES ASSUME NEW o \in 1 .. Observers, NEW s \in Sessions
                   PROVE  Cardinality({j \in 1 .. Len(seen[o][s]) : seen[o][s][j].of = "event"}) = 0
        BY DEF EventsHeard
      <3>1. {j \in 1 .. Len(seen[o][s]) : seen[o][s][j].of = "event"} = {}
        BY <1>7
      <3> QED
        BY <3>1, FS_EmptySet
    <2> QED
      BY <1>2, <1>7, <2>1 DEF EventsAreCounted
  <1>9. OnceIsOwed
    BY <1>2, <1>7 DEF Init, OnceIsOwed, Hears, NoEntry
  <1>10. HeardInOrder /\ DisposalIsLast
    BY <1>7 DEF HeardInOrder, DisposalIsLast
  <1> QED
    BY <1>3, <1>4, <1>5, <1>6, <1>8, <1>9, <1>10 DEF IInv

(* A step of something else keeps the invariant.                           *)
LEMMA SameState ==
  ASSUME IInv, UNCHANGED vars
  PROVE  IInv'
  <1> USE DEF vars
  <1>1. /\ stack' = stack /\ seen' = seen /\ published' = published /\ entry' = entry
        /\ log' = log /\ capability' = capability
    OBVIOUS
  <1>2. TypeOK'
    <2>1. \A s, w : InDispatch(s, w)' = InDispatch(s, w)
      BY <1>1 DEF InDispatch
    <2> QED
      BY <1>1, <2>1 DEF IInv, TypeOK
  <1>3. Nested(stack)'
    BY <1>1 DEF IInv, Nested
  <1>4. EntryFollows'
    BY <1>1 DEF IInv, EntryFollows, In
  <1>5. DispatchSays'
    BY <1>1 DEF IInv, DispatchSays, Says
  <1>6. EventsAreCounted'
    BY <1>1 DEF IInv, EventsAreCounted, EventsHeard, Owes
  <1>7. OnceIsOwed'
    BY <1>1 DEF IInv, OnceIsOwed, Hears, Owes, Contains
  <1>8. HeardInOrder'
    <2>1. \A o, s, k : EventsHeard(o, s, k)' = EventsHeard(o, s, k)
      BY <1>1 DEF EventsHeard
    <2> QED
      BY <1>1, <2>1 DEF IInv, HeardInOrder
  <1>9. DisposalIsLast'
    BY <1>1 DEF IInv, DisposalIsLast
  <1> QED
    BY <1>2, <1>3, <1>4, <1>5, <1>6, <1>7, <1>8, <1>9 DEF IInv

(* Every step keeps the invariant.                                         *)
LEMMA InvariantStep ==
  ASSUME IInv, [Next]_vars
  PROVE  IInv'
  BY EnterStep, AnnounceStep, AppendStep, DetachStep, CallStep, FinishStep, VetoStep, SameState
     DEF Next

(* The invariant of the dispatches holds in every reachable state.         *)
THEOREM Inductive == Spec => []IInv
  BY InitIInv, InvariantStep, PTL DEF Spec

(* What the invariant says of a stack that has unwound: everybody heard    *)
(* everything, and a session whose disposer was used is detached.          *)
LEMMA UnwoundIsServed ==
  ASSUME IInv
  PROVE  EveryoneHeard /\ DetachIsHonoured
  <1> SUFFICES ASSUME stack = <<>> PROVE EveryoneHeard /\ DetachIsHonoured
    BY DEF EveryoneHeard, DetachIsHonoured
  <1>1. \A o, s, w : ~Owes(stack, o, s, w) /\ ~In(stack, s, w)
    BY DEF Owes, In
  <1>2. ASSUME NEW o \in 1 .. Observers, NEW s \in Sessions
        PROVE  /\ EventsHeard(o, s, Len(seen[o][s])) = Len(published[s])
               /\ Contains(seen[o][s], Told("disposed", 0)) <=>
                    entry[s].announced /\ ~entry[s].attached
    <2>1. EventsHeard(o, s, Len(seen[o][s])) + 0 = Len(published[s])
      BY <1>1 DEF IInv, EventsAreCounted
    <2>2. EventsHeard(o, s, Len(seen[o][s])) \in Nat
      <3>1. seen[o][s] \in Seq(Observed) /\ Told("disposed", 0) \in Observed
        BY DEF IInv, TypeOK, Told, Observed
      <3>2. EventsIn(seen[o][s], Len(seen[o][s])) \in Nat
        BY <3>1, CountFacts
      <3> QED
        BY <3>2 DEF EventsIn, EventsHeard
    <2>3. Contains(seen[o][s], Told("disposed", 0)) => Hears(o, s, "disposed")
      <3>1. seen[o][s] \in Seq(Observed)
        BY DEF IInv, TypeOK
      <3> QED
        BY <3>1 DEF Contains, Hears, Told
    <2>4. /\ Hears(o, s, "disposed") => entry[s].announced /\ ~entry[s].attached
          /\ entry[s].announced /\ ~entry[s].attached =>
               Contains(seen[o][s], Told("disposed", 0))
      BY <1>1 DEF IInv, OnceIsOwed
    <2> QED
      BY <2>1, <2>2, <2>3, <2>4
  <1>3. ASSUME NEW s \in Sessions, entry[s].attached PROVE capability[s]
    <2>1. /\ entry[s].announcing = In(stack, s, "created")
          /\ entry[s].appending = In(stack, s, "event")
      BY DEF IInv, TypeOK, InDispatch, In
    <2> QED
      BY <1>1, <1>3, <2>1 DEF IInv, EntryFollows
  <1> QED
    BY <1>2, <1>3 DEF EveryoneHeard, DetachIsHonoured

(* Every reachable state is well typed, and the flags of an entry say      *)
(* which of its dispatches are in progress (core/session/src/index.ts).    *)
THEOREM TypeCorrect == Spec => []TypeOK
  BY Inductive, PTL DEF IInv

(* Observers hear the events of a session in the order of its log and      *)
(* without a gap, its disposal last, and when the stack has unwound        *)
(* everything, whatever they append, announce or detach in the middle.     *)
THEOREM EverybodyHears ==
  Spec => [](HeardInOrder /\ DisposalIsLast /\ EveryoneHeard /\ DetachIsHonoured)
  <1>1. IInv => HeardInOrder /\ DisposalIsLast /\ EveryoneHeard /\ DetachIsHonoured
    BY UnwoundIsServed DEF IInv
  <1> QED
    BY <1>1, Inductive, PTL

---------------------------------------------------------------------------
(* AgentLifecycle: the inductive invariant, in named parts.                *)

(* How far an attempt has come says whether its scope exists, whether its   *)
(* owner's unload will still meet its effect, and what it borrowed.         *)
Fits(a) ==
  /\ disp[a] # "no" => aborted[a] /\ Agents!Prepared(a)
  /\ disp[a] = "done" => fiber[a] = "gone" /\ a \notin follows
  /\ at[a] \in {"none", "waiting", "released", "loading", "loaded", "missing"} => ~Agents!Prepared(a)
  /\ at[a] \in {"setup", "composed", "publish", "owned", "failing"} => Agents!Prepared(a)
  /\ at[a] = "rejected" /\ Agents!Prepared(a) => disp[a] = "done"
  /\ lent[a] = "held" => at[a] \in {"loaded", "setup", "composed", "publish", "failing"}
  /\ lent[a] = "asked" => at[a] \in {"loading", "rejected"}
  /\ a \in follows =>
       at[a] \in {"loading", "loaded", "setup", "composed", "publish", "owned", "failing"}
  /\ Agents!Prepared(a) /\ ~aborted[a] => a \in follows
  /\ at[a] = "missing" => call[a].kind = "configured"

EveryoneFits == \A a \in Attempts : Fits(a)

OwnersAreMeant == \A a \in Attempts : (Agents!Owner(a) = Loop) = (call[a].kind = "configured")

(* An agent that was published and whose scope is not unwound.              *)
Standing(a) == at[a] \in {"publish", "owned", "failing"} /\ disp[a] # "done"

StackPublishes ==
  /\ \A k \in DOMAIN frames : at[frames[k].of] = "publish" /\ disp[frames[k].of] = "no"
  /\ \A j, k \in DOMAIN frames : frames[j].of = frames[k].of => j = k

LiveStands == \A i \in Ids, a \in Attempts : live[i] = a => i = Agents!Id(a) /\ Standing(a)

HeardStands ==
  \A w \in {"session", "agent"}, a \in Attempts :
    <<w, a>> \in heard => <<w, a>> \in departed \/ Standing(a)

LoopWaits == fiber[Loop] = "gone" => Agents!FactoryDone

AgentsStand == /\ Agents!TypeOK /\ EveryoneFits /\ OwnersAreMeant /\ StackPublishes /\ LiveStands
        /\ HeardStands /\ LoopWaits /\ Agents!OneDriver /\ Agents!OwnerGoneLeaving

---------------------------------------------------------------------------
(* An attempt that changes alone.                                          *)

(* The steps of one attempt that announce nothing: the others stay as they *)
(* are, and the attempt neither takes the stage nor leaves it.             *)
Alone(a) ==
  /\ UNCHANGED <<call, live, heard, departed, frames, reloads>>
  /\ \A b \in Attempts \ {a} :
       /\ at'[b] = at[b] /\ aborted'[b] = aborted[b] /\ disp'[b] = disp[b]
       /\ b \in follows' <=> b \in follows
       /\ lent'[b] = lent[b]
  /\ \A p \in Agents!Fibers \ {a} : fiber'[p] = fiber[p]
  /\ fiber'[a] # "gone" \/ fiber[a] = "gone"
  /\ Fits(a)'
  /\ Standing(a) => Standing(a)'
  /\ at'[a] \in {"publish", "owned"} /\ disp'[a] \in {"no", "draining"} =>
       at[a] \in {"publish", "owned"} /\ disp[a] \in {"no", "draining"}
  /\ at[a] = "publish" /\ disp[a] = "no" /\ frames # <<>> => at'[a] = "publish" /\ disp'[a] = "no"
  /\ fiber[Loop] = "gone" =>
       at'[a] \in Agents!Settled \cup {"none"} /\ (Agents!Prepared(a)' => disp'[a] = "done" /\ fiber'[a] = "gone")
  /\ at'[a] # "none" /\ fiber[Agents!Owner(a)] = "gone" =>
       at'[a] \in {"rejected", "failing"} \/ aborted'[a] \/ ~Agents!Prepared(a)'

(* What lies on a stack, and what a call or a return leaves of it.         *)
LEMMA Elements ==
  ASSUME NEW S, NEW s \in Seq(S)
  PROVE  /\ Len(s) \in Nat /\ DOMAIN s = 1 .. Len(s) /\ (s = <<>> <=> Len(s) = 0)
         /\ \A k \in DOMAIN s : s[k] \in S
  OBVIOUS

LEMMA PushOne ==
  ASSUME NEW S, NEW s \in Seq(S), NEW f \in S
  PROVE  /\ Append(s, f) \in Seq(S) /\ Len(s) \in Nat
         /\ DOMAIN Append(s, f) = DOMAIN s \cup {Len(s) + 1} /\ Len(s) + 1 \notin DOMAIN s
         /\ \A k \in DOMAIN s : Append(s, f)[k] = s[k]
         /\ Append(s, f)[Len(s) + 1] = f
  OBVIOUS

LEMMA PopOne ==
  ASSUME NEW S, NEW s \in Seq(S), s # <<>>
  PROVE  /\ SubSeq(s, 1, Len(s) - 1) \in Seq(S) /\ Len(s) \in DOMAIN s /\ s[Len(s)] \in S
         /\ DOMAIN SubSeq(s, 1, Len(s) - 1) = DOMAIN s \ {Len(s)}
         /\ \A k \in DOMAIN SubSeq(s, 1, Len(s) - 1) : SubSeq(s, 1, Len(s) - 1)[k] = s[k]
  OBVIOUS

(* The frames of the stack.                                                *)
LEMMA Frames ==
  ASSUME Agents!TypeOK
  PROVE  /\ Len(frames) \in Nat /\ DOMAIN frames = 1 .. Len(frames) /\ (Agents!Quiet <=> Len(frames) = 0)
         /\ \A k \in DOMAIN frames : frames[k].of \in Attempts /\ frames[k].edge \in Agents!Edges
  <1>1. frames \in Seq([of : Attempts, edge : Agents!Edges])
    BY DEF Agents!TypeOK
  <1>2. \A k \in DOMAIN frames : frames[k] \in [of : Attempts, edge : Agents!Edges]
    BY ONLY <1>1, Elements
  <1>3. \A k \in DOMAIN frames : frames[k].of \in Attempts /\ frames[k].edge \in Agents!Edges
    BY <1>2
  <1> QED
    BY <1>1, <1>3, Elements DEF Agents!Quiet

(* What the constants are assumed to be, in the form the proofs use.       *)
LEMMA Apart ==
         /\ None \notin Attempts /\ Loop \notin Attempts /\ Attempts \subseteq Agents!Fibers
         /\ Loop \in Agents!Fibers /\ MaxReloads \in Nat
  BY LifecyclesAssumption DEF Agents!NamesAreApart, Agents!Fibers

(* Such a step of one attempt leaves the invariant.                        *)
LEMMA AloneStep ==
  ASSUME AgentsStand, NEW a \in Attempts, Agents!TypeOK', Alone(a)
  PROVE  AgentsStand'
  <1>1. /\ UNCHANGED <<call, live, heard, departed, frames, reloads>>
        /\ \A b \in Attempts \ {a} :
             /\ at'[b] = at[b] /\ aborted'[b] = aborted[b] /\ disp'[b] = disp[b]
             /\ b \in follows' <=> b \in follows
             /\ lent'[b] = lent[b] /\ fiber'[b] = fiber[b]
        /\ \A p \in Agents!Fibers : fiber'[p] = "gone" => fiber[p] = "gone"
        /\ fiber'[Loop] = fiber[Loop]
    BY Apart DEF Alone
  <1>2. EveryoneFits'
    <2> SUFFICES ASSUME NEW b \in Attempts PROVE Fits(b)'
      BY DEF EveryoneFits
    <2>1. CASE b = a
      BY <2>1 DEF Alone
    <2>2. CASE b # a
      <3>1. Fits(b)
        BY DEF AgentsStand, EveryoneFits
      <3> QED
        BY <1>1, <2>2, <3>1 DEF Fits, Agents!Prepared
    <2> QED
      BY <2>1, <2>2
  <1>3. \A b \in Attempts : Standing(b) => Standing(b)'
    BY <1>1 DEF Alone, Standing
  <1>4. LiveStands'
    BY <1>1, <1>3 DEF AgentsStand, LiveStands, Agents!Id
  <1>5. HeardStands'
    BY <1>1, <1>3 DEF AgentsStand, HeardStands
  <1>6. Agents!OneDriver'
    <2> SUFFICES ASSUME NEW b \in Attempts,
                        at'[b] \in {"publish", "owned"}, disp'[b] \in {"no", "draining"}
                 PROVE  live'[call'[b].id] = b
      BY DEF Agents!OneDriver, Agents!Id
    <2>1. at[b] \in {"publish", "owned"} /\ disp[b] \in {"no", "draining"}
      BY <1>1 DEF Alone
    <2>2. live[Agents!Id(b)] = b
      BY <2>1 DEF AgentsStand, Agents!OneDriver
    <2> QED
      BY <1>1, <2>2 DEF Agents!Id
  <1>7. StackPublishes'
    <2>1. \A k \in DOMAIN frames : frames[k].of \in Attempts /\ frames # <<>>
      BY Frames DEF AgentsStand, Agents!Quiet
    <2>2. \A k \in DOMAIN frames : at'[frames[k].of] = "publish" /\ disp'[frames[k].of] = "no"
      BY <1>1, <2>1 DEF Alone, AgentsStand, StackPublishes
    <2> QED
      BY <1>1, <2>2 DEF AgentsStand, StackPublishes
  <1>8. LoopWaits'
    <2> SUFFICES ASSUME fiber'[Loop] = "gone", NEW b \in Attempts
                 PROVE  /\ at'[b] \in Agents!Settled \cup {"none"}
                        /\ Agents!Prepared(b)' => disp'[b] = "done" /\ fiber'[b] = "gone"
      BY DEF LoopWaits, Agents!FactoryDone
    <2>1. fiber[Loop] = "gone"
      BY <1>1
    <2>2. CASE b = a
      BY <2>1, <2>2 DEF Alone
    <2>3. CASE b # a
      BY <1>1, <2>1, <2>3 DEF AgentsStand, LoopWaits, Agents!FactoryDone, Agents!Prepared
    <2> QED
      BY <2>2, <2>3
  <1>9. Agents!OwnerGoneLeaving'
    <2> SUFFICES ASSUME NEW b \in Attempts, at'[b] # "none", fiber'[call'[b].owner] = "gone"
                 PROVE  at'[b] \in {"rejected", "failing"} \/ aborted'[b] \/ ~Agents!Prepared(b)'
      BY DEF Agents!OwnerGoneLeaving, Agents!Owner
    <2>1. fiber[Agents!Owner(b)] = "gone"
      <3>1. Agents!Owner(b) \in Agents!Fibers /\ call'[b].owner = Agents!Owner(b)
        BY <1>1 DEF AgentsStand, Agents!TypeOK, Agents!Calls, Agents!Owner
      <3> QED
        BY <1>1, <3>1
    <2>2. CASE b = a
      BY <2>1, <2>2 DEF Alone
    <2>3. CASE b # a
      BY <1>1, <2>1, <2>3 DEF AgentsStand, Agents!OwnerGoneLeaving, Agents!Prepared
    <2> QED
      BY <2>2, <2>3
  <1>10. OwnersAreMeant'
    BY <1>1 DEF AgentsStand, OwnersAreMeant, Agents!Owner
  <1> QED
    BY <1>2, <1>4, <1>5, <1>6, <1>7, <1>8, <1>9, <1>10 DEF AgentsStand

---------------------------------------------------------------------------
(* The steps of one attempt.                                               *)

(* What disposing one attempt does to it.                                  *)
LEMMA DisposeOne ==
  ASSUME Agents!TypeOK, NEW a \in Attempts, Agents!Dispose({a})
  PROVE  /\ disp' = [disp EXCEPT ![a] = IF disp[a] = "no" THEN "draining" ELSE disp[a]]
         /\ aborted' = [aborted EXCEPT ![a] = aborted[a] \/ disp[a] = "no"]
  <1>1. /\ disp \in [Attempts -> {"no", "draining", "unwinding", "done"}]
        /\ aborted \in [Attempts -> BOOLEAN]
    BY DEF Agents!TypeOK
  <1>2. disp' = [disp EXCEPT ![a] = IF disp[a] = "no" THEN "draining" ELSE disp[a]]
    BY <1>1 DEF Agents!Dispose
  <1>3. aborted' = [aborted EXCEPT ![a] = aborted[a] \/ disp[a] = "no"]
    BY <1>1 DEF Agents!Dispose
  <1> QED
    BY <1>2, <1>3

(* The steps of an attempt that leaves the others alone.                   *)
LEMMA CreateAgentStep ==
  ASSUME AgentsStand, NEW a \in Attempts, Agents!CreateAgent(a)
  PROVE  AgentsStand'
  <1>1. Agents!TypeOK /\ Fits(a) /\ a \in Agents!Fibers /\ a # Loop
    BY Apart DEF AgentsStand, EveryoneFits
  <1>2. Agents!TypeOK'
    BY <1>1, SMTT(30) DEF Agents!TypeOK, Agents!CreateAgent, Agents!Prepare, Agents!MayPrepare,
       Agents!Active
  <1>3. Alone(a)
    BY <1>1 DEF Agents!TypeOK, AgentsStand, LoopWaits, Agents!FactoryDone,
       Agents!OwnerGoneLeaving, OwnersAreMeant,
       Alone, Fits, Standing, Agents!Prepared, Agents!Settled, Agents!Quiet, Agents!CreateAgent,
       Agents!Prepare, Agents!MayPrepare, Agents!Active
  <1> QED
    BY <1>2, <1>3, AloneStep

LEMMA ResumeStep ==
  ASSUME AgentsStand, NEW a \in Attempts, Agents!Resume(a)
  PROVE  AgentsStand'
  <1>1. Agents!TypeOK /\ Fits(a) /\ a \in Agents!Fibers /\ a # Loop
    BY Apart DEF AgentsStand, EveryoneFits
  <1>2. Agents!TypeOK'
    BY <1>1, SMTT(30) DEF Agents!TypeOK, Agents!Resume, Agents!Load, Agents!Active
  <1>3. Alone(a)
    BY <1>1 DEF Agents!TypeOK, AgentsStand, LoopWaits, Agents!FactoryDone,
       Agents!OwnerGoneLeaving, OwnersAreMeant,
       Alone, Fits, Standing, Agents!Prepared, Agents!Settled, Agents!Quiet, Agents!Resume,
       Agents!Load, Agents!Active
  <1> QED
    BY <1>2, <1>3, AloneStep

LEMMA ConfiguredStep ==
  ASSUME AgentsStand, NEW a \in Attempts, Agents!Configured(a)
  PROVE  AgentsStand'
  <1>1. Agents!TypeOK /\ Fits(a) /\ a \in Agents!Fibers /\ a # Loop
    BY Apart DEF AgentsStand, EveryoneFits
  <1>2. Agents!TypeOK'
    BY <1>1 DEF Agents!TypeOK, Agents!Configured, Agents!Load, Agents!Active
  <1>3. Alone(a)
    BY <1>1 DEF Agents!TypeOK, AgentsStand, LoopWaits, Agents!FactoryDone,
       Agents!OwnerGoneLeaving, OwnersAreMeant,
       Alone, Fits, Standing, Agents!Prepared, Agents!Settled, Agents!Quiet, Agents!Configured,
       Agents!Load, Agents!Active
  <1> QED
    BY <1>2, <1>3, AloneStep

LEMMA CancelStep ==
  ASSUME AgentsStand, NEW a \in Attempts, Agents!Cancel(a)
  PROVE  AgentsStand'
  <1>1. Agents!TypeOK /\ Fits(a) /\ a \in Agents!Fibers /\ a # Loop
    BY Apart DEF AgentsStand, EveryoneFits
  <1>2. Agents!TypeOK'
    BY <1>1 DEF Agents!TypeOK, Agents!Cancel, Agents!Settled
  <1>3. Alone(a)
    BY <1>1 DEF Agents!TypeOK, AgentsStand, LoopWaits, Agents!FactoryDone,
       Agents!OwnerGoneLeaving, OwnersAreMeant,
       Alone, Fits, Standing, Agents!Prepared, Agents!Settled, Agents!Quiet, Agents!Cancel
  <1> QED
    BY <1>2, <1>3, AloneStep

LEMMA LoadedStep ==
  ASSUME AgentsStand, NEW a \in Attempts, Agents!Loaded(a)
  PROVE  AgentsStand'
  <1>1. Agents!TypeOK /\ Fits(a) /\ a \in Agents!Fibers /\ a # Loop
    BY Apart DEF AgentsStand, EveryoneFits
  <1>2. Agents!TypeOK'
    BY <1>1 DEF Agents!TypeOK, Agents!Loaded
  <1>3. Alone(a)
    BY <1>1 DEF Agents!TypeOK, AgentsStand, LoopWaits, Agents!FactoryDone,
       Agents!OwnerGoneLeaving, OwnersAreMeant,
       Alone, Fits, Standing, Agents!Prepared, Agents!Settled, Agents!Quiet, Agents!Loaded
  <1> QED
    BY <1>2, <1>3, AloneStep

LEMMA LoadFailsStep ==
  ASSUME AgentsStand, NEW a \in Attempts, Agents!LoadFails(a)
  PROVE  AgentsStand'
  <1>1. Agents!TypeOK /\ Fits(a) /\ a \in Agents!Fibers /\ a # Loop
    BY Apart DEF AgentsStand, EveryoneFits
  <1>2. Agents!TypeOK'
    BY <1>1 DEF Agents!TypeOK, Agents!LoadFails, Agents!Release, Agents!Active
  <1>3. Alone(a)
    BY <1>1 DEF Agents!TypeOK, AgentsStand, LoopWaits, Agents!FactoryDone,
       Agents!OwnerGoneLeaving, OwnersAreMeant,
       Alone, Fits, Standing, Agents!Prepared, Agents!Settled, Agents!Quiet, Agents!LoadFails,
       Agents!Release, Agents!Active
  <1> QED
    BY <1>2, <1>3, AloneStep

LEMMA LoadAbortedStep ==
  ASSUME AgentsStand, NEW a \in Attempts, Agents!LoadAborted(a)
  PROVE  AgentsStand'
  <1>1. Agents!TypeOK /\ Fits(a) /\ a \in Agents!Fibers /\ a # Loop
    BY Apart DEF AgentsStand, EveryoneFits
  <1>2. Agents!TypeOK'
    BY <1>1 DEF Agents!TypeOK, Agents!LoadAborted
  <1>3. Alone(a)
    BY <1>1 DEF Agents!TypeOK, AgentsStand, LoopWaits, Agents!FactoryDone,
       Agents!OwnerGoneLeaving, OwnersAreMeant,
       Alone, Fits, Standing, Agents!Prepared, Agents!Settled, Agents!Quiet, Agents!LoadAborted
  <1> QED
    BY <1>2, <1>3, AloneStep

LEMMA LateLoadStep ==
  ASSUME AgentsStand, NEW a \in Attempts, Agents!LateLoad(a)
  PROVE  AgentsStand'
  <1>1. Agents!TypeOK /\ Fits(a) /\ a \in Agents!Fibers /\ a # Loop
    BY Apart DEF AgentsStand, EveryoneFits
  <1>2. Agents!TypeOK'
    BY <1>1 DEF Agents!TypeOK, Agents!LateLoad, Agents!Release
  <1>3. Alone(a)
    BY <1>1 DEF Agents!TypeOK, AgentsStand, LoopWaits, Agents!FactoryDone,
       Agents!OwnerGoneLeaving, OwnersAreMeant,
       Alone, Fits, Standing, Agents!Prepared, Agents!Settled, Agents!Quiet, Agents!LateLoad,
       Agents!Release
  <1> QED
    BY <1>2, <1>3, AloneStep

LEMMA AfterLoadStep ==
  ASSUME AgentsStand, NEW a \in Attempts, Agents!AfterLoad(a)
  PROVE  AgentsStand'
  <1>1. Agents!TypeOK /\ Fits(a) /\ a \in Agents!Fibers /\ a # Loop
    BY Apart DEF AgentsStand, EveryoneFits
  <1>2. Agents!TypeOK'
    BY <1>1, SMTT(30) DEF Agents!TypeOK, Agents!AfterLoad, Agents!Prepare, Agents!MayPrepare,
       Agents!Release, Agents!Active
  <1>3. Alone(a)
    BY <1>1 DEF Agents!TypeOK, AgentsStand, LoopWaits, Agents!FactoryDone,
       Agents!OwnerGoneLeaving, OwnersAreMeant,
       Alone, Fits, Standing, Agents!Prepared, Agents!Settled, Agents!Quiet, Agents!AfterLoad,
       Agents!Prepare, Agents!MayPrepare, Agents!Release, Agents!Active
  <1> QED
    BY <1>2, <1>3, AloneStep

LEMMA ComposedStep ==
  ASSUME AgentsStand, NEW a \in Attempts, Agents!Composed(a)
  PROVE  AgentsStand'
  <1>1. Agents!TypeOK /\ Fits(a) /\ a \in Agents!Fibers /\ a # Loop
    BY Apart DEF AgentsStand, EveryoneFits
  <1>2. Agents!TypeOK'
    BY <1>1 DEF Agents!TypeOK, Agents!Composed
  <1>3. Alone(a)
    BY <1>1 DEF Agents!TypeOK, AgentsStand, LoopWaits, Agents!FactoryDone,
       Agents!OwnerGoneLeaving, OwnersAreMeant,
       Alone, Fits, Standing, Agents!Prepared, Agents!Settled, Agents!Quiet, Agents!Composed
  <1> QED
    BY <1>2, <1>3, AloneStep

LEMMA SettleStep ==
  ASSUME AgentsStand, NEW a \in Attempts, Agents!Settle(a)
  PROVE  AgentsStand'
  <1>1. Agents!TypeOK /\ Fits(a) /\ a \in Agents!Fibers /\ a # Loop
    BY Apart DEF AgentsStand, EveryoneFits
  <1>2. Agents!TypeOK'
    BY <1>1 DEF Agents!TypeOK, Agents!Settle, Agents!Release
  <1>3. Alone(a)
    BY <1>1 DEF Agents!TypeOK, AgentsStand, LoopWaits, Agents!FactoryDone,
       Agents!OwnerGoneLeaving, OwnersAreMeant,
       Alone, Fits, Standing, Agents!Prepared, Agents!Settled, Agents!Quiet, Agents!Settle,
       Agents!Release
  <1> QED
    BY <1>2, <1>3, AloneStep

LEMMA DrainedStep ==
  ASSUME AgentsStand, NEW a \in Attempts, Agents!Drained(a)
  PROVE  AgentsStand'
  <1>1. Agents!TypeOK /\ Fits(a) /\ a \in Agents!Fibers /\ a # Loop
    BY Apart DEF AgentsStand, EveryoneFits
  <1>2. Agents!TypeOK'
    BY <1>1 DEF Agents!TypeOK, Agents!Drained
  <1>3. Alone(a)
    BY <1>1 DEF Agents!TypeOK, AgentsStand, LoopWaits, Agents!FactoryDone,
       Agents!OwnerGoneLeaving, OwnersAreMeant,
       Alone, Fits, Standing, Agents!Prepared, Agents!Settled, Agents!Quiet, Agents!Drained
  <1> QED
    BY <1>2, <1>3, AloneStep

LEMMA ScopeEffectStep ==
  ASSUME AgentsStand, NEW a \in Attempts, Agents!ScopeEffect(a)
  PROVE  AgentsStand'
  <1>1. Agents!TypeOK /\ Fits(a) /\ a \in Agents!Fibers /\ a # Loop
    BY Apart DEF AgentsStand, EveryoneFits
  <1>2. Agents!TypeOK'
    BY <1>1 DEF Agents!TypeOK, Agents!ScopeEffect, Agents!Active
  <1>3. Alone(a)
    BY <1>1 DEF Agents!TypeOK, AgentsStand, LoopWaits, Agents!FactoryDone,
       Agents!OwnerGoneLeaving, OwnersAreMeant,
       Alone, Fits, Standing, Agents!Prepared, Agents!Settled, Agents!Quiet, Agents!ScopeEffect,
       Agents!Active
  <1> QED
    BY <1>2, <1>3, AloneStep

LEMMA DisposeHandleStep ==
  ASSUME AgentsStand, NEW a \in Attempts, Agents!DisposeHandle(a)
  PROVE  AgentsStand'
  <1>1. Agents!TypeOK /\ Fits(a) /\ a \in Agents!Fibers /\ a # Loop
    BY Apart DEF AgentsStand, EveryoneFits
  <1>2. /\ disp' = [disp EXCEPT ![a] = IF disp[a] = "no" THEN "draining" ELSE disp[a]]
        /\ aborted' = [aborted EXCEPT ![a] = aborted[a] \/ disp[a] = "no"]
    BY <1>1, DisposeOne DEF Agents!DisposeHandle
  <1>3. disp[a] \in {"no", "draining", "unwinding", "done"} /\ aborted[a] \in BOOLEAN
    BY <1>1 DEF Agents!TypeOK
  <1>4. Agents!TypeOK'
    BY <1>1, <1>2, <1>3 DEF Agents!TypeOK, Agents!DisposeHandle
  <1>5. /\ disp'[a] = (IF disp[a] = "no" THEN "draining" ELSE disp[a])
        /\ aborted'[a] <=> aborted[a] \/ disp[a] = "no"
        /\ \A b \in Attempts \ {a} : disp'[b] = disp[b] /\ aborted'[b] = aborted[b]
    BY <1>1, <1>2 DEF Agents!TypeOK
  <1>6. Alone(a)
    BY <1>1, <1>3, <1>5 DEF Agents!TypeOK, AgentsStand, LoopWaits, Agents!FactoryDone,
       Agents!OwnerGoneLeaving,
       Alone, Fits, Standing, Agents!Prepared, Agents!Settled, Agents!Quiet, Agents!DisposeHandle
  <1> QED
    BY <1>4, <1>6, AloneStep

(* A commit that fails and a setup that throws dispose the attempt.        *)
LEMMA CommitFailsStep ==
  ASSUME AgentsStand, NEW a \in Attempts, Agents!CommitFails(a)
  PROVE  AgentsStand'
  <1>1. Agents!TypeOK /\ Fits(a) /\ a \in Agents!Fibers /\ a # Loop
    BY Apart DEF AgentsStand, EveryoneFits
  <1>2. /\ disp' = [disp EXCEPT ![a] = IF disp[a] = "no" THEN "draining" ELSE disp[a]]
        /\ aborted' = [aborted EXCEPT ![a] = aborted[a] \/ disp[a] = "no"]
    BY <1>1, DisposeOne DEF Agents!CommitFails, Agents!Fail
  <1>3. disp[a] \in {"no", "draining", "unwinding", "done"} /\ aborted[a] \in BOOLEAN
    BY <1>1 DEF Agents!TypeOK
  <1>4. Agents!TypeOK'
    BY <1>1, <1>2, <1>3 DEF Agents!TypeOK, Agents!CommitFails, Agents!Fail
  <1>5. /\ disp'[a] = (IF disp[a] = "no" THEN "draining" ELSE disp[a])
        /\ aborted'[a] <=> aborted[a] \/ disp[a] = "no"
        /\ \A b \in Attempts \ {a} : disp'[b] = disp[b] /\ aborted'[b] = aborted[b]
    BY <1>1, <1>2 DEF Agents!TypeOK
  <1>6. Alone(a)
    BY <1>1, <1>3, <1>5 DEF Agents!TypeOK, AgentsStand, LoopWaits, Agents!FactoryDone,
       Agents!OwnerGoneLeaving,
       Alone, Fits, Standing, Agents!Prepared, Agents!Settled, Agents!Quiet, Agents!CommitFails,
       Agents!Fail
  <1> QED
    BY <1>4, <1>6, AloneStep

LEMMA SetupFailsStep ==
  ASSUME AgentsStand, NEW a \in Attempts, Agents!SetupFails(a)
  PROVE  AgentsStand'
  <1>1. Agents!TypeOK /\ Fits(a) /\ a \in Agents!Fibers /\ a # Loop
    BY Apart DEF AgentsStand, EveryoneFits
  <1>2. /\ disp' = [disp EXCEPT ![a] = IF disp[a] = "no" THEN "draining" ELSE disp[a]]
        /\ aborted' = [aborted EXCEPT ![a] = aborted[a] \/ disp[a] = "no"]
    BY <1>1, DisposeOne DEF Agents!SetupFails, Agents!Fail
  <1>3. disp[a] \in {"no", "draining", "unwinding", "done"} /\ aborted[a] \in BOOLEAN
    BY <1>1 DEF Agents!TypeOK
  <1>4. Agents!TypeOK'
    BY <1>1, <1>2, <1>3 DEF Agents!TypeOK, Agents!SetupFails, Agents!Fail
  <1>5. /\ disp'[a] = (IF disp[a] = "no" THEN "draining" ELSE disp[a])
        /\ aborted'[a] <=> aborted[a] \/ disp[a] = "no"
        /\ \A b \in Attempts \ {a} : disp'[b] = disp[b] /\ aborted'[b] = aborted[b]
    BY <1>1, <1>2 DEF Agents!TypeOK
  <1>6. Alone(a)
    BY <1>1, <1>3, <1>5 DEF Agents!TypeOK, AgentsStand, LoopWaits, Agents!FactoryDone,
       Agents!OwnerGoneLeaving,
       Alone, Fits, Standing, Agents!Prepared, Agents!Settled, Agents!Quiet, Agents!SetupFails,
       Agents!Fail
  <1> QED
    BY <1>4, <1>6, AloneStep

LEMMA OwnerEffectStep ==
  ASSUME AgentsStand, NEW a \in Attempts, Agents!OwnerEffect(a)
  PROVE  AgentsStand'
  <1>1. Agents!TypeOK /\ Fits(a) /\ a \in Agents!Fibers /\ a # Loop /\ frames = <<>>
    BY Apart DEF AgentsStand, EveryoneFits, Agents!OwnerEffect, Agents!Quiet
  <1>2. disp[a] \in {"no", "draining", "unwinding", "done"} /\ aborted[a] \in BOOLEAN
    BY <1>1 DEF Agents!TypeOK
  <1>3. CASE Agents!Prepared(a)
    <2>1. /\ disp' = [disp EXCEPT ![a] = IF disp[a] = "no" THEN "draining" ELSE disp[a]]
          /\ aborted' = [aborted EXCEPT ![a] = aborted[a] \/ disp[a] = "no"]
          /\ joined' = joined \cup {b \in {a} : disp[a] = "no"}
          /\ follows' = follows \ {a}
          /\ UNCHANGED <<call, at, lent, live, heard, departed, frames, fiber, reloads>>
      BY <1>1, <1>3, DisposeOne DEF Agents!OwnerEffect
    <2>2. Agents!TypeOK'
      BY <1>1, <1>2, <2>1 DEF Agents!TypeOK
    <2>3. /\ disp'[a] = (IF disp[a] = "no" THEN "draining" ELSE disp[a])
          /\ aborted'[a] <=> aborted[a] \/ disp[a] = "no"
          /\ \A b \in Attempts \ {a} : disp'[b] = disp[b] /\ aborted'[b] = aborted[b]
      BY <1>1, <2>1 DEF Agents!TypeOK
    <2>4. Alone(a)
      BY <1>1, <1>2, <1>3, <2>1, <2>3 DEF Agents!TypeOK, AgentsStand, LoopWaits,
         Agents!FactoryDone, Agents!OwnerGoneLeaving,
         Alone, Fits, Standing, Agents!Prepared, Agents!Settled
    <2> QED
      BY <2>2, <2>4, AloneStep
  <1>4. CASE ~Agents!Prepared(a)
    <2>1. /\ aborted' = [aborted EXCEPT ![a] = TRUE] /\ follows' = follows \ {a}
          /\ UNCHANGED <<call, at, disp, joined, lent, live, heard, departed, frames, fiber, reloads>>
      BY <1>4 DEF Agents!OwnerEffect
    <2>2. Agents!TypeOK'
      BY <1>1, <2>1 DEF Agents!TypeOK
    <2>3. Alone(a)
      BY <1>1, <1>2, <1>4, <2>1 DEF Agents!TypeOK, AgentsStand, LoopWaits, Agents!FactoryDone,
         Agents!OwnerGoneLeaving,
         Alone, Fits, Standing, Agents!Prepared, Agents!Settled
    <2> QED
      BY <2>2, <2>3, AloneStep
  <1> QED
    BY <1>3, <1>4

---------------------------------------------------------------------------
(* Publication.                                                            *)

(* An attempt enters the registries and is announced to listeners.         *)
LEMMA PublicationStep ==
  ASSUME AgentsStand, NEW a \in Attempts, Agents!Enter(a, frames),
         UNCHANGED <<call, joined, lent, departed, reloads>>,
         at[a] \in {"none", "composed", "missing"}, ~aborted[a], live[Agents!Id(a)] = None,
         fiber[Loop] # "gone", fiber[Agents!Owner(a)] # "gone",
         fiber' \in [Agents!Fibers -> {"none", "active", "unloading", "gone"}],
         \A p \in Agents!Fibers \ {a} : fiber'[p] = fiber[p],
         Agents!Prepared(a)', fiber'[a] = "gone" => fiber[a] = "gone",
         follows' = follows \cup {a}
  PROVE  AgentsStand'
  <1> DEFINE f == [of |-> a, edge |-> "session"]
  <1>1. /\ Agents!TypeOK /\ Fits(a) /\ a \in Agents!Fibers /\ a # Loop /\ a # None
        /\ Agents!Id(a) \in Ids /\ \A b \in Attempts : Agents!Owner(b) \in Agents!Fibers
    BY Apart DEF AgentsStand, EveryoneFits, Agents!TypeOK, Agents!Calls, Agents!Id, Agents!Owner
  <1>2. disp[a] = "no"
    BY <1>1 DEF Fits
  <1>3. /\ at' = [at EXCEPT ![a] = "publish"] /\ live' = [live EXCEPT ![Agents!Id(a)] = a]
        /\ heard' = heard \cup {<<"session", a>>} /\ frames' = Append(frames, f)
        /\ UNCHANGED <<aborted, disp>>
    BY DEF Agents!Enter
  <1>4. /\ frames \in Seq([of : Attempts, edge : Agents!Edges])
        /\ f \in [of : Attempts, edge : Agents!Edges]
    BY <1>1 DEF Agents!TypeOK, Agents!Edges
  <1>5. /\ Len(frames) \in Nat /\ DOMAIN frames' = DOMAIN frames \cup {Len(frames) + 1}
        /\ Len(frames) + 1 \notin DOMAIN frames
        /\ \A k \in DOMAIN frames : frames'[k] = frames[k] /\ frames[k].of \in Attempts
        /\ frames'[Len(frames) + 1] = f /\ frames' \in Seq([of : Attempts, edge : Agents!Edges])
    BY <1>1, <1>3, <1>4, PushOne, Frames
  <1>6. f.of = a
    OBVIOUS
  <1> HIDE DEF f
  <1>7. Agents!TypeOK'
    BY <1>1, <1>3, <1>5 DEF Agents!TypeOK
  <1>8. /\ at'[a] = "publish" /\ live'[Agents!Id(a)] = a
        /\ \A b \in Attempts \ {a} : at'[b] = at[b]
        /\ \A i \in Ids : i # Agents!Id(a) => live'[i] = live[i]
    BY <1>1, <1>3 DEF Agents!TypeOK
  <1>9. EveryoneFits'
    <2> SUFFICES ASSUME NEW b \in Attempts PROVE Fits(b)'
      BY DEF EveryoneFits
    <2>1. CASE b = a
      BY <1>1, <1>2, <1>3, <1>8, <2>1 DEF Fits, Agents!Prepared
    <2>2. CASE b # a
      <3>1. Fits(b) /\ b \in Agents!Fibers
        BY Apart DEF AgentsStand, EveryoneFits
      <3> QED
        BY <1>3, <1>8, <2>2, <3>1 DEF Fits, Agents!Prepared
    <2> QED
      BY <2>1, <2>2
  <1>10. \A b \in Attempts : Standing(b) => Standing(b)'
    BY <1>1, <1>3, <1>8, <1>2 DEF Standing
  <1>11. Standing(a)'
    BY <1>2, <1>3, <1>8 DEF Standing
  <1>12. LiveStands'
    BY <1>1, <1>8, <1>10, <1>11 DEF AgentsStand, LiveStands, Agents!Id
  <1>13. HeardStands'
    BY <1>3, <1>10, <1>11 DEF AgentsStand, HeardStands
  <1>14. Agents!OneDriver'
    <2> SUFFICES ASSUME NEW b \in Attempts,
                        at'[b] \in {"publish", "owned"}, disp'[b] \in {"no", "draining"}
                 PROVE  live'[call'[b].id] = b
      BY DEF Agents!OneDriver, Agents!Id
    <2>1. CASE b = a
      BY <1>8, <2>1 DEF Agents!Id
    <2>2. CASE b # a
      <3>1. live[Agents!Id(b)] = b /\ b # None /\ Agents!Id(b) \in Ids
        BY <1>1, <1>3, <1>8, <2>2, Apart DEF AgentsStand, Agents!OneDriver, Agents!TypeOK,
           Agents!Calls, Agents!Id
      <3> QED
        BY <1>8, <3>1 DEF Agents!Id
    <2> QED
      BY <2>1, <2>2
  <1>15. StackPublishes'
    <2>1. \A k \in DOMAIN frames : frames[k].of # a
      BY <1>5 DEF AgentsStand, StackPublishes
    <2>2. \A k \in DOMAIN frames' : at'[frames'[k].of] = "publish" /\ disp'[frames'[k].of] = "no"
      BY <1>2, <1>3, <1>5, <1>6, <1>8, <2>1 DEF AgentsStand, StackPublishes
    <2>3. \A j, k \in DOMAIN frames' : frames'[j].of = frames'[k].of => j = k
      BY <1>5, <1>6, <2>1 DEF AgentsStand, StackPublishes
    <2> QED
      BY <2>2, <2>3 DEF StackPublishes
  <1>16. LoopWaits'
    BY <1>1, Apart DEF LoopWaits
  <1>17. Agents!OwnerGoneLeaving'
    <2> SUFFICES ASSUME NEW b \in Attempts, at'[b] # "none", fiber'[call'[b].owner] = "gone"
                 PROVE  at'[b] \in {"rejected", "failing"} \/ aborted'[b] \/ ~Agents!Prepared(b)'
      BY DEF Agents!OwnerGoneLeaving, Agents!Owner
    <2>1. fiber[Agents!Owner(b)] = "gone"
      BY <1>1 DEF Agents!Owner
    <2>2. b # a
      BY <2>1
    <2> QED
      BY <1>3, <1>8, <2>1, <2>2, Apart DEF AgentsStand, Agents!OwnerGoneLeaving, Agents!Prepared
  <1>18. OwnersAreMeant'
    BY DEF AgentsStand, OwnersAreMeant, Agents!Owner
  <1> QED
    BY <1>7, <1>9, <1>12, <1>13, <1>14, <1>15, <1>16, <1>17, <1>18 DEF AgentsStand

(* Publishing puts a free id in both registries and begins to announce it. *)
LEMMA PublishStep ==
  ASSUME AgentsStand, NEW a \in Attempts, Agents!Publish(a)
  PROVE  AgentsStand'
  <1>1. /\ Agents!TypeOK /\ Fits(a) /\ a \in Agents!Fibers /\ a # Loop /\ frames = <<>> /\ at[a] = "composed"
        /\ UNCHANGED <<call, follows, joined, lent, departed, fiber, reloads>>
    BY Apart DEF AgentsStand, EveryoneFits, Agents!Publish, Agents!Quiet
  <1>2. CASE aborted[a] \/ live[Agents!Id(a)] # None
    <2>1. /\ disp' = [disp EXCEPT ![a] = IF disp[a] = "no" THEN "draining" ELSE disp[a]]
          /\ aborted' = [aborted EXCEPT ![a] = aborted[a] \/ disp[a] = "no"]
          /\ at' = [at EXCEPT ![a] = "failing"] /\ UNCHANGED <<live, heard, frames>>
      BY <1>1, <1>2, DisposeOne DEF Agents!Publish, Agents!Fail
    <2>2. disp[a] \in {"no", "draining", "unwinding", "done"} /\ aborted[a] \in BOOLEAN
      BY <1>1 DEF Agents!TypeOK
    <2>3. Agents!TypeOK'
      BY <1>1, <2>1, <2>2 DEF Agents!TypeOK
    <2>4. /\ disp'[a] = (IF disp[a] = "no" THEN "draining" ELSE disp[a])
          /\ aborted'[a] <=> aborted[a] \/ disp[a] = "no"
          /\ \A b \in Attempts \ {a} : disp'[b] = disp[b] /\ aborted'[b] = aborted[b]
      BY <1>1, <2>1 DEF Agents!TypeOK
    <2>5. Alone(a)
      BY <1>1, <2>1, <2>2, <2>4 DEF Agents!TypeOK, AgentsStand, LoopWaits, Agents!FactoryDone,
         Agents!OwnerGoneLeaving,
         Alone, Fits, Standing, Agents!Prepared, Agents!Settled
    <2> QED
      BY <2>3, <2>5, AloneStep
  <1>3. CASE ~(aborted[a] \/ live[Agents!Id(a)] # None)
    <2>1. Agents!Enter(a, frames)
      BY <1>3 DEF Agents!Publish
    <2>2. Agents!Prepared(a) /\ a \in follows
      BY <1>1, <1>3 DEF Fits
    <2>3. fiber[Loop] # "gone"
      BY <1>1 DEF AgentsStand, LoopWaits, Agents!FactoryDone, Agents!Settled
    <2>4. fiber[Agents!Owner(a)] # "gone"
      BY <1>1, <1>3, <2>2 DEF AgentsStand, Agents!OwnerGoneLeaving
    <2>5. /\ Agents!Prepared(a)' /\ follows' = follows \cup {a}
          /\ fiber' \in [Agents!Fibers -> {"none", "active", "unloading", "gone"}]
      BY <1>1, <2>2 DEF Agents!Prepared, Agents!TypeOK
    <2> QED
      BY <1>1, <1>3, <2>1, <2>3, <2>4, <2>5, PublicationStep
  <1> QED
    BY <1>2, <1>3

(* A scope is minted for an attempt that is published at once.             *)
LEMMA PrepareEnters ==
  ASSUME AgentsStand, NEW a \in Attempts, Agents!Enter(a, frames), Agents!Prepare(a),
         UNCHANGED <<call, joined, lent, departed, reloads>>,
         at[a] \in {"none", "missing"}, live[Agents!Id(a)] = None, Agents!MayPrepare(a, Agents!Owner(a))
  PROVE  AgentsStand'
  <1>1. Agents!TypeOK /\ a \in Agents!Fibers
    BY Apart DEF AgentsStand
  <1>2. fiber[Loop] # "gone" /\ fiber[Agents!Owner(a)] # "gone" /\ ~aborted[a]
    BY DEF Agents!MayPrepare, Agents!Active
  <1>3. /\ fiber' = [fiber EXCEPT ![a] = "active"] /\ follows' = follows \cup {a}
    BY DEF Agents!Prepare
  <1>4. /\ fiber' \in [Agents!Fibers -> {"none", "active", "unloading", "gone"}]
        /\ fiber'[a] = "active"
        /\ \A p \in Agents!Fibers \ {a} : fiber'[p] = fiber[p]
    BY <1>1, <1>3 DEF Agents!TypeOK
  <1>5. Agents!Prepared(a)'
    BY <1>4 DEF Agents!Prepared
  <1> QED
    BY <1>2, <1>3, <1>4, <1>5, PublicationStep

(* An attempt that is refused before anything was built.                   *)
LEMMA RefuseStep ==
  ASSUME AgentsStand, NEW a \in Attempts, at[a] \in {"none", "missing"},
         at' = [at EXCEPT ![a] = "rejected"],
         UNCHANGED <<call, aborted, disp, follows, joined, lent, live, heard, departed, frames,
                     fiber, reloads>>
  PROVE  AgentsStand'
  <1>1. Agents!TypeOK /\ Fits(a) /\ a \in Agents!Fibers /\ a # Loop
    BY Apart DEF AgentsStand, EveryoneFits
  <1>2. Agents!TypeOK'
    BY <1>1 DEF Agents!TypeOK
  <1>3. Alone(a)
    BY <1>1 DEF Agents!TypeOK, AgentsStand, LoopWaits, Agents!FactoryDone,
       Agents!OwnerGoneLeaving, Alone, Fits, Standing,
       Agents!Prepared, Agents!Settled
  <1> QED
    BY <1>2, <1>3, AloneStep

(* Creating at once prepares the attempt or refuses it.                    *)
LEMMA CreateStep ==
  ASSUME AgentsStand, NEW a \in Attempts, Agents!Create(a)
  PROVE  AgentsStand'
  <1>1. at[a] = "none" /\ UNCHANGED <<call, joined, lent, departed, reloads>>
    BY DEF Agents!Create
  <1>2. CASE Agents!MayPrepare(a, Agents!Owner(a)) /\ live[Agents!Id(a)] = None
    <2>1. Agents!Enter(a, frames) /\ Agents!Prepare(a)
      BY <1>2 DEF Agents!Create
    <2> QED
      BY <1>1, <1>2, <2>1, PrepareEnters
  <1>3. CASE ~(Agents!MayPrepare(a, Agents!Owner(a)) /\ live[Agents!Id(a)] = None)
    <2>1. /\ at' = [at EXCEPT ![a] = "rejected"]
          /\ UNCHANGED <<aborted, disp, live, heard, frames, follows, fiber>>
      BY <1>3 DEF Agents!Create
    <2> QED
      BY <1>1, <2>1, RefuseStep
  <1> QED
    BY <1>2, <1>3

(* A configured start that finds no session creates one.                   *)
LEMMA ListedStep ==
  ASSUME AgentsStand, NEW a \in Attempts, Agents!Listed(a)
  PROVE  AgentsStand'
  <1>1. at[a] = "missing" /\ UNCHANGED <<call, joined, lent, departed, reloads>>
    BY DEF Agents!Listed
  <1>2. PICK exists \in BOOLEAN :
          IF ~exists /\ Agents!MayPrepare(a, Loop) /\ live[Agents!Id(a)] = None
          THEN Agents!Enter(a, frames) /\ Agents!Prepare(a)
          ELSE /\ at' = [at EXCEPT ![a] = "rejected"]
               /\ UNCHANGED <<aborted, disp, live, heard, frames, follows, fiber>>
    BY DEF Agents!Listed
  <1>3. Agents!Owner(a) = Loop
    BY <1>1 DEF AgentsStand, EveryoneFits, Fits, OwnersAreMeant
  <1>4. CASE ~exists /\ Agents!MayPrepare(a, Loop) /\ live[Agents!Id(a)] = None
    BY <1>1, <1>2, <1>3, <1>4, PrepareEnters
  <1>5. CASE ~(~exists /\ Agents!MayPrepare(a, Loop) /\ live[Agents!Id(a)] = None)
    BY <1>1, <1>2, <1>5, RefuseStep
  <1> QED
    BY <1>4, <1>5

---------------------------------------------------------------------------
(* Announcements.                                                          *)

(* The announcement in progress is of a published attempt nobody disposes. *)
LEMMA TopFacts ==
  ASSUME AgentsStand, ~Agents!Quiet
  PROVE  /\ Agents!Top.of \in Attempts /\ Agents!Top.edge \in Agents!Edges
         /\ at[Agents!Top.of] = "publish" /\ disp[Agents!Top.of] = "no" /\ Agents!Prepared(Agents!Top.of)
         /\ Agents!Rest \in Seq([of : Attempts, edge : Agents!Edges])
         /\ DOMAIN Agents!Rest = DOMAIN frames \ {Len(frames)}
         /\ \A k \in DOMAIN Agents!Rest : /\ Agents!Rest[k] = frames[k] /\ Agents!Rest[k].of # Agents!Top.of
                                   /\ Agents!Rest[k].of \in Attempts
         /\ fiber[Loop] # "gone"
  <1>1. Agents!TypeOK /\ frames # <<>> /\ frames \in Seq([of : Attempts, edge : Agents!Edges])
    BY DEF AgentsStand, Agents!TypeOK, Agents!Quiet
  <1>2. /\ Agents!Rest \in Seq([of : Attempts, edge : Agents!Edges])
        /\ DOMAIN Agents!Rest = DOMAIN frames \ {Len(frames)} /\ Len(frames) \in DOMAIN frames
        /\ \A k \in DOMAIN Agents!Rest : Agents!Rest[k] = frames[k]
    BY ONLY <1>1, PopOne DEF Agents!Rest
  <1>3. /\ \A k \in DOMAIN frames : frames[k].of \in Attempts /\ frames[k].edge \in Agents!Edges
        /\ Agents!Top = frames[Len(frames)]
    BY <1>1, Frames DEF Agents!Top
  <1>4. \A k \in DOMAIN frames : at[frames[k].of] = "publish" /\ disp[frames[k].of] = "no"
    BY DEF AgentsStand, StackPublishes
  <1>5. \A k \in DOMAIN Agents!Rest : Agents!Rest[k].of # Agents!Top.of /\ Agents!Rest[k].of \in Attempts
    BY <1>2, <1>3 DEF AgentsStand, StackPublishes
  <1>6. Agents!Top.of \in Attempts /\ at[Agents!Top.of] = "publish"
    BY <1>2, <1>3, <1>4
  <1>7. Agents!Prepared(Agents!Top.of)
    BY <1>6 DEF AgentsStand, EveryoneFits, Fits
  <1>8. fiber[Loop] # "gone"
    BY <1>6 DEF AgentsStand, LoopWaits, Agents!FactoryDone, Agents!Settled
  <1> QED
    BY <1>2, <1>3, <1>4, <1>5, <1>7, <1>8

(* The attempt whose announcement is in progress goes on to the next one,  *)
(* or leaves the stack: it is owned, or fails and is disposed.             *)
LEMMA TopStep ==
  ASSUME AgentsStand, NEW a \in Attempts, ~Agents!Quiet, a = Agents!Top.of,
         UNCHANGED <<call, follows, joined, live, departed, fiber, reloads>>,
         heard' \in {heard, heard \cup {<<"agent", a>>}},
         \/ /\ UNCHANGED <<at, aborted, disp, lent>>
            /\ \E w \in Agents!Edges : frames' = Append(Agents!Rest, [of |-> a, edge |-> w])
         \/ /\ at' = [at EXCEPT ![a] = "owned"] /\ Agents!Release(a) /\ frames' = Agents!Rest
            /\ UNCHANGED <<aborted, disp>>
         \/ /\ Agents!Fail(a) /\ frames' = Agents!Rest /\ UNCHANGED lent
  PROVE  AgentsStand'
  <1>1. /\ Agents!TypeOK /\ Fits(a) /\ a \in Agents!Fibers /\ a # Loop
        /\ at[a] = "publish" /\ disp[a] = "no" /\ Agents!Prepared(a) /\ fiber[Loop] # "gone"
        /\ Agents!Rest \in Seq([of : Attempts, edge : Agents!Edges])
        /\ \A k \in DOMAIN Agents!Rest : k \in DOMAIN frames /\ Agents!Rest[k] = frames[k] /\ Agents!Rest[k].of # a
                                  /\ Agents!Rest[k].of \in Attempts
    BY TopFacts, Apart DEF AgentsStand, EveryoneFits
  <1>2. Agents!TypeOK' /\ StackPublishes'
    <2>1. \A k \in DOMAIN Agents!Rest : at[Agents!Rest[k].of] = "publish" /\ disp[Agents!Rest[k].of] = "no"
      BY <1>1 DEF AgentsStand, StackPublishes
    <2>2. \A j, k \in DOMAIN Agents!Rest : Agents!Rest[j].of = Agents!Rest[k].of => j = k
      BY <1>1 DEF AgentsStand, StackPublishes
    <2>3. heard' \subseteq {"session", "agent"} \X Attempts /\ departed' \subseteq heard'
      BY <1>1 DEF Agents!TypeOK
    <2>4. CASE /\ UNCHANGED <<at, aborted, disp, lent>>
               /\ \E w \in Agents!Edges : frames' = Append(Agents!Rest, [of |-> a, edge |-> w])
      <3>1. PICK w \in Agents!Edges : frames' = Append(Agents!Rest, [of |-> a, edge |-> w])
        BY <2>4
      <3>2. PICK f \in [of : Attempts, edge : Agents!Edges] :
                f.of = a /\ frames' = Append(Agents!Rest, f)
        BY <3>1
      <3>3. /\ frames' \in Seq([of : Attempts, edge : Agents!Edges])
            /\ DOMAIN frames' = DOMAIN Agents!Rest \cup {Len(Agents!Rest) + 1}
            /\ \A k \in DOMAIN Agents!Rest : frames'[k] = Agents!Rest[k]
            /\ frames'[Len(Agents!Rest) + 1] = f
        BY <1>1, <3>2, PushOne
      <3>4. Agents!TypeOK'
        BY <1>1, <2>3, <2>4, <3>3 DEF Agents!TypeOK
      <3>5. \A k \in DOMAIN frames' : at'[frames'[k].of] = "publish" /\ disp'[frames'[k].of] = "no"
        BY <1>1, <2>1, <2>4, <3>2, <3>3
      <3>6. \A j, k \in DOMAIN frames' : frames'[j].of = frames'[k].of => j = k
        BY <1>1, <2>2, <3>2, <3>3
      <3> QED
        BY <3>4, <3>5, <3>6 DEF StackPublishes
    <2>5. CASE /\ at' = [at EXCEPT ![a] = "owned"] /\ Agents!Release(a) /\ frames' = Agents!Rest
               /\ UNCHANGED <<aborted, disp>>
      <3>1. Agents!TypeOK'
        BY <1>1, <2>3, <2>5 DEF Agents!TypeOK, Agents!Release
      <3> QED
        BY <1>1, <2>1, <2>2, <2>5, <3>1 DEF StackPublishes, Agents!TypeOK
    <2>6. CASE Agents!Fail(a) /\ frames' = Agents!Rest /\ UNCHANGED lent
      <3>1. /\ at' = [at EXCEPT ![a] = "failing"]
            /\ disp' = [disp EXCEPT ![a] = IF disp[a] = "no" THEN "draining" ELSE disp[a]]
            /\ aborted' = [aborted EXCEPT ![a] = aborted[a] \/ disp[a] = "no"]
        BY <1>1, <2>6, DisposeOne DEF Agents!Fail
      <3>2. Agents!TypeOK'
        BY <1>1, <2>3, <2>6, <3>1 DEF Agents!TypeOK
      <3> QED
        BY <1>1, <2>1, <2>2, <2>6, <3>1, <3>2 DEF StackPublishes, Agents!TypeOK
    <2> QED
      BY <2>4, <2>5, <2>6
  <1>3. /\ \A b \in Attempts \ {a} :
             at'[b] = at[b] /\ disp'[b] = disp[b] /\ aborted'[b] = aborted[b] /\ lent'[b] = lent[b]
        /\ \/ /\ at'[a] = "publish" /\ disp'[a] = "no" /\ aborted'[a] = aborted[a]
              /\ lent'[a] = lent[a]
           \/ at'[a] = "owned" /\ disp'[a] = "no" /\ aborted'[a] = aborted[a] /\ lent'[a] = "no"
           \/ at'[a] = "failing" /\ disp'[a] = "draining" /\ aborted'[a] /\ lent'[a] = lent[a]
    <2>1. CASE UNCHANGED <<at, aborted, disp, lent>>
      BY <1>1, <2>1
    <2>2. CASE at' = [at EXCEPT ![a] = "owned"] /\ Agents!Release(a) /\ UNCHANGED <<aborted, disp>>
      BY <1>1, <2>2 DEF Agents!Release, Agents!TypeOK
    <2>3. CASE Agents!Fail(a) /\ UNCHANGED lent
      <3>1. /\ at' = [at EXCEPT ![a] = "failing"]
            /\ disp' = [disp EXCEPT ![a] = IF disp[a] = "no" THEN "draining" ELSE disp[a]]
            /\ aborted' = [aborted EXCEPT ![a] = aborted[a] \/ disp[a] = "no"]
        BY <1>1, <2>3, DisposeOne DEF Agents!Fail
      <3> QED
        BY <1>1, <2>3, <3>1 DEF Agents!TypeOK
    <2> QED
      BY <2>1, <2>2, <2>3
  <1>4. EveryoneFits'
    <2> SUFFICES ASSUME NEW b \in Attempts PROVE Fits(b)'
      BY DEF EveryoneFits
    <2>1. CASE b = a
      BY <1>1, <1>3, <2>1 DEF Fits, Agents!Prepared
    <2>2. CASE b # a
      <3>1. Fits(b)
        BY DEF AgentsStand, EveryoneFits
      <3> QED
        BY <1>3, <2>2, <3>1 DEF Fits, Agents!Prepared
    <2> QED
      BY <2>1, <2>2
  <1>5. \A b \in Attempts : Standing(b) => Standing(b)'
    BY <1>3 DEF Standing
  <1>6. LiveStands'
    BY <1>5 DEF AgentsStand, LiveStands, Agents!Id
  <1>7. HeardStands'
    BY <1>1, <1>5 DEF AgentsStand, HeardStands, Standing
  <1>8. Agents!OneDriver'
    BY <1>1, <1>3 DEF AgentsStand, Agents!OneDriver, Agents!Id
  <1>9. LoopWaits'
    BY <1>1 DEF LoopWaits
  <1>10. Agents!OwnerGoneLeaving'
    BY <1>1, <1>3 DEF AgentsStand, Agents!OwnerGoneLeaving, Agents!Owner, Agents!Prepared
  <1>11. OwnersAreMeant'
    BY DEF AgentsStand, OwnersAreMeant, Agents!Owner
  <1> QED
    BY <1>2, <1>4, <1>6, <1>7, <1>8, <1>9, <1>10, <1>11 DEF AgentsStand

(* The announcement on top of the stack returns, or is vetoed.             *)
LEMMA AnnouncedStep ==
  ASSUME AgentsStand, Agents!Announced
  PROVE  AgentsStand'
  <1>1. PICK a \in Attempts : a = Agents!Top.of
    BY TopFacts DEF Agents!Announced
  <1>2. ~Agents!Quiet /\ UNCHANGED <<call, follows, joined, live, departed, fiber, reloads>>
    BY DEF Agents!Announced
  <1>3. CASE aborted[a]
    BY <1>1, <1>2, <1>3, TopStep DEF Agents!Announced
  <1>4. CASE ~aborted[a]
    <2>1. Agents!Top.edge \in {"session", "agent", "start"}
      BY <1>2, TopFacts DEF Agents!Edges
    <2>2. /\ Agents!Top.edge = "session" => /\ heard' = heard \cup {<<"agent", a>>}
                                     /\ frames' = Append(Agents!Rest, [of |-> a, edge |-> "agent"])
                                     /\ UNCHANGED <<at, lent>>
          /\ Agents!Top.edge = "agent" => /\ frames' = Append(Agents!Rest, [of |-> a, edge |-> "start"])
                                   /\ UNCHANGED <<at, heard, lent>>
          /\ Agents!Top.edge = "start" => /\ at' = [at EXCEPT ![a] = "owned"]
                                   /\ Agents!Release(a) /\ frames' = Agents!Rest /\ UNCHANGED heard
          /\ UNCHANGED <<aborted, disp>>
      BY <1>1, <1>4, <2>1 DEF Agents!Announced
    <2>3. "agent" \in Agents!Edges /\ "start" \in Agents!Edges
      BY DEF Agents!Edges
    <2>4. CASE Agents!Top.edge = "session"
      BY <1>1, <1>2, <2>2, <2>3, <2>4, TopStep
    <2>5. CASE Agents!Top.edge = "agent"
      BY <1>1, <1>2, <2>2, <2>3, <2>5, TopStep
    <2>6. CASE Agents!Top.edge = "start"
      BY <1>1, <1>2, <2>2, <2>6, TopStep
    <2> QED
      BY <2>1, <2>4, <2>5, <2>6
  <1> QED
    BY <1>3, <1>4

LEMMA VetoedStep ==
  ASSUME AgentsStand, Agents!Vetoed
  PROVE  AgentsStand'
  <1>1. PICK a \in Attempts : a = Agents!Top.of
    BY TopFacts DEF Agents!Vetoed
  <1> QED
    BY <1>1, TopStep DEF Agents!Vetoed

---------------------------------------------------------------------------
(* Teardown.                                                               *)

(* The end of an agent: both registries let go of it.                      *)
LEMMA UnwoundStep ==
  ASSUME AgentsStand, NEW a \in Attempts, Agents!Unwound(a)
  PROVE  AgentsStand'
  <1>1. /\ Agents!TypeOK /\ Fits(a) /\ frames = <<>> /\ disp[a] = "unwinding" /\ fiber[a] = "gone"
        /\ disp' = [disp EXCEPT ![a] = "done"] /\ follows' = follows \ {a}
        /\ departed' = departed \cup {h \in heard : h[2] = a}
        /\ live' = [i \in Ids |-> IF live[i] = a THEN None ELSE live[i]]
        /\ UNCHANGED <<call, aborted, joined, lent, heard, frames, fiber, reloads>>
    BY DEF AgentsStand, EveryoneFits, Agents!Unwound, Agents!Leave, Agents!AnnouncedEdges,
       Agents!Quiet
  <1>2. at' \in [Attempts -> {"none", "waiting", "released", "loading", "loaded", "missing",
                              "setup", "composed", "publish", "owned", "failing", "rejected"}]
    BY <1>1 DEF Agents!Unwound, Agents!TypeOK
  <1>3. \A b \in Attempts : at'[b] = at[b] \/ (at[b] = "waiting" /\ at'[b] = "released")
    BY DEF Agents!Unwound
  <1>4. /\ disp'[a] = "done" /\ \A b \in Attempts \ {a} : disp'[b] = disp[b]
        /\ \A i \in Ids : live'[i] = (IF live[i] = a THEN None ELSE live[i])
    BY <1>1 DEF Agents!TypeOK
  <1>5. Agents!TypeOK'
    BY <1>1, <1>2 DEF Agents!TypeOK
  <1>6. EveryoneFits'
    <2> SUFFICES ASSUME NEW b \in Attempts PROVE Fits(b)'
      BY DEF EveryoneFits
    <2>1. Fits(b)
      BY DEF AgentsStand, EveryoneFits
    <2>2. CASE b = a
      BY <1>1, <1>3, <1>4, <2>1, <2>2 DEF Fits, Agents!Prepared
    <2>3. CASE b # a
      BY <1>1, <1>3, <1>4, <2>1, <2>3 DEF Fits, Agents!Prepared
    <2> QED
      BY <2>2, <2>3
  <1>7. \A b \in Attempts : Standing(b) /\ b # a => Standing(b)'
    BY <1>3, <1>4 DEF Standing
  <1>8. LiveStands'
    <2> SUFFICES ASSUME NEW i \in Ids, NEW b \in Attempts, live'[i] = b
                 PROVE  i = Agents!Id(b)' /\ Standing(b)'
      BY DEF LiveStands
    <2>1. live[i] = b /\ b # a
      BY <1>4, Apart
    <2> QED
      BY <1>1, <1>7, <2>1 DEF AgentsStand, LiveStands, Agents!Id
  <1>9. HeardStands'
    BY <1>1, <1>7 DEF AgentsStand, HeardStands
  <1>10. Agents!OneDriver'
    <2> SUFFICES ASSUME NEW b \in Attempts,
                        at'[b] \in {"publish", "owned"}, disp'[b] \in {"no", "draining"}
                 PROVE  live'[call'[b].id] = b
      BY DEF Agents!OneDriver, Agents!Id
    <2>1. b # a /\ at[b] \in {"publish", "owned"} /\ disp[b] \in {"no", "draining"}
      BY <1>3, <1>4
    <2>2. live[Agents!Id(b)] = b /\ Agents!Id(b) \in Ids
      BY <1>1, <2>1 DEF AgentsStand, Agents!OneDriver, Agents!TypeOK, Agents!Calls, Agents!Id
    <2> QED
      BY <1>1, <1>4, <2>1, <2>2 DEF Agents!Id
  <1>11. StackPublishes'
    BY <1>1 DEF StackPublishes
  <1>12. LoopWaits'
    <2>1. fiber[Loop] # "gone"
      BY <1>1 DEF AgentsStand, LoopWaits, Agents!FactoryDone, Fits
    <2> QED
      BY <1>1, <2>1 DEF LoopWaits
  <1>13. Agents!OwnerGoneLeaving'
    BY <1>1, <1>3 DEF AgentsStand, Agents!OwnerGoneLeaving, Agents!Owner, Agents!Prepared
  <1>14. OwnersAreMeant'
    BY <1>1 DEF AgentsStand, OwnersAreMeant, Agents!Owner
  <1> QED
    BY <1>5, <1>6, <1>8, <1>9, <1>10, <1>11, <1>12, <1>13, <1>14 DEF AgentsStand

(* The provider aborts the loads and disposes the agents.                  *)
LEMMA FactoryEffectStep ==
  ASSUME AgentsStand, Agents!FactoryEffect
  PROVE  AgentsStand'
  <1>1. /\ Agents!TypeOK /\ frames = <<>> /\ fiber[Loop] = "unloading"
        /\ UNCHANGED <<call, at, follows, joined, lent, live, heard, departed, frames, fiber,
                       reloads>>
    BY DEF AgentsStand, Agents!FactoryEffect, Agents!Quiet
  <1>2. \A b \in Attempts :
          /\ disp'[b] = (IF b \in Agents!Agents THEN "draining" ELSE disp[b])
          /\ aborted'[b] <=> aborted[b] \/ b \in Agents!Loads \cup Agents!Agents
    BY DEF Agents!FactoryEffect
  <1>3. Agents!TypeOK'
    BY <1>1 DEF Agents!TypeOK, Agents!FactoryEffect
  <1>4. \A b \in Agents!Agents : Agents!Prepared(b) /\ disp[b] = "no"
    BY DEF Agents!Agents
  <1>5. EveryoneFits'
    <2> SUFFICES ASSUME NEW b \in Attempts PROVE Fits(b)'
      BY DEF EveryoneFits
    <2>1. Fits(b)
      BY DEF AgentsStand, EveryoneFits
    <2> QED
      BY <1>1, <1>2, <1>4, <2>1 DEF Fits, Agents!Prepared
  <1>6. \A b \in Attempts : Standing(b) => Standing(b)'
    BY <1>1, <1>2 DEF Standing
  <1>7. LiveStands' /\ HeardStands'
    BY <1>1, <1>6 DEF AgentsStand, LiveStands, HeardStands, Agents!Id
  <1>8. Agents!OneDriver'
    BY <1>1, <1>2, <1>4 DEF AgentsStand, Agents!OneDriver, Agents!Id
  <1>9. StackPublishes' /\ LoopWaits' /\ OwnersAreMeant'
    BY <1>1 DEF AgentsStand, StackPublishes, LoopWaits, OwnersAreMeant, Agents!Owner
  <1>10. Agents!OwnerGoneLeaving'
    BY <1>1, <1>2 DEF AgentsStand, Agents!OwnerGoneLeaving, Agents!Owner, Agents!Prepared
  <1> QED
    BY <1>3, <1>5, <1>7, <1>8, <1>9, <1>10 DEF AgentsStand

(* A fiber changes, and nothing else: it begins to unload, or is gone once *)
(* its disposers have settled, or the provider is loaded again.            *)
LEMMA FiberStep ==
  ASSUME AgentsStand, NEW p \in Agents!Fibers, Agents!TypeOK',
         UNCHANGED <<call, at, aborted, disp, follows, joined, lent, live, heard, departed, frames>>,
         \A q \in Agents!Fibers \ {p} : fiber'[q] = fiber[q],
         p \in Attempts => fiber[p] = "unloading" /\ fiber'[p] = "gone",
         fiber'[p] = "gone" => \A a \in Attempts : Agents!Owner(a) = p => a \notin follows,
         fiber'[p] = "gone" /\ p = Loop => Agents!FactoryDone
  PROVE  AgentsStand'
  <1>1. /\ Agents!TypeOK /\ \A a \in Attempts : Agents!Owner(a) \in Agents!Fibers
        /\ \A a \in Attempts : fiber'[a] = fiber[a] \/ (fiber[a] = "unloading" /\ fiber'[a] = "gone")
    BY Apart DEF AgentsStand, Agents!TypeOK, Agents!Calls, Agents!Owner
  <1>2. EveryoneFits'
    <2> SUFFICES ASSUME NEW b \in Attempts PROVE Fits(b)'
      BY DEF EveryoneFits
    <2>1. Fits(b)
      BY DEF AgentsStand, EveryoneFits
    <2> QED
      BY <1>1, <2>1 DEF Fits, Agents!Prepared
  <1>3. LiveStands' /\ HeardStands' /\ Agents!OneDriver' /\ StackPublishes' /\ OwnersAreMeant'
    BY DEF AgentsStand, LiveStands, HeardStands, Agents!OneDriver, StackPublishes, OwnersAreMeant,
       Standing,
       Agents!Id, Agents!Owner
  <1>4. LoopWaits'
    <2>1. fiber'[Loop] = "gone" => Agents!FactoryDone
      BY Apart DEF AgentsStand, LoopWaits
    <2> QED
      BY <1>1, <2>1 DEF LoopWaits, Agents!FactoryDone, Agents!Prepared
  <1>5. Agents!OwnerGoneLeaving'
    <2> SUFFICES ASSUME NEW b \in Attempts, at[b] # "none", fiber'[Agents!Owner(b)] = "gone"
                 PROVE  at[b] \in {"rejected", "failing"} \/ aborted[b] \/ ~Agents!Prepared(b)'
      BY DEF Agents!OwnerGoneLeaving, Agents!Owner
    <2>1. Agents!Prepared(b)' => Agents!Prepared(b)
      BY <1>1 DEF Agents!Prepared
    <2>2. CASE Agents!Owner(b) = p
      BY <2>1, <2>2 DEF AgentsStand, EveryoneFits, Fits
    <2>3. CASE Agents!Owner(b) # p
      BY <1>1, <2>1, <2>3 DEF AgentsStand, Agents!OwnerGoneLeaving
    <2> QED
      BY <2>2, <2>3
  <1> QED
    BY <1>2, <1>3, <1>4, <1>5 DEF AgentsStand

(* A fiber unloads: it disposes what it owns, then waits and is gone.      *)
LEMMA UnloadStep ==
  ASSUME AgentsStand, NEW p \in Agents!Fibers, Agents!Unload(p)
  PROVE  AgentsStand'
  <1>1. /\ p \notin Attempts /\ fiber' = [fiber EXCEPT ![p] = "unloading"] /\ Agents!TypeOK
        /\ UNCHANGED <<call, at, aborted, disp, follows, joined, lent, live, heard, departed,
                       frames, reloads>>
    BY DEF AgentsStand, Agents!Unload
  <1>2. fiber'[p] = "unloading" /\ \A q \in Agents!Fibers \ {p} : fiber'[q] = fiber[q]
    BY <1>1 DEF Agents!TypeOK
  <1>3. Agents!TypeOK'
    BY <1>1 DEF Agents!TypeOK
  <1> QED
    BY <1>1, <1>2, <1>3, FiberStep

LEMMA GoneStep ==
  ASSUME AgentsStand, NEW p \in Agents!Fibers, Agents!Gone(p)
  PROVE  AgentsStand'
  <1>1. /\ fiber[p] = "unloading" /\ fiber' = [fiber EXCEPT ![p] = "gone"] /\ Agents!TypeOK
        /\ \A a \in Attempts : Agents!Owner(a) = p => a \notin follows
        /\ p = Loop => Agents!FactoryDone
        /\ UNCHANGED <<call, at, aborted, disp, follows, joined, lent, live, heard, departed,
                       frames, reloads>>
    BY DEF AgentsStand, Agents!Gone
  <1>2. fiber'[p] = "gone" /\ \A q \in Agents!Fibers \ {p} : fiber'[q] = fiber[q]
    BY <1>1 DEF Agents!TypeOK
  <1>3. Agents!TypeOK'
    BY <1>1 DEF Agents!TypeOK
  <1> QED
    BY <1>1, <1>2, <1>3, FiberStep

LEMMA ReloadStep ==
  ASSUME AgentsStand, Agents!Reload
  PROVE  AgentsStand'
  <1>1. /\ fiber' = [fiber EXCEPT ![Loop] = "active"] /\ Agents!TypeOK /\ Loop \in Agents!Fibers
        /\ reloads' = reloads + 1 /\ reloads < MaxReloads /\ Loop \notin Attempts
        /\ UNCHANGED <<call, at, aborted, disp, follows, joined, lent, live, heard, departed, frames>>
    BY Apart DEF AgentsStand, Agents!Reload
  <1>2. fiber'[Loop] = "active" /\ \A q \in Agents!Fibers \ {Loop} : fiber'[q] = fiber[q]
    BY <1>1 DEF Agents!TypeOK
  <1>3. Agents!TypeOK'
    BY <1>1, Apart DEF Agents!TypeOK
  <1> QED
    BY <1>1, <1>2, <1>3, FiberStep

---------------------------------------------------------------------------
(* The invariant and what it implies.                                      *)

(* The invariant holds at the start and every step keeps it.               *)
LEMMA InitStands ==
  ASSUME Agents!Init
  PROVE  AgentsStand
  <1>1. Agents!TypeOK
    <2>1. fiber \in [Agents!Fibers -> {"none", "active", "unloading", "gone"}]
      BY DEF Agents!Init
    <2>2. reloads \in 0 .. MaxReloads
      BY Apart DEF Agents!Init
    <2>3. frames \in Seq([of : Attempts, edge : Agents!Edges])
      BY DEF Agents!Init
    <2> QED
      BY <2>1, <2>2, <2>3 DEF Agents!Init, Agents!TypeOK
  <1>2. fiber[Loop] = "active" /\ \A a \in Attempts : fiber[a] = "none"
    BY Apart DEF Agents!Init
  <1>3. EveryoneFits
    BY <1>2 DEF Agents!Init, EveryoneFits, Fits, Agents!Prepared
  <1>4. DOMAIN frames = {} /\ \A i \in Ids : live[i] = None
    BY DEF Agents!Init
  <1>5. StackPublishes /\ LiveStands /\ HeardStands /\ Agents!OneDriver /\ LoopWaits
        /\ Agents!OwnerGoneLeaving /\ OwnersAreMeant
    BY <1>2, <1>4, Apart DEF Agents!Init, StackPublishes, LiveStands, HeardStands,
       Agents!OneDriver, LoopWaits,
       Agents!OwnerGoneLeaving, OwnersAreMeant
  <1> QED
    BY <1>1, <1>3, <1>5 DEF AgentsStand

LEMMA SameStands ==
  ASSUME AgentsStand, UNCHANGED Agents!vars
  PROVE  AgentsStand'
  <1>1. UNCHANGED <<call, at, aborted, disp, follows, joined, lent, live, heard, departed, frames,
                    fiber, reloads>>
    BY DEF Agents!vars
  <1>2. Agents!TypeOK'
    BY <1>1 DEF AgentsStand, Agents!TypeOK
  <1>3. EveryoneFits' /\ OwnersAreMeant' /\ Agents!OwnerGoneLeaving'
    BY <1>1 DEF AgentsStand, EveryoneFits, Fits, Agents!Prepared, OwnersAreMeant,
       Agents!OwnerGoneLeaving, Agents!Owner
  <1>4. StackPublishes' /\ LiveStands' /\ HeardStands' /\ Agents!OneDriver'
    BY <1>1 DEF AgentsStand, StackPublishes, LiveStands, HeardStands, Agents!OneDriver, Standing,
       Agents!Id
  <1>5. LoopWaits'
    BY <1>1 DEF AgentsStand, LoopWaits, Agents!FactoryDone, Agents!Prepared
  <1> QED
    BY <1>2, <1>3, <1>4, <1>5 DEF AgentsStand

LEMMA AttemptStep ==
  ASSUME AgentsStand, NEW a \in Attempts, Agents!Continue(a) \/ Agents!Teardown(a)
  PROVE  AgentsStand'
  BY PublishStep, LoadAbortedStep, AfterLoadStep, ListedStep, SettleStep, ConfiguredStep,
     SetupFailsStep, DrainedStep, UnwoundStep, OwnerEffectStep, ScopeEffectStep
     DEF Agents!Continue, Agents!Teardown

LEMMA StandsStep ==
  ASSUME AgentsStand, [Agents!Next]_(Agents!vars)
  PROVE  AgentsStand'
  <1>1. ASSUME NEW a \in Attempts,
               \/ Agents!Create(a) \/ Agents!CreateAgent(a) \/ Agents!Resume(a) \/ Agents!Cancel(a) \/ Agents!DisposeHandle(a)
               \/ Agents!Loaded(a) \/ Agents!LoadFails(a) \/ Agents!LateLoad(a) \/ Agents!Composed(a) \/ Agents!SetupFails(a)
               \/ Agents!CommitFails(a) \/ Agents!Continue(a) \/ Agents!Teardown(a)
        PROVE  AgentsStand'
    BY <1>1, CreateStep, CreateAgentStep, ResumeStep, CancelStep, DisposeHandleStep, LoadedStep,
       LoadFailsStep, LateLoadStep, ComposedStep, SetupFailsStep, CommitFailsStep, AttemptStep
  <1>2. ASSUME Agents!Announced \/ Agents!Vetoed \/ Agents!FactoryEffect \/ Agents!Reload
        PROVE  AgentsStand'
    BY <1>2, AnnouncedStep, VetoedStep, FactoryEffectStep, ReloadStep
  <1>3. ASSUME NEW p \in Agents!Fibers, Agents!Unload(p) \/ Agents!Gone(p)
        PROVE  AgentsStand'
    BY <1>3, UnloadStep, GoneStep
  <1> QED
    BY <1>1, <1>2, <1>3, SameStands DEF Agents!Next

(* What the invariant says of the end of attempts, agents and fibers.      *)
LEMMA EndsLeaveNothing ==
  ASSUME AgentsStand
  PROVE  Agents!NothingLeft /\ Agents!ProviderGone
  <1>1. Agents!NothingLeft
    <2> SUFFICES ASSUME NEW a \in Attempts,
                        at[a] = "rejected" \/ (at[a] = "owned" /\ disp[a] = "done")
                 PROVE  /\ \A i \in Ids : live[i] # a
                        /\ lent[a] # "held" /\ a \notin follows
                        /\ fiber[a] \in {"none", "gone"}
                        /\ {h \in heard : h[2] = a} \subseteq departed
      BY DEF Agents!NothingLeft
    <2>1. ~Standing(a) /\ Fits(a)
      BY DEF Standing, AgentsStand, EveryoneFits
    <2>2. \A i \in Ids : live[i] # a
      BY <2>1 DEF AgentsStand, LiveStands
    <2>3. lent[a] # "held" /\ a \notin follows /\ fiber[a] \in {"none", "gone"}
      BY <2>1 DEF Fits, Agents!Prepared
    <2>4. {h \in heard : h[2] = a} \subseteq departed
      BY <2>1 DEF AgentsStand, Agents!TypeOK, HeardStands
    <2> QED
      BY <2>2, <2>3, <2>4
  <1>2. Agents!ProviderGone
    <2> SUFFICES ASSUME fiber[Loop] = "gone"
                 PROVE  /\ \A i \in Ids : live[i] = None
                        /\ \A a \in Attempts : at[a] = "owned" => disp[a] = "done"
      BY DEF Agents!ProviderGone
    <2>1. \A a \in Attempts : /\ at[a] \in {"owned", "rejected", "none"}
                              /\ Agents!Prepared(a) => disp[a] = "done"
      BY DEF AgentsStand, LoopWaits, Agents!FactoryDone, Agents!Settled
    <2>2. \A a \in Attempts : at[a] = "owned" => disp[a] = "done"
      BY <2>1 DEF AgentsStand, EveryoneFits, Fits
    <2>3. \A a \in Attempts : ~Standing(a)
      BY <2>1, <2>2 DEF Standing
    <2> QED
      BY <2>2, <2>3 DEF AgentsStand, Agents!TypeOK, LiveStands
  <1> QED
    BY <1>1, <1>2

(* The invariant of the attempts holds in every reachable state, whoever   *)
(* cancels, unloads or disposes, and in the middle of whichever call.      *)
THEOREM AgentsInductive == Agents!Spec => []AgentsStand
  <1>1. Agents!Init => AgentsStand
    BY InitStands
  <1>2. AgentsStand /\ [Agents!Next]_(Agents!vars) => AgentsStand'
    BY StandsStep
  <1> QED
    BY <1>1, <1>2, PTL DEF Agents!Spec

---------------------------------------------------------------------------
(* What the run of the lifecycles checks.                                  *)

(* The run looks at sessions or at agents: for every choice and all        *)
(* constants, the audience of a session is served in each of its states    *)
(* (core/session/src/index.ts, append, announce and detach).               *)
THEOREM AudienceStaysServed == MCSpec => []AudienceIsServed
  <1>1. MCInit => IInv
    BY InitIInv DEF MCInit
  <1>2. IInv /\ [MCNext]_<<registry, vars, agents>> => IInv'
    <2>1. [MCNext]_<<registry, vars, agents>> => [Next]_vars
      BY DEF MCNext
    <2> QED
      BY <2>1, InvariantStep
  <1>3. IInv => AudienceIsServed
    BY UnwoundIsServed DEF IInv, AudienceIsServed
  <1> QED
    BY <1>1, <1>2, <1>3, PTL DEF MCSpec

(* It holds as well in every state of the run, which takes turns.          *)
LEMMA AgentsBehave == MCSpec => []AgentsStand
  <1>1. MCInit => AgentsStand
    BY InitStands DEF MCInit
  <1>2. AgentsStand /\ [MCNext]_<<registry, vars, agents>> => AgentsStand'
    <2>1. [MCNext]_<<registry, vars, agents>> => [Agents!Next]_(Agents!vars)
      BY DEF MCNext, agents, Agents!vars
    <2> QED
      BY <2>1, StandsStep
  <1> QED
    BY <1>1, <1>2, PTL DEF MCSpec

(* An agent that was announced stays the registered one of its id until    *)
(* its driver has drained, whoever disposes it (core/agent-loop/src/       *)
(* index.ts): a session is never driven by two.                            *)
THEOREM DriversStayAlone == MCSpec => []OneDriver
  <1>1. AgentsStand => OneDriver
    BY DEF AgentsStand, OneDriver
  <1> QED
    BY <1>1, AgentsBehave, PTL

(* The end of an attempt, of an agent, of an owner and of the provider     *)
(* leaves no entry, reservation, effect, scope or unanswered announcement. *)
THEOREM NothingStaysLeft == MCSpec => []NothingIsLeft
  <1>1. AgentsStand => NothingIsLeft
    BY EndsLeaveNothing DEF AgentsStand, NothingIsLeft
  <1> QED
    BY <1>1, AgentsBehave, PTL
=============================================================================
