-------------------------- MODULE CompactionProofs --------------------------
(***************************************************************************)
(* Proofs about Compaction for any budgets, any number of turns, answers,  *)
(* other clients, failures and lives: the lock has an owner, transactions  *)
(* do not nest, what was reported is stored, the surface is the log's, and *)
(* a checkpoint replaces what its summary was made from.                   *)
(***************************************************************************)
EXTENDS Compaction, Integers, SequenceTheorems, FiniteSetTheorems, WellFoundedInduction,
        NaturalsInduction, TLAPS

---------------------------------------------------------------------------
(* Lists: sequences of anything.                                           *)

IsList(l) == \E S : l \in Seq(S)

(* A list is its entries, in their number.                                 *)
LEMMA ListFacts ==
  ASSUME NEW l, IsList(l)
  PROVE  Len(l) \in Nat /\ DOMAIN l = 1 .. Len(l) /\ l = [i \in 1 .. Len(l) |-> l[i]]
  <1>1. PICK S : l \in Seq(S)
    BY DEF IsList
  <1> QED
    BY <1>1, LenProperties

(* What is given entry by entry is a list.                                 *)
LEMMA ListGiven ==
  ASSUME NEW n \in Nat, NEW l, DOMAIN l = 1 .. n, l = [i \in 1 .. n |-> l[i]]
  PROVE  IsList(l) /\ Len(l) = n
  <1>1. l \in [1 .. n -> {l[i] : i \in 1 .. n}]
    OBVIOUS
  <1>2. l \in Seq({l[i] : i \in 1 .. n})
    BY <1>1, SeqDef
  <1>3. Len(l) \in Nat /\ DOMAIN l = 1 .. Len(l)
    BY <1>2, LenProperties
  <1>4. 1 .. Len(l) = 1 .. n
    BY <1>3
  <1>5. Len(l) = n
    <2>1. Len(l) = 0 \/ Len(l) \in 1 .. n
      BY <1>3, <1>4
    <2>2. n = 0 \/ n \in 1 .. Len(l)
      BY <1>3, <1>4
    <2> QED
      BY <1>3, <2>1, <2>2
  <1> QED
    BY <1>2, <1>5 DEF IsList

(* Two lists in one.                                                       *)
LEMMA ListConcat ==
  ASSUME NEW l, NEW m, IsList(l), IsList(m)
  PROVE  /\ IsList(l \o m) /\ Len(l \o m) = Len(l) + Len(m)
         /\ \A i \in 1 .. Len(l) : (l \o m)[i] = l[i]
         /\ \A i \in 1 .. Len(m) : (l \o m)[Len(l) + i] = m[i]
  <1>1. PICK S : l \in Seq(S)
    BY DEF IsList
  <1>2. PICK T : m \in Seq(T)
    BY DEF IsList
  <1>3. l \in Seq(S \cup T) /\ m \in Seq(S \cup T)
    <2>1. l \in [1 .. Len(l) -> S] /\ m \in [1 .. Len(m) -> T] /\ Len(l) \in Nat /\ Len(m) \in Nat
      BY <1>1, <1>2, LenProperties
    <2>2. l \in [1 .. Len(l) -> S \cup T] /\ m \in [1 .. Len(m) -> S \cup T]
      BY <2>1
    <2> QED
      BY <2>1, <2>2, SeqDef
  <1>4. l \o m \in Seq(S \cup T) /\ Len(l \o m) = Len(l) + Len(m)
    BY <1>3, ConcatProperties
  <1>5. Len(l) \in Nat /\ Len(m) \in Nat
    BY <1>1, <1>2, LenProperties
  <1>6. ASSUME NEW i \in 1 .. Len(l) PROVE (l \o m)[i] = l[i]
    BY <1>3, <1>5, ConcatProperties
  <1>7. ASSUME NEW i \in 1 .. Len(m) PROVE (l \o m)[Len(l) + i] = m[i]
    <2>1. Len(l) + i \in 1 .. Len(l) + Len(m) /\ ~(Len(l) + i <= Len(l))
          /\ (Len(l) + i) - Len(l) = i
      BY <1>5
    <2> QED
      BY <1>3, <2>1, ConcatProperties
  <1> QED
    BY <1>4, <1>6, <1>7 DEF IsList

(* A short list, and one more entry.                                       *)
LEMMA ListOfOne ==
  ASSUME NEW e
  PROVE  IsList(<<e>>) /\ Len(<<e>>) = 1 /\ <<e>>[1] = e
  <1>1. <<e>> \in Seq({e})
    OBVIOUS
  <1> QED
    BY <1>1 DEF IsList

(* A list with one more entry.                                             *)
LEMMA ListAppend ==
  ASSUME NEW l, NEW e, IsList(l)
  PROVE  /\ IsList(Append(l, e)) /\ Len(Append(l, e)) = Len(l) + 1
         /\ \A i \in 1 .. Len(l) : Append(l, e)[i] = l[i]
         /\ Append(l, e)[Len(l) + 1] = e /\ Append(l, e) = l \o <<e>>
  <1>1. PICK S : l \in Seq(S)
    BY DEF IsList
  <1>2. l \in [1 .. Len(l) -> S] /\ Len(l) \in Nat
    BY <1>1, LenProperties
  <1>3. l \in [1 .. Len(l) -> S \cup {e}]
    BY <1>2
  <1>4. l \in Seq(S \cup {e}) /\ e \in S \cup {e}
    BY <1>2, <1>3, SeqDef
  <1>5. Append(l, e) = l \o <<e>>
    BY <1>4, AppendIsConcat
  <1>6. IsList(<<e>>) /\ Len(<<e>>) = 1 /\ <<e>>[1] = e
    BY ListOfOne
  <1>7. /\ IsList(l \o <<e>>) /\ Len(l \o <<e>>) = Len(l) + Len(<<e>>)
        /\ \A i \in 1 .. Len(l) : (l \o <<e>>)[i] = l[i]
        /\ \A i \in 1 .. Len(<<e>>) : (l \o <<e>>)[Len(l) + i] = <<e>>[i]
    BY <1>6, ListConcat
  <1>8. (l \o <<e>>)[Len(l) + 1] = e
    BY <1>6, <1>7
  <1> QED
    BY <1>5, <1>6, <1>7, <1>8

(* The first entries of a list.                                            *)
LEMMA ListPrefix ==
  ASSUME NEW l, IsList(l), NEW k \in 0 .. Len(l)
  PROVE  /\ IsList(SubSeq(l, 1, k)) /\ Len(SubSeq(l, 1, k)) = k
         /\ \A i \in 1 .. k : SubSeq(l, 1, k)[i] = l[i]
  <1>1. PICK S : l \in Seq(S)
    BY DEF IsList
  <1>2. Len(l) \in Nat /\ k \in Nat /\ k <= Len(l)
    BY <1>1, LenProperties
  <1>3. \A i \in 1 .. k : l[i] \in S
    BY <1>1, <1>2, ElementOfSeq
  <1>4. /\ SubSeq(l, 1, k) \in Seq(S)
        /\ Len(SubSeq(l, 1, k)) = IF 1 <= k THEN k - 1 + 1 ELSE 0
        /\ \A i \in 1 .. (k - 1 + 1) : SubSeq(l, 1, k)[i] = l[1 + i - 1]
    BY <1>1, <1>2, <1>3, SubSeqProperties
  <1>5. Len(SubSeq(l, 1, k)) = k
    BY <1>2, <1>4
  <1>6. ASSUME NEW i \in 1 .. k PROVE SubSeq(l, 1, k)[i] = l[i]
    <2>1. i \in 1 .. (k - 1 + 1) /\ 1 + i - 1 = i
      BY <1>2
    <2> QED
      BY <1>4, <2>1
  <1> QED
    BY <1>4, <1>5, <1>6 DEF IsList

(* Lists of the same entries are the same.                                 *)
LEMMA ListsEqual ==
  ASSUME NEW l, NEW m, IsList(l), IsList(m), Len(l) = Len(m),
         \A i \in 1 .. Len(l) : l[i] = m[i]
  PROVE  l = m
  <1>1. l = [i \in 1 .. Len(l) |-> l[i]] /\ m = [i \in 1 .. Len(m) |-> m[i]]
    BY ListFacts
  <1> QED
    BY <1>1

---------------------------------------------------------------------------
(* The least and the greatest.                                             *)

(* A set of numbers that is not empty has a least one.                     *)
LEMMA LeastIs ==
  ASSUME NEW S, S # {}, S \subseteq Nat
  PROVE  \E x \in S : \A y \in S : x <= y
  <1> DEFINE R == OpToRel(<, Nat)
  <1>1. IsWellFoundedOn(R, Nat)
    BY NatLessThanWellFounded
  <1>2. \A x, y \in Nat : x < y => <<x, y>> \in R
    BY DEF OpToRel
  <1> HIDE DEF R
  <1>3. PICK x \in S : \A y \in S : ~(<<y, x>> \in R)
    BY <1>1, WFMin
  <1>4. ASSUME NEW y \in S PROVE x <= y
    <2>1. x \in Nat /\ y \in Nat
      OBVIOUS
    <2>2. ~(y < x)
      BY <2>1, <1>2, <1>3
    <2> QED
      BY <2>1, <2>2
  <1> QED
    BY <1>3, <1>4

(* The last of some positions, or 0.                                       *)
LEMMA LastIs ==
  ASSUME NEW n \in Nat, NEW S, S \subseteq 1 .. n
  PROVE  /\ Last0(S) \in S \cup {0} /\ \A j \in S : j <= Last0(S)
         /\ Last0(S) \in Nat /\ Last0(S) <= n
  <1> DEFINE U == {b \in Nat : \A j \in S : j <= b}
  <1>1. U \subseteq Nat /\ n \in U
    OBVIOUS
  <1>2. PICK b \in U : \A y \in U : b <= y
    BY <1>1, LeastIs
  <1>3. b \in S \cup {0}
    <2>1. SUFFICES ASSUME b \notin S, b # 0 PROVE FALSE
      OBVIOUS
    <2>2. b - 1 \in Nat /\ ~(b <= b - 1)
      BY <2>1, <1>2
    <2>3. ASSUME NEW j \in S PROVE j <= b - 1
      <3>1. j <= b /\ j # b /\ j \in Nat /\ b \in Nat
        BY <1>2, <2>1
      <3> QED
        BY <3>1
    <2>4. b - 1 \in U
      BY <2>2, <2>3
    <2> QED
      BY <2>2, <2>4, <1>2
  <1>4. \A j \in S : j <= b
    BY <1>2
  <1>5. Last0(S) \in S \cup {0} /\ \A j \in S : j <= Last0(S)
    BY <1>3, <1>4 DEF Last0
  <1>6. ASSUME NEW x \in S \cup {0} PROVE x \in Nat /\ x <= n
    <2>1. x \in 1 .. n \/ x = 0
      OBVIOUS
    <2> QED
      BY <2>1
  <1> QED
    BY <1>5, <1>6

(* ... which nothing else is.                                              *)
LEMMA LastOnly ==
  ASSUME NEW n \in Nat, NEW S, S \subseteq 1 .. n, NEW b \in S \cup {0}, \A j \in S : j <= b
  PROVE  Last0(S) = b
  <1>1. Last0(S) \in S \cup {0} /\ \A j \in S : j <= Last0(S)
    BY LastIs
  <1>2. ASSUME NEW x \in S \cup {0} PROVE x \in Nat
    <2>1. x \in 1 .. n \/ x = 0
      OBVIOUS
    <2> QED
      BY <2>1
  <1>3. b \in Nat /\ Last0(S) \in Nat
    BY <1>1, <1>2
  <1>4. b <= Last0(S) /\ Last0(S) <= b
    BY <1>1, <1>3
  <1> QED
    BY <1>3, <1>4

---------------------------------------------------------------------------
(* The surface that a log makes, event by event.                           *)

(* The surfaces on the way from event n to event m.                        *)
Trace(s, surface, l, n, m) ==
  s = [i \in n .. m |-> IF i = n THEN surface ELSE Applied(s[i - 1], l, i)]

(* There is one.                                                           *)
LEMMA TraceExists ==
  ASSUME NEW surface, NEW l, NEW n \in Nat, NEW m \in Nat, n <= m
  PROVE  \E s : Trace(s, surface, l, n, m)
  <1> DEFINE Bad == {k \in Nat : n <= k /\ k <= m /\ ~\E s : Trace(s, surface, l, n, k)}
  <1>1. SUFFICES ASSUME Bad # {} PROVE FALSE
    OBVIOUS
  <1>2. PICK k \in Bad : \A y \in Bad : k <= y
    BY <1>1, LeastIs
  <1>3. k \in Nat /\ n <= k /\ k <= m /\ ~\E s : Trace(s, surface, l, n, k)
    BY <1>2
  <1>4. CASE k = n
    <2>1. PICK s : s = [i \in n .. n |-> surface]
      OBVIOUS
    <2>2. \A i \in n .. n : i = n
      OBVIOUS
    <2>3. s = [i \in n .. n |-> IF i = n THEN surface ELSE Applied(s[i - 1], l, i)]
      BY <2>1, <2>2
    <2> QED
      BY <1>3, <1>4, <2>3 DEF Trace
  <1>5. CASE k # n
    <2>1. k - 1 \in Nat /\ n <= k - 1 /\ k - 1 <= m /\ ~(k <= k - 1)
      BY <1>3, <1>5
    <2>2. k - 1 \notin Bad
      BY <1>2, <2>1
    <2>3. PICK s : Trace(s, surface, l, n, k - 1)
      BY <2>1, <2>2
    <2>4. s = [i \in n .. k - 1 |-> IF i = n THEN surface ELSE Applied(s[i - 1], l, i)]
      BY <2>3 DEF Trace
    <2>5. PICK t : t = [i \in n .. k |-> IF i = k THEN Applied(s[k - 1], l, k) ELSE s[i]]
      OBVIOUS
    <2>6. \A i \in n .. k : i = k \/ (i \in n .. k - 1 /\ i # k)
      BY <1>3
    <2>7. ASSUME NEW i \in n .. k - 1 PROVE t[i] = s[i]
      <3>1. i \in n .. k /\ i # k
        BY <1>3, <2>1
      <3> QED
        BY <2>5, <3>1
    <2>8. ASSUME NEW i \in n .. k
          PROVE  t[i] = IF i = n THEN surface ELSE Applied(t[i - 1], l, i)
      <3>1. CASE i = k
        <4>1. k - 1 \in n .. k - 1
          BY <2>1
        <4>2. t[k] = Applied(s[k - 1], l, k)
          BY <2>5, <3>1
        <4> QED
          BY <1>5, <2>7, <3>1, <4>1, <4>2
      <3>2. CASE i # k
        <4>1. i \in n .. k - 1
          BY <2>6, <3>2
        <4>2. t[i] = IF i = n THEN surface ELSE Applied(s[i - 1], l, i)
          BY <2>4, <2>7, <4>1
        <4>3. CASE i # n
          <5>1. i - 1 \in n .. k - 1
            BY <2>1, <4>1, <4>3
          <5> QED
            BY <2>7, <4>2, <4>3, <5>1
        <4> QED
          BY <4>2, <4>3
      <3> QED
        BY <3>1, <3>2
    <2>9. DOMAIN t = n .. k /\ t = [i \in n .. k |-> t[i]]
      BY <2>5
    <2>10. t = [i \in n .. k |-> IF i = n THEN surface ELSE Applied(t[i - 1], l, i)]
      BY <2>8, <2>9
    <2> QED
      BY <1>3, <2>10 DEF Trace
  <1> QED
    BY <1>4, <1>5

(* Two of them agree as far as their logs do.                              *)
LEMMA TracesAgree ==
  ASSUME NEW surface, NEW s, NEW t, NEW l, NEW u, NEW n \in Nat, NEW m \in Nat, NEW k \in Nat,
         n <= m, m <= k, Trace(s, surface, l, n, m), Trace(t, surface, u, n, k),
         \A i \in 1 .. m : l[i] = u[i]
  PROVE  \A i \in n .. m : s[i] = t[i]
  <1> DEFINE Bad == {i \in Nat : i \in n .. m /\ s[i] # t[i]}
  <1>1. SUFFICES ASSUME Bad # {} PROVE FALSE
    OBVIOUS
  <1>2. PICK i \in Bad : \A y \in Bad : i <= y
    BY <1>1, LeastIs
  <1>3. i \in Nat /\ i \in n .. m /\ i \in n .. k /\ s[i] # t[i]
    BY <1>2
  <1>4. /\ s[i] = IF i = n THEN surface ELSE Applied(s[i - 1], l, i)
        /\ t[i] = IF i = n THEN surface ELSE Applied(t[i - 1], u, i)
    BY <1>3 DEF Trace
  <1>5. i # n
    BY <1>3, <1>4
  <1>6. i - 1 \in Nat /\ i - 1 \in n .. m /\ ~(i <= i - 1) /\ i \in 1 .. m
    BY <1>3, <1>5
  <1>7. i - 1 \notin Bad
    BY <1>2, <1>6
  <1>8. s[i - 1] = t[i - 1] /\ l[i] = u[i]
    BY <1>6, <1>7
  <1>9. Applied(s[i - 1], l, i) = Applied(t[i - 1], u, i)
    BY <1>8 DEF Applied
  <1> QED
    BY <1>3, <1>4, <1>5, <1>9

(* Advance is where it ends.                                               *)
LEMMA AdvanceIs ==
  ASSUME NEW surface, NEW l, IsList(l), NEW n \in 0 .. Len(l),
         NEW s, Trace(s, surface, l, n, Len(l))
  PROVE  Advance(surface, l, n) = s[Len(l)]
  <1>1. Len(l) \in Nat /\ n \in Nat /\ n <= Len(l)
    BY ListFacts
  <1> DEFINE T(t) == t = [i \in n .. Len(l) |-> IF i = n THEN surface ELSE Applied(t[i - 1], l, i)]
  <1>2. PICK c : c = CHOOSE t : T(t)
    OBVIOUS
  <1>3. T(s)
    BY DEF Trace
  <1>4. T(c)
    BY <1>2, <1>3
  <1>5. Trace(c, surface, l, n, Len(l))
    BY <1>4 DEF Trace
  <1>6. \A i \in n .. Len(l) : s[i] = c[i]
    BY <1>1, <1>5, TracesAgree
  <1>7. Advance(surface, l, n) = c[Len(l)]
    BY <1>2 DEF Advance
  <1>8. Len(l) \in n .. Len(l)
    BY <1>1
  <1> QED
    BY <1>6, <1>7, <1>8

(* No event leaves the surface as it is.                                   *)
LEMMA AdvanceHere ==
  ASSUME NEW surface, NEW l, IsList(l)
  PROVE  Advance(surface, l, Len(l)) = surface
  <1>1. Len(l) \in Nat /\ Len(l) \in 0 .. Len(l) /\ Len(l) <= Len(l)
    BY ListFacts
  <1>2. PICK s : Trace(s, surface, l, Len(l), Len(l))
    BY <1>1, TraceExists
  <1>3. Advance(surface, l, Len(l)) = s[Len(l)]
    BY <1>1, <1>2, AdvanceIs
  <1>4. Len(l) \in Len(l) .. Len(l)
    BY <1>1
  <1>5. s[Len(l)] = surface
    BY <1>2, <1>4 DEF Trace
  <1> QED
    BY <1>3, <1>5

(* One event more is applied to what was there.                            *)
LEMMA AdvanceAppend ==
  ASSUME NEW surface, NEW l, IsList(l), NEW n \in 0 .. Len(l), NEW e
  PROVE  Advance(surface, Append(l, e), n)
           = Applied(Advance(surface, l, n), Append(l, e), Len(l) + 1)
  <1> DEFINE u == Append(l, e)
  <1>1. Len(l) \in Nat /\ n \in Nat /\ n <= Len(l) /\ Len(l) + 1 \in Nat /\ n <= Len(l) + 1
    BY ListFacts
  <1>2. IsList(u) /\ Len(u) = Len(l) + 1 /\ \A i \in 1 .. Len(l) : u[i] = l[i]
    BY ListAppend
  <1> HIDE DEF u
  <1>3. PICK s : Trace(s, surface, l, n, Len(l))
    BY <1>1, TraceExists
  <1>4. PICK t : Trace(t, surface, u, n, Len(u))
    BY <1>1, <1>2, TraceExists
  <1>5. Advance(surface, l, n) = s[Len(l)]
    BY <1>3, AdvanceIs
  <1>6. n \in 0 .. Len(u)
    BY <1>1, <1>2
  <1>7. Advance(surface, u, n) = t[Len(u)]
    BY <1>2, <1>4, <1>6, AdvanceIs
  <1>8. \A i \in 1 .. Len(l) : l[i] = u[i]
    BY <1>2
  <1>9. Len(l) <= Len(u) /\ Len(u) \in Nat
    BY <1>1, <1>2
  <1>10. \A i \in n .. Len(l) : s[i] = t[i]
    <2>1. PICK m : m = Len(l)
      OBVIOUS
    <2>2. PICK k : k = Len(u)
      OBVIOUS
    <2>3. n \in Nat /\ m \in Nat /\ k \in Nat /\ n <= m /\ m <= k
      BY <1>1, <1>9, <2>1, <2>2
    <2>4. /\ Trace(s, surface, l, n, m) /\ Trace(t, surface, u, n, k)
          /\ \A i \in 1 .. m : l[i] = u[i]
      BY <1>3, <1>4, <1>8, <2>1, <2>2
    <2>5. \A i \in n .. m : s[i] = t[i]
      BY ONLY <2>3, <2>4, TracesAgree
    <2> QED
      BY <2>1, <2>5
  <1>11. s[Len(l)] = t[Len(l)]
    BY <1>1, <1>10
  <1>12. Len(u) \in n .. Len(u) /\ Len(u) # n /\ Len(u) - 1 = Len(l)
    BY <1>1, <1>2
  <1>13. t[Len(u)] = Applied(t[Len(u) - 1], u, Len(u))
    BY <1>4, <1>12 DEF Trace
  <1> QED
    BY <1>2, <1>5, <1>7, <1>11, <1>12, <1>13 DEF u

(* A log and then another are the two in one.                              *)
LEMMA AdvanceThrough ==
  ASSUME NEW surface, NEW l, NEW es, IsList(l), IsList(es)
  PROVE  Advance(Advance(surface, l, 0), l \o es, Len(l)) = Advance(surface, l \o es, 0)
  <1> DEFINE u == l \o es
             here == Advance(surface, l, 0)
             k == Len(l)
  <1>1. IsList(u) /\ Len(u) = k + Len(es) /\ \A i \in 1 .. k : u[i] = l[i]
    BY ListConcat
  <1>2. k \in Nat /\ Len(es) \in Nat
    BY ListFacts
  <1> HIDE DEF u
  <1>3. Len(u) \in Nat /\ k <= Len(u) /\ 0 \in 0 .. Len(u) /\ 0 \in 0 .. k /\ k \in 0 .. Len(u)
    BY <1>1, <1>2
  <1>a. 0 \in Nat /\ 0 <= k /\ 0 <= Len(u)
    BY <1>2, <1>3
  <1>4. PICK g : Trace(g, surface, l, 0, k)
    BY <1>a, <1>2, TraceExists
  <1>5. PICK f : Trace(f, surface, u, 0, Len(u))
    BY <1>a, <1>3, TraceExists
  <1>6. PICK h : Trace(h, here, u, k, Len(u))
    BY <1>2, <1>3, TraceExists
  <1>7. /\ here = g[k] /\ Advance(surface, u, 0) = f[Len(u)]
        /\ Advance(here, u, k) = h[Len(u)]
    <2>1. here = g[k]
      BY <1>3, <1>4, AdvanceIs
    <2>2. Advance(surface, u, 0) = f[Len(u)]
      BY <1>1, <1>3, <1>5, AdvanceIs
    <2>3. Advance(here, u, k) = h[Len(u)]
      BY <1>1, <1>3, <1>6, AdvanceIs
    <2> QED
      BY <2>1, <2>2, <2>3
  <1> HIDE DEF here, k
  <1>8. \A i \in 1 .. k : l[i] = u[i]
    BY <1>1
  <1>9. \A i \in 0 .. k : g[i] = f[i]
    BY <1>2, <1>3, <1>4, <1>5, <1>8, TracesAgree
  <1>10. f[k] = here
    BY <1>2, <1>7, <1>9
  <1>11. f = [i \in 0 .. Len(u) |-> IF i = 0 THEN surface ELSE Applied(f[i - 1], u, i)]
    BY <1>5 DEF Trace
  <1>12. PICK c : c = [i \in k .. Len(u) |-> f[i]]
    OBVIOUS
  <1>13. ASSUME NEW i \in k .. Len(u)
         PROVE  c[i] = IF i = k THEN here ELSE Applied(c[i - 1], u, i)
    <2>1. CASE i = k
      BY <1>10, <1>12, <2>1
    <2>2. CASE i # k
      <3>1. i \in 0 .. Len(u) /\ i # 0 /\ i - 1 \in k .. Len(u)
        BY <1>2, <1>3, <2>2
      <3>2. f[i] = Applied(f[i - 1], u, i)
        BY <1>11, <3>1
      <3> QED
        BY <1>12, <2>2, <3>1, <3>2
    <2> QED
      BY <2>1, <2>2
  <1>14. c = [i \in k .. Len(u) |-> c[i]]
    BY <1>12
  <1>15. Trace(c, here, u, k, Len(u))
    BY <1>13, <1>14 DEF Trace
  <1>16. Advance(here, u, k) = c[Len(u)]
    BY <1>1, <1>3, <1>15, AdvanceIs
  <1>17. c[Len(u)] = f[Len(u)]
    BY <1>2, <1>3, <1>12
  <1> QED
    BY <1>7, <1>16, <1>17 DEF u, here, k

(* A position is one, or 0.                                                *)
LEMMA PosIs ==
  ASSUME NEW s, IsList(s), NEW x
  PROVE  /\ Pos(s, x) \in Nat /\ Pos(s, x) <= Len(s)
         /\ x \in {s[i] : i \in DOMAIN s} => Pos(s, x) # 0 /\ s[Pos(s, x)] = x
  <1> DEFINE K == {k \in DOMAIN s : s[k] = x}
  <1>1. Len(s) \in Nat /\ DOMAIN s = 1 .. Len(s)
    BY ListFacts
  <1>2. K \subseteq 1 .. Len(s)
    BY <1>1
  <1>3. /\ Last0(K) \in K \cup {0} /\ \A j \in K : j <= Last0(K)
        /\ Last0(K) \in Nat /\ Last0(K) <= Len(s)
    BY <1>1, <1>2, LastIs
  <1>4. Pos(s, x) = Last0(K)
    BY DEF Pos
  <1>5. ASSUME x \in {s[i] : i \in DOMAIN s} PROVE Last0(K) # 0
    <2>1. PICK i \in DOMAIN s : s[i] = x
      BY <1>5
    <2>2. i \in K /\ i \in Nat /\ i # 0
      BY <1>1, <2>1
    <2>3. i <= Last0(K)
      BY <1>3, <2>2
    <2> HIDE DEF K
    <2> QED
      BY <1>3, <2>2, <2>3
  <1> QED
    BY <1>3, <1>4, <1>5

(* What an event makes of a surface is one.                                *)
LEMMA AppliedType ==
  ASSUME NEW s \in Seq(Nat), NEW l, NEW i \in Nat
  PROVE  Applied(s, l, i) \in Seq(Nat)
  <1>1. Len(s) \in Nat /\ IsList(s) /\ \A j \in 1 .. Len(s) : s[j] \in Nat
    BY ElementOfSeq, LenProperties DEF IsList
  <1>2. CASE l[i].op = "append"
    BY <1>2, AppendProperties DEF Applied
  <1>3. CASE l[i].op = "replace"
    <2> DEFINE a == Pos(s, l[i].from)
               b == Pos(s, l[i].to)
    <2>1. a \in Nat /\ a <= Len(s) /\ b \in Nat /\ b <= Len(s)
      BY <1>1, PosIs
    <2> HIDE DEF a, b
    <2>2. SubSeq(s, 1, a - 1) \in Seq(Nat)
      <3>1. 1 \in Int /\ a - 1 \in Int /\ \A j \in 1 .. a - 1 : s[j] \in Nat
        BY <1>1, <2>1
      <3> QED
        BY <3>1, SubSeqProperties
    <2>3. SubSeq(s, b + 1, Len(s)) \in Seq(Nat)
      <3>1. b + 1 \in Int /\ Len(s) \in Int /\ \A j \in b + 1 .. Len(s) : s[j] \in Nat
        BY <1>1, <2>1
      <3> QED
        BY <3>1, SubSeqProperties
    <2>4. <<i>> \in Seq(Nat)
      OBVIOUS
    <2>5. SubSeq(s, 1, a - 1) \o <<i>> \o SubSeq(s, b + 1, Len(s)) \in Seq(Nat)
      BY <2>2, <2>3, <2>4, ConcatProperties
    <2> QED
      BY <1>3, <2>5 DEF Applied, a, b
  <1>4. CASE l[i].op # "append" /\ l[i].op # "replace"
    BY <1>4 DEF Applied
  <1> QED
    BY <1>2, <1>3, <1>4

(* What a log makes of a surface is one.                                   *)
LEMMA AdvanceType ==
  ASSUME NEW s \in Seq(Nat), NEW l, IsList(l), NEW n \in 0 .. Len(l)
  PROVE  Advance(s, l, n) \in Seq(Nat)
  <1>1. Len(l) \in Nat /\ n \in Nat /\ n <= Len(l)
    BY ListFacts
  <1>2. PICK t : Trace(t, s, l, n, Len(l))
    BY <1>1, TraceExists
  <1> DEFINE Bad == {i \in Nat : i \in n .. Len(l) /\ t[i] \notin Seq(Nat)}
  <1>3. ASSUME Bad # {} PROVE FALSE
    <2>1. PICK i \in Bad : \A y \in Bad : i <= y
      BY <1>3, LeastIs
    <2>2. i \in Nat /\ i \in n .. Len(l) /\ t[i] \notin Seq(Nat)
      BY <2>1
    <2>3. t[i] = IF i = n THEN s ELSE Applied(t[i - 1], l, i)
      BY <1>2, <2>2 DEF Trace
    <2>4. i # n
      BY <2>2, <2>3
    <2>5. i - 1 \in Nat /\ i - 1 \in n .. Len(l) /\ ~(i <= i - 1)
      BY <1>1, <2>2, <2>4
    <2>6. t[i - 1] \in Seq(Nat)
      BY <2>1, <2>5
    <2> QED
      BY <2>2, <2>3, <2>4, <2>6, AppliedType
  <1>4. Len(l) \in Nat /\ Len(l) \in n .. Len(l)
    BY <1>1
  <1>5. t[Len(l)] \in Seq(Nat)
    BY <1>3, <1>4
  <1> QED
    BY <1>2, <1>5, AdvanceIs

---------------------------------------------------------------------------
(* Logs that grow.                                                         *)

(* The second log is the first with more events, and they have these types.*)
Grows(l, u, types) ==
  /\ IsList(l) /\ IsList(u) /\ Len(l) <= Len(u)
  /\ \A i \in 1 .. Len(l) : u[i] = l[i]
  /\ \A i \in Len(l) + 1 .. Len(u) : u[i].type \in types

(* A log grows by what is appended.                                        *)
LEMMA ConcatGrows ==
  ASSUME NEW l, NEW es, IsList(l), IsList(es), NEW types,
         \A i \in 1 .. Len(es) : es[i].type \in types
  PROVE  Grows(l, l \o es, types)
  <1>1. /\ IsList(l \o es) /\ Len(l \o es) = Len(l) + Len(es)
        /\ \A i \in 1 .. Len(l) : (l \o es)[i] = l[i]
        /\ \A i \in 1 .. Len(es) : (l \o es)[Len(l) + i] = es[i]
    BY ListConcat
  <1>2. Len(l) \in Nat /\ Len(es) \in Nat
    BY ListFacts
  <1>3. ASSUME NEW i \in Len(l) + 1 .. Len(l \o es) PROVE (l \o es)[i].type \in types
    <2>1. i - Len(l) \in 1 .. Len(es) /\ Len(l) + (i - Len(l)) = i
      BY <1>1, <1>2
    <2>2. (l \o es)[Len(l) + (i - Len(l))] = es[i - Len(l)]
      BY <1>1, <2>1
    <2> QED
      BY <2>1, <2>2
  <1>4. Len(l) <= Len(l \o es)
    BY <1>1, <1>2
  <1> QED
    BY <1>1, <1>3, <1>4 DEF Grows

(* Events are at positions of the log, and other types leave them alone.   *)
LEMMA EventsKept ==
  ASSUME NEW l, NEW u, NEW types, NEW T, Grows(l, u, types), T \cap types = {}
  PROVE  Events(u, T) = Events(l, T) /\ Events(l, T) \subseteq 1 .. Len(l) /\ Len(l) \in Nat
  <1>1. Len(l) \in Nat /\ Len(u) \in Nat /\ DOMAIN l = 1 .. Len(l) /\ DOMAIN u = 1 .. Len(u)
    BY ListFacts DEF Grows
  <1>2. ASSUME NEW i \in 1 .. Len(u), u[i].type \in T PROVE i \in 1 .. Len(l)
    <2>1. i \notin Len(l) + 1 .. Len(u)
      BY <1>2 DEF Grows
    <2> QED
      BY <1>1, <2>1
  <1>3. \A i \in 1 .. Len(l) : i \in 1 .. Len(u) /\ u[i] = l[i]
    BY <1>1 DEF Grows
  <1> QED
    BY <1>1, <1>2, <1>3 DEF Events

(* The last event of some types is one, or there is none.                  *)
LEMMA LastEventIs ==
  ASSUME NEW l, NEW T, IsList(l)
  PROVE  /\ Last0(Events(l, T)) \in Nat /\ Last0(Events(l, T)) <= Len(l)
         /\ \A j \in Events(l, T) : j <= Last0(Events(l, T))
         /\ Last0(Events(l, T)) # 0 => /\ Last0(Events(l, T)) \in 1 .. Len(l)
                                       /\ l[Last0(Events(l, T))].type \in T
  <1>1. Len(l) \in Nat /\ DOMAIN l = 1 .. Len(l)
    BY ListFacts
  <1>2. Events(l, T) \subseteq 1 .. Len(l) /\ \A i \in Events(l, T) : l[i].type \in T
    BY <1>1 DEF Events
  <1> DEFINE E == Events(l, T)
  <1> HIDE DEF E
  <1>3. /\ Last0(E) \in E \cup {0} /\ \A j \in E : j <= Last0(E)
        /\ Last0(E) \in Nat /\ Last0(E) <= Len(l)
    BY <1>1, <1>2, LastIs DEF E
  <1>4. E \subseteq 1 .. Len(l) /\ \A i \in E : l[i].type \in T
    BY <1>2 DEF E
  <1>5. Last0(E) # 0 => Last0(E) \in 1 .. Len(l) /\ l[Last0(E)].type \in T
    BY <1>3, <1>4
  <1> QED
    BY <1>3, <1>5 DEF E

(* The lock is taken and released by brackets and by nothing else.         *)
LEMMA LockKept ==
  ASSUME NEW l, NEW u, NEW types, Grows(l, u, types), {"start", "end", "seed"} \cap types = {}
  PROVE  Locked(u) <=> Locked(l)
  <1>1. Events(u, {"start", "end"}) = Events(l, {"start", "end"})
    <2>1. {"start", "end"} \cap types = {}
      OBVIOUS
    <2> QED
      BY <2>1, EventsKept
  <1>2. Events(u, {"seed"}) = Events(l, {"seed"})
    <2>1. {"seed"} \cap types = {}
      OBVIOUS
    <2> QED
      BY <2>1, EventsKept
  <1>3. IsList(l)
    BY DEF Grows
  <1> DEFINE b == Last0(Events(l, {"start", "end"}))
  <1>4. b # 0 => b \in 1 .. Len(l)
    BY <1>3, LastEventIs
  <1>5. b # 0 => u[b] = l[b]
    BY <1>4 DEF Grows
  <1> QED
    BY <1>1, <1>2, <1>5 DEF Locked

(* The first events of a log are those of one that has grown from it.      *)
LEMMA PrefixKept ==
  ASSUME NEW l, NEW u, NEW types, Grows(l, u, types), NEW k \in 0 .. Len(l)
  PROVE  SubSeq(u, 1, k) = SubSeq(l, 1, k)
  <1>1. IsList(l) /\ IsList(u) /\ Len(l) <= Len(u) /\ Len(l) \in Nat /\ Len(u) \in Nat
    BY ListFacts DEF Grows
  <1>2. k \in 0 .. Len(u)
    BY <1>1
  <1>3. /\ IsList(SubSeq(l, 1, k)) /\ Len(SubSeq(l, 1, k)) = k
        /\ \A i \in 1 .. k : SubSeq(l, 1, k)[i] = l[i]
    BY <1>1, ListPrefix
  <1>4. /\ IsList(SubSeq(u, 1, k)) /\ Len(SubSeq(u, 1, k)) = k
        /\ \A i \in 1 .. k : SubSeq(u, 1, k)[i] = u[i]
    BY <1>1, <1>2, ListPrefix
  <1>5. \A i \in 1 .. k : i \in 1 .. Len(l)
    BY <1>1
  <1>6. \A i \in 1 .. k : u[i] = l[i]
    BY <1>5 DEF Grows
  <1> QED
    BY <1>3, <1>4, <1>6, ListsEqual

(* Replacements are counted, and more are more.                            *)
LEMMA GenerationGrows ==
  ASSUME NEW l, NEW u, NEW types, Grows(l, u, types)
  PROVE  Generation(l) \in Nat /\ Generation(u) \in Nat /\ Generation(l) <= Generation(u)
  <1> DEFINE A == {i \in DOMAIN l : l[i].op = "replace"}
             B == {i \in DOMAIN u : u[i].op = "replace"}
  <1>1. Len(l) \in Nat /\ Len(u) \in Nat /\ DOMAIN l = 1 .. Len(l) /\ DOMAIN u = 1 .. Len(u)
    BY ListFacts DEF Grows
  <1>2. A \subseteq B
    <2>1. \A i \in 1 .. Len(l) : i \in 1 .. Len(u) /\ u[i] = l[i]
      BY <1>1 DEF Grows
    <2> QED
      BY <1>1, <2>1
  <1>3. IsFiniteSet(1 .. Len(u))
    BY <1>1, FS_Interval
  <1>4. IsFiniteSet(B)
    BY <1>1, <1>3, FS_Subset
  <1>5. IsFiniteSet(A) /\ Cardinality(A) <= Cardinality(B)
    BY <1>2, <1>4, FS_Subset
  <1>6. Cardinality(A) \in Nat /\ Cardinality(B) \in Nat
    BY <1>4, <1>5, FS_CardinalityType
  <1> QED
    BY <1>5, <1>6 DEF Generation

---------------------------------------------------------------------------
(* The inductive invariant.                                                *)

Stages   == {"none", "summary"}
Triggers == {"none", "pressure", "overflow", "manual", "region"}
TxStates == [stage : Stages, trigger : Triggers, from : Nat, to : Nat, nodes : Seq(Nat),
             attempt : 0 .. Retries]

(* What may be counted stays untyped: only its sign is ever used.          *)
IsCache(c) == \E g, s, o : /\ g \in Nat /\ s \in Seq(BOOLEAN) /\ s # <<>>
                           /\ c = [gen |-> g, cuts |-> s, open |-> o]

Types == /\ IsList(log) /\ tx \in [Actors -> TxStates] /\ IsCache(cache)
         /\ fails \in Nat /\ lives \in Nat

(* An overflow that is being recovered has a retry left.                   *)
RetryIsLeft ==
  phase = "recovered" \/ (phase = "compacting" /\ tx["driver"].trigger = "overflow")
    => retries < MaxOverflow

IInv == /\ Types /\ TypeOK /\ RetryIsLeft
        /\ LockIsOwned /\ ReportedIsStored /\ OneBracket /\ SurfaceIsFold

---------------------------------------------------------------------------
(* Logs with their surfaces.                                               *)

(* A view is the log with more events of these types, and its surface.     *)
View(v, types) ==
  /\ v = [log |-> v.log, nodes |-> v.nodes]
  /\ Grows(log, v.log, types) /\ v.nodes = Advance(<<>>, v.log, 0)

(* A step that appends such events.                                        *)
Adds(types) == Grows(log, log', types) /\ nodes' = Advance(<<>>, log', 0)

(* The surface that is advanced is the one the longer log makes.           *)
LEMMA WithView ==
  ASSUME IsList(log), SurfaceIsFold, NEW es, IsList(es), NEW types,
         \A i \in 1 .. Len(es) : es[i].type \in types
  PROVE  View(With(log \o es), types)
  <1>1. Grows(log, log \o es, types)
    BY ConcatGrows
  <1>2. Advance(nodes, log \o es, Len(log)) = Advance(<<>>, log \o es, 0)
    BY AdvanceThrough DEF SurfaceIsFold
  <1>3. With(log \o es) = [log |-> log \o es, nodes |-> Advance(nodes, log \o es, Len(log))]
    BY DEF With
  <1> QED
    BY <1>1, <1>2, <1>3 DEF View

(* The log as it is.                                                       *)
LEMMA HereView ==
  ASSUME IsList(log), SurfaceIsFold, NEW types
  PROVE  View(Here, types)
  <1>1. Len(log) \in Nat
    BY ListFacts
  <1>2. Grows(log, log, types)
    BY <1>1 DEF Grows
  <1> QED
    BY <1>2 DEF View, Here, SurfaceIsFold

(* The results that are too large are finitely many.                      *)
LEMMA LargeIsFinite ==
  ASSUME IsList(log), SurfaceIsFold
  PROVE  Cardinality(Large) \in Nat
  <1>1. nodes \in Seq(Nat)
    <2>1. <<>> \in Seq(Nat) /\ 0 \in 0 .. Len(log)
      BY ListFacts
    <2> QED
      BY <2>1, AdvanceType DEF SurfaceIsFold
  <1>2. DOMAIN nodes = 1 .. Len(nodes) /\ Len(nodes) \in Nat
    BY <1>1, LenProperties
  <1>3. IsFiniteSet(1 .. Len(nodes)) /\ Large \subseteq 1 .. Len(nodes)
    BY <1>2, FS_Interval DEF Large
  <1> QED
    BY <1>3, FS_Subset, FS_CardinalityType

(* A pass of the pruner, whole or broken off, has a few results more.      *)
LEMMA PruneView ==
  ASSUME IsList(log), SurfaceIsFold, NEW n \in Nat
  PROVE  View(PruneFirst(n), {"result"})
  <1> DEFINE es == [j \in 1 .. n |-> Pruned(log, nodes[InOrder(Large)[j]])]
  <1>1. IsList(es) /\ Len(es) = n
    <2>1. DOMAIN es = 1 .. n /\ es = [j \in 1 .. n |-> es[j]]
      OBVIOUS
    <2> HIDE DEF es
    <2> QED
      BY <2>1, ListGiven
  <1>2. \A i \in 1 .. Len(es) : es[i].type \in {"result"}
    BY <1>1 DEF Pruned
  <1>3. PruneFirst(n) = With(log \o es)
    BY DEF PruneFirst
  <1> HIDE DEF es
  <1> QED
    BY <1>1, <1>2, <1>3, WithView

LEMMA PrunesAreViews ==
  ASSUME IsList(log), SurfaceIsFold
  PROVE  /\ View(Prune, {"result"})
         /\ \A v \in BrokenPrunes : View(v, {"result"})
  <1>1. Cardinality(Large) \in Nat
    BY LargeIsFinite
  <1>2. View(Prune, {"result"})
    BY <1>1, PruneView DEF Prune
  <1>3. ASSUME NEW v \in BrokenPrunes PROVE View(v, {"result"})
    <2>1. PICK n \in 0 .. Cardinality(Large) - 1 : v = PruneFirst(n)
      BY <1>3 DEF BrokenPrunes
    <2>2. n \in Nat
      BY <1>1, <2>1
    <2> QED
      BY <2>1, <2>2, PruneView
  <1> QED
    BY <1>2, <1>3

(* What a view holds.                                                      *)
LEMMA ViewFacts ==
  ASSUME IsList(log), NEW v, NEW types, View(v, types)
  PROVE  /\ IsList(v.log) /\ v.nodes \in Seq(Nat)
         /\ Len(v.nodes) \in Nat /\ DOMAIN v.nodes = 1 .. Len(v.nodes)
         /\ Generation(log) \in Nat /\ Generation(v.log) \in Nat
         /\ Generation(log) <= Generation(v.log)
  <1>1. IsList(v.log) /\ Grows(log, v.log, types) /\ v.nodes = Advance(<<>>, v.log, 0)
    BY DEF View, Grows
  <1>2. v.nodes \in Seq(Nat)
    <2>1. <<>> \in Seq(Nat) /\ 0 \in 0 .. Len(v.log)
      BY <1>1, ListFacts
    <2> QED
      BY <1>1, <2>1, AdvanceType
  <1>3. Len(v.nodes) \in Nat /\ DOMAIN v.nodes = 1 .. Len(v.nodes)
    BY <1>2, LenProperties
  <1> QED
    BY <1>1, <1>2, <1>3, GenerationGrows

(* A step that publishes a view appends what it has more.                  *)
LEMMA PublishAdds ==
  ASSUME NEW v, NEW types, View(v, types), Publish(v)
  PROVE  Adds(types) /\ log' = v.log /\ nodes' = v.nodes
  BY DEF Publish, View, Adds

(* A step that logs appends what it logs.                                  *)
LEMMA LogAdds ==
  ASSUME IsList(log), SurfaceIsFold, NEW es, IsList(es), NEW types,
         \A i \in 1 .. Len(es) : es[i].type \in types, Log(es)
  PROVE  Adds(types) /\ log' = log \o es
  <1>1. View(With(log \o es), types) /\ Publish(With(log \o es))
    BY WithView DEF Log
  <1>2. Adds(types) /\ log' = With(log \o es).log
    BY <1>1, PublishAdds
  <1> QED
    BY <1>2 DEF With

(* A step that leaves the session alone appends nothing.                   *)
LEMMA NothingAdds ==
  ASSUME IsList(log), SurfaceIsFold, UNCHANGED session, NEW types
  PROVE  Adds(types)
  <1>1. Len(log) \in Nat /\ log' = log /\ nodes' = nodes
    BY ListFacts DEF session
  <1> QED
    BY <1>1 DEF Adds, Grows, SurfaceIsFold

(* The start of a transaction follows what its view has.                   *)
LEMMA BeginAdds ==
  ASSUME IsList(log), NEW v, NEW types, View(v, types),
         NEW w, NEW trigger, NEW attempt, NEW from, NEW to, Begin(w, trigger, attempt, v, from, to)
  PROVE  /\ Adds(types \cup {"start"}) /\ log' = Append(v.log, Bracket("start", w))
         /\ Grows(v.log, log', {"start"}) /\ nodes' = v.nodes
  <1>1. log' = Append(v.log, Bracket("start", w)) /\ nodes' = v.nodes
    <2>1. v = [log |-> v.log, nodes |-> v.nodes]
      BY DEF View
    <2>2. [v EXCEPT !.log = Append(@, Bracket("start", w))]
            = [log |-> Append(v.log, Bracket("start", w)), nodes |-> v.nodes]
      BY <2>1
    <2> QED
      BY <2>2 DEF Begin, Publish
  <1>2. IsList(v.log) /\ Len(v.log) \in Nat /\ Len(log) \in Nat /\ Len(log) <= Len(v.log)
    BY ListFacts DEF View, Grows
  <1>3. /\ IsList(log') /\ Len(log') = Len(v.log) + 1
        /\ \A i \in 1 .. Len(v.log) : log'[i] = v.log[i]
        /\ log'[Len(v.log) + 1] = Bracket("start", w)
    <2>1. PICK e : e = Bracket("start", w)
      OBVIOUS
    <2>2. PICK l : l = v.log
      OBVIOUS
    <2>3. /\ IsList(Append(l, e)) /\ Len(Append(l, e)) = Len(l) + 1
          /\ \A i \in 1 .. Len(l) : Append(l, e)[i] = l[i]
          /\ Append(l, e)[Len(l) + 1] = e
      <3>1. IsList(l)
        BY <1>2, <2>2
      <3> QED
        BY ONLY <3>1, ListAppend
    <2>4. log' = Append(l, e)
      BY <1>1, <2>1, <2>2
    <2> HIDE DEF Bracket
    <2> QED
      BY ONLY <2>1, <2>2, <2>3, <2>4
  <1>4. Grows(v.log, log', {"start"})
    <2>1. \A i \in Len(v.log) + 1 .. Len(log') : i = Len(v.log) + 1
      BY <1>2, <1>3
    <2>2. log'[Len(v.log) + 1].type = "start"
      BY <1>3 DEF Bracket
    <2> QED
      BY <1>2, <1>3, <2>1, <2>2 DEF Grows
  <1>5. Grows(log, log', types \cup {"start"})
    <2>1. ASSUME NEW i \in 1 .. Len(log) PROVE log'[i] = log[i]
      <3>1. i \in 1 .. Len(v.log)
        BY <1>2
      <3> QED
        BY <1>3, <3>1 DEF View, Grows
    <2>2. ASSUME NEW i \in Len(log) + 1 .. Len(log') PROVE log'[i].type \in types \cup {"start"}
      <3>1. i \in Len(log) + 1 .. Len(v.log) \/ i \in Len(v.log) + 1 .. Len(log')
        BY <1>2, <1>3
      <3>2. CASE i \in Len(log) + 1 .. Len(v.log)
        <4>1. i \in 1 .. Len(v.log)
          BY <1>2, <3>2
        <4> QED
          BY <1>3, <3>2, <4>1 DEF View, Grows
      <3>3. CASE i \in Len(v.log) + 1 .. Len(log')
        BY <1>4, <3>3 DEF Grows
      <3> QED
        BY <3>1, <3>2, <3>3
    <2> QED
      BY <1>2, <1>3, <2>1, <2>2 DEF Grows
  <1>6. nodes' = Advance(<<>>, log', 0)
    <2>1. 0 \in 0 .. Len(v.log)
      BY <1>2
    <2>2. Advance(<<>>, log', 0) = Applied(Advance(<<>>, v.log, 0), log', Len(v.log) + 1)
      BY <1>1, <1>2, <2>1, AdvanceAppend
    <2>3. log'[Len(v.log) + 1].op = "none"
      BY <1>3 DEF Bracket
    <2> QED
      BY <1>1, <2>2, <2>3 DEF Applied, View
  <1> QED
    BY <1>1, <1>4, <1>5, <1>6 DEF Adds

---------------------------------------------------------------------------
(* The cache of cuts and the choice of a range.                            *)

(* The fields of a cache.                                                  *)
LEMMA CacheFacts ==
  ASSUME NEW c, IsCache(c)
  PROVE  /\ c = [gen |-> c.gen, cuts |-> c.cuts, open |-> c.open]
         /\ c.gen \in Nat /\ c.cuts \in Seq(BOOLEAN) /\ c.cuts # <<>>
         /\ Len(c.cuts) \in Nat /\ Len(c.cuts) # 0
  <1>1. PICK g, s, o : /\ g \in Nat /\ s \in Seq(BOOLEAN) /\ s # <<>>
                       /\ c = [gen |-> g, cuts |-> s, open |-> o]
    BY DEF IsCache
  <1>2. c.gen = g /\ c.cuts = s /\ c.open = o
    BY <1>1
  <1>3. Len(s) \in Nat /\ (Len(s) = 0 <=> s = <<>>)
    BY LenProperties, EmptySeq
  <1> QED
    BY <1>1, <1>2, <1>3

(* Counted on from where it ended, a cache is one of the same generation.  *)
LEMMA ExtendIsCache ==
  ASSUME NEW v, v.nodes \in Seq(Nat), NEW c, IsCache(c)
  PROVE  IsCache(Extend(v, c)) /\ Extend(v, c).gen = c.gen
  <1> DEFINE new == SubSeq(v.nodes, Len(c.cuts), Len(v.nodes))
             open(k) == c.open + Delta(v.log, SubSeq(new, 1, k))
             more == [k \in DOMAIN new |-> open(k) = 0]
  <1>1. /\ c = [gen |-> c.gen, cuts |-> c.cuts, open |-> c.open]
        /\ c.gen \in Nat /\ c.cuts \in Seq(BOOLEAN) /\ c.cuts # <<>>
        /\ Len(c.cuts) \in Nat /\ Len(c.cuts) # 0
    BY CacheFacts
  <1>2. Len(v.nodes) \in Nat /\ \A i \in 1 .. Len(v.nodes) : v.nodes[i] \in Nat
    BY ElementOfSeq, LenProperties
  <1>3. new \in Seq(Nat)
    <2>1. \A i \in Len(c.cuts) .. Len(v.nodes) : v.nodes[i] \in Nat
      BY <1>1, <1>2
    <2>2. Len(c.cuts) \in Int /\ Len(v.nodes) \in Int
      BY <1>1, <1>2
    <2> QED
      BY <2>1, <2>2, SubSeqProperties
  <1>4. DOMAIN new = 1 .. Len(new) /\ Len(new) \in Nat
    BY <1>3, LenProperties
  <1>5. more \in Seq(BOOLEAN)
    <2>1. more \in [1 .. Len(new) -> BOOLEAN]
      BY <1>4
    <2> QED
      BY <1>4, <2>1, SeqDef
  <1>6. Extend(v, c) = [c EXCEPT !.cuts = @ \o more, !.open = open(Len(new))]
    BY DEF Extend
  <1> HIDE DEF more, open
  <1>7. c.cuts \o more \in Seq(BOOLEAN) /\ Len(c.cuts \o more) = Len(c.cuts) + Len(more)
        /\ Len(more) \in Nat
    BY <1>1, <1>5, ConcatProperties, LenProperties
  <1>8. c.cuts \o more # <<>>
    <2>1. Len(c.cuts \o more) # 0
      BY <1>1, <1>7
    <2> QED
      BY <1>7, <2>1, EmptySeq
  <1>9. Extend(v, c) = [gen |-> c.gen, cuts |-> c.cuts \o more, open |-> open(Len(new))]
    BY <1>1, <1>6
  <1>10. PICK s : s = c.cuts \o more
    OBVIOUS
  <1>11. PICK o : o = open(Len(new))
    OBVIOUS
  <1>12. PICK d : d = [gen |-> c.gen, cuts |-> s, open |-> o]
    OBVIOUS
  <1>13. Extend(v, c) = d /\ s \in Seq(BOOLEAN) /\ s # <<>>
    BY <1>7, <1>8, <1>9, <1>10, <1>11, <1>12
  <1>14. IsCache(d) /\ d.gen = c.gen
    <2>1. PICK g : g = c.gen
      OBVIOUS
    <2>2. g \in Nat /\ s \in Seq(BOOLEAN) /\ s # <<>> /\ d = [gen |-> g, cuts |-> s, open |-> o]
      BY <1>1, <1>12, <1>13, <2>1
    <2>3. IsCache(d)
      BY ONLY <2>2 DEF IsCache
    <2>4. d.gen = g
      BY ONLY <2>2
    <2> QED
      BY <2>1, <2>3, <2>4
  <1> QED
    BY <1>13, <1>14

(* A cache that is brought up to date is of a generation the log has had.  *)
LEMMA SyncedIsCache ==
  ASSUME NEW v, v.nodes \in Seq(Nat), IsCache(cache), Generation(v.log) \in Nat
  PROVE  IsCache(Synced(v)) /\ Synced(v).gen \in {cache.gen, Generation(v.log)}
  <1>1. PICK c : c = [Fresh EXCEPT !.gen = Generation(v.log)]
    OBVIOUS
  <1>2. IsCache(c) /\ c.gen = Generation(v.log)
    <2>1. c = [gen |-> Generation(v.log), cuts |-> <<TRUE>>, open |-> 0]
      BY <1>1 DEF Fresh
    <2>2. <<TRUE>> \in Seq(BOOLEAN) /\ <<TRUE>> # <<>>
      OBVIOUS
    <2> QED
      BY <2>1, <2>2 DEF IsCache
  <1>3. IsCache(Rebuilt(v)) /\ Rebuilt(v).gen = Generation(v.log)
    BY <1>1, <1>2, ExtendIsCache DEF Rebuilt
  <1>4. IsCache(Extend(v, cache)) /\ Extend(v, cache).gen = cache.gen
    BY ExtendIsCache
  <1> QED
    BY <1>3, <1>4 DEF Synced

(* What is chosen is a head of the surface.                                *)
LEMMA SelectedIs ==
  ASSUME NEW v, v.nodes \in Seq(Nat), NEW retain
  PROVE  /\ Selected(v, retain) \in Seq(Nat)
         /\ Selected(v, retain) # <<>> =>
              /\ Selected(v, retain)[1] \in Nat
              /\ Selected(v, retain)[Len(Selected(v, retain))] \in Nat
  <1>1. Len(v.nodes) \in Nat /\ DOMAIN v.nodes = 1 .. Len(v.nodes)
        /\ \A i \in 1 .. Len(v.nodes) : v.nodes[i] \in Nat
    BY ElementOfSeq, LenProperties
  <1>2. Selected(v, retain) \in Seq(Nat)
    <2>1. CASE v.nodes = <<>>
      <3>1. Selected(v, retain) = <<>>
        BY <2>1 DEF Selected
      <3> QED
        BY <3>1
    <2>2. CASE v.nodes # <<>>
      <3> DEFINE enough == {k \in DOMAIN v.nodes :
                              Price(v.log, SubSeq(v.nodes, k, Len(v.nodes))) >= retain}
      <3>1. Len(v.nodes) # 0
        BY <2>2, EmptySeq
      <3>2. Kept(v, retain) \in Nat /\ Kept(v, retain) <= Len(v.nodes)
        <4>1. enough \subseteq 1 .. Len(v.nodes)
          BY <1>1
        <4>2. Kept(v, retain) = IF enough = {} THEN 1 ELSE Last0(enough)
          BY DEF Kept
        <4> HIDE DEF enough
        <4>3. Last0(enough) \in Nat /\ Last0(enough) <= Len(v.nodes)
          BY <1>1, <4>1, LastIs
        <4> QED
          BY <1>1, <3>1, <4>2, <4>3
      <3> DEFINE heads == {k \in 2 .. Kept(v, retain) : Synced(v).cuts[k]}
      <3>3. heads \subseteq 1 .. Len(v.nodes)
        BY <1>1, <3>2
      <3>4. KeepFrom(v, retain) = Last0(heads)
        BY DEF KeepFrom
      <3> HIDE DEF heads
      <3>5. KeepFrom(v, retain) \in Nat /\ KeepFrom(v, retain) <= Len(v.nodes)
        BY <1>1, <3>3, <3>4, LastIs
      <3>6. /\ 1 \in Int /\ KeepFrom(v, retain) - 1 \in Int
            /\ \A i \in 1 .. KeepFrom(v, retain) - 1 : v.nodes[i] \in Nat
        BY <1>1, <3>5
      <3>7. SubSeq(v.nodes, 1, KeepFrom(v, retain) - 1) \in Seq(Nat)
        BY <3>6, SubSeqProperties
      <3> QED
        BY <2>2, <3>7 DEF Selected
    <2> QED
      BY <2>1, <2>2
  <1>3. PICK s : s = Selected(v, retain)
    OBVIOUS
  <1>4. s # <<>> => s[1] \in Nat /\ s[Len(s)] \in Nat
    <2>1. s \in Seq(Nat) /\ Len(s) \in Nat /\ (s # <<>> => Len(s) # 0)
      BY <1>2, <1>3, EmptySeq, LenProperties
    <2>2. s # <<>> => 1 \in 1 .. Len(s) /\ Len(s) \in 1 .. Len(s)
      BY <2>1
    <2> QED
      BY <2>1, <2>2, ElementOfSeq
  <1> QED
    BY <1>2, <1>3, <1>4

---------------------------------------------------------------------------
(* What a step that appends leaves of the properties of the log.           *)

(* The log stays a list, its surface the log's, and what is in it in place.*)
LEMMA AddsFacts ==
  ASSUME IsList(log), NEW types, Adds(types)
  PROVE  /\ IsList(log') /\ SurfaceIsFold' /\ Len(log) \in Nat /\ Len(log') \in Nat
         /\ Len(log) <= Len(log')
         /\ Generation(log) \in Nat /\ Generation(log') \in Nat
         /\ Generation(log) <= Generation(log')
  <1>1. Grows(log, log', types) /\ nodes' = Advance(<<>>, log', 0)
    BY DEF Adds
  <1>2. SurfaceIsFold'
    BY <1>1 DEF SurfaceIsFold
  <1>3. IsList(log') /\ Len(log) <= Len(log')
    BY <1>1 DEF Grows
  <1>4. Len(log) \in Nat /\ Len(log') \in Nat
    BY <1>3, ListFacts
  <1> QED
    BY <1>1, <1>2, <1>3, <1>4, GenerationGrows

(* What was reported stays stored.                                         *)
LEMMA ReportedKept ==
  ASSUME IsList(log), TypeOK, ReportedIsStored, NEW types, Adds(types), UNCHANGED reported
  PROVE  ReportedIsStored'
  <1>1. Len(log) \in Nat /\ Len(log') \in Nat /\ Len(log) <= Len(log')
    BY AddsFacts
  <1>2. CASE reported # 0
    <2>1. reported \in 1 .. Len(log)
      BY <1>1, <1>2 DEF TypeOK, ReportedIsStored
    <2>2. log'[reported] = log[reported]
      BY <2>1 DEF Adds, Grows
    <2> QED
      BY <1>1, <1>2, <2>1, <2>2 DEF ReportedIsStored
  <1> QED
    BY <1>2 DEF ReportedIsStored

(* No transaction starts inside another where none starts.                 *)
LEMMA OneBracketKept ==
  ASSUME IsList(log), OneBracket, NEW types, Adds(types), "start" \notin types
  PROVE  OneBracket'
  <1>1. Grows(log, log', types)
    BY DEF Adds
  <1>2. {"start"} \cap types = {}
    OBVIOUS
  <1>3. /\ Events(log', {"start"}) = Events(log, {"start"})
        /\ Events(log, {"start"}) \subseteq 1 .. Len(log) /\ Len(log) \in Nat
    BY <1>1, <1>2, EventsKept
  <1>4. ASSUME NEW i \in Events(log', {"start"}) PROVE ~Locked(SubSeq(log', 1, i - 1))
    <2>1. i \in Events(log, {"start"}) /\ i - 1 \in 0 .. Len(log)
      BY <1>3, <1>4
    <2>2. SubSeq(log', 1, i - 1) = SubSeq(log, 1, i - 1)
      BY <1>1, <2>1, PrefixKept
    <2> QED
      BY <2>1, <2>2 DEF OneBracket
  <1> QED
    BY <1>4 DEF OneBracket

Quiet == {"turn", "turnend", "user", "assistant", "result"}

(* Everything that appends no bracket and lets transactions run on leaves  *)
(* what the log says of compactions true.                                  *)
LEMMA QuietStep ==
  ASSUME Types, TypeOK, LockIsOwned, ReportedIsStored, OneBracket, NEW types \in SUBSET Quiet,
         Adds(types),
         UNCHANGED reported, fails' \in Nat, fails' >= fails,
         \A w \in Actors : tx[w].stage = "summary" => tx'[w].stage = "summary"
  PROVE  LockIsOwned' /\ ReportedIsStored' /\ OneBracket' /\ SurfaceIsFold'
  <1>1. IsList(log) /\ fails \in Nat
    BY DEF Types
  <1>2. "start" \notin types /\ {"start", "end", "seed"} \cap types = {}
    BY DEF Quiet
  <1>3. Locked(log') <=> Locked(log)
    BY <1>2, LockKept DEF Adds
  <1>4. LockIsOwned'
    BY <1>1, <1>3 DEF LockIsOwned
  <1>5. ReportedIsStored' /\ OneBracket' /\ SurfaceIsFold'
    BY <1>1, <1>2, ReportedKept, OneBracketKept, AddsFacts
  <1> QED
    BY <1>4, <1>5

---------------------------------------------------------------------------
(* Steps, by what they append.                                             *)

Phases == {"idle", "pre", "capacity", "compacting", "again", "entering", "request",
           "recovered", "tools", "ending", "failing", "between", "flushing"}

Faithful == ReplacesRecorded /\ KeepsTurnsApart

(* Where no checkpoint is appended nothing is replaced, and turns are kept *)
(* apart by not being touched while the driver compacts.                   *)
LEMMA QuietIsFaithful ==
  ASSUME IsList(log), NEW types, Adds(types), "checkpoint" \notin types,
         tx["driver"].stage = "summary" => "turn" \notin types /\ "turnend" \notin types
  PROVE  Faithful
  <1>1. Grows(log, log', types) /\ DOMAIN log = 1 .. Len(log)
    BY ListFacts DEF Adds
  <1>2. ReplacesRecorded
    <2>1. {"checkpoint"} \cap types = {}
      OBVIOUS
    <2>2. Events(log', {"checkpoint"}) \subseteq DOMAIN log
      BY <1>1, <2>1, EventsKept
    <2> QED
      BY <2>2 DEF ReplacesRecorded
  <1>3. KeepsTurnsApart
    <2>1. SUFFICES ASSUME tx["driver"].stage = "summary"
                   PROVE  Events(log', {"turn", "turnend"}) = Events(log, {"turn", "turnend"})
      BY DEF KeepsTurnsApart
    <2>2. {"turn", "turnend"} \cap types = {}
      BY <2>1
    <2> QED
      BY <1>1, <2>2, EventsKept
  <1> QED
    BY <1>2, <1>3 DEF Faithful

(* What is counted over the log is within what it has become.              *)
LEMMA Widened ==
  ASSUME IsList(log), TypeOK, IsCache(cache), NEW types, Adds(types)
  PROVE  /\ asked \in 0 .. Generation(log') /\ cache.gen \in 0 .. Generation(log')
         /\ durable \in 0 .. Len(log') /\ reported \in 0 .. durable
         /\ Generation(log) \in 0 .. Generation(log')
  <1>1. /\ Len(log) \in Nat /\ Len(log') \in Nat /\ Len(log) <= Len(log')
        /\ Generation(log) \in Nat /\ Generation(log') \in Nat
        /\ Generation(log) <= Generation(log')
    BY AddsFacts
  <1>2. asked \in 0 .. Generation(log) /\ cache.gen \in 0 .. Generation(log)
    BY DEF TypeOK
  <1>3. durable \in 0 .. Len(log) /\ reported \in 0 .. durable
    BY DEF TypeOK
  <1> QED
    BY <1>1, <1>2, <1>3

(* The types after a step that appends.                                    *)
LEMMA TypesStep ==
  ASSUME IInv, NEW types, Adds(types), UNCHANGED <<durable, reported>>,
         tx' \in [Actors -> TxStates], fails' \in Nat, lives' \in Nat,
         IsCache(cache'), cache'.gen \in 0 .. Generation(log'), asked' \in 0 .. Generation(log'),
         phase' \in Phases, phase' = "compacting" <=> tx'["driver"].stage = "summary",
         aborted' \in BOOLEAN, retries' \in 0 .. MaxOverflow
  PROVE  Types' /\ TypeOK'
  <1>1. IsList(log) /\ TypeOK /\ IsCache(cache)
    BY DEF IInv, Types
  <1>2. IsList(log') /\ durable' \in 0 .. Len(log') /\ reported' \in 0 .. durable'
    BY <1>1, AddsFacts, Widened
  <1>3. Types'
    BY <1>2 DEF Types
  <1>4. cache'.cuts # <<>>
    BY CacheFacts
  <1>5. \A w \in Actors : /\ tx'[w].stage \in {"none", "summary"}
                          /\ tx'[w].trigger \in {"none", "pressure", "overflow", "manual", "region"}
                          /\ tx'[w].attempt \in 0 .. Retries
    BY DEF TxStates, Stages, Triggers
  <1>6. TypeOK'
    BY <1>2, <1>4, <1>5 DEF TypeOK, Phases
  <1> QED
    BY <1>3, <1>6

(* A step that appends no bracket and stops no transaction.                *)
LEMMA QuietHolds ==
  ASSUME IInv, NEW types \in SUBSET Quiet, Adds(types), UNCHANGED <<durable, reported>>,
         tx["driver"].stage = "summary" => "turn" \notin types /\ "turnend" \notin types,
         tx' \in [Actors -> TxStates],
         \A w \in Actors : tx[w].stage = "summary" => tx'[w].stage = "summary",
         fails' \in Nat, fails' >= fails, lives' \in Nat,
         IsCache(cache'), cache'.gen \in 0 .. Generation(log'), asked' \in 0 .. Generation(log'),
         phase' \in Phases, phase' = "compacting" <=> tx'["driver"].stage = "summary",
         aborted' \in BOOLEAN, retries' \in 0 .. MaxOverflow, RetryIsLeft'
  PROVE  IInv' /\ Faithful
  <1>1. Types' /\ TypeOK'
    BY TypesStep
  <1>2. Types /\ TypeOK /\ LockIsOwned /\ ReportedIsStored /\ OneBracket /\ reported' = reported
    BY DEF IInv
  <1>3. LockIsOwned' /\ ReportedIsStored' /\ OneBracket' /\ SurfaceIsFold'
    BY <1>2, QuietStep
  <1>4. IsList(log) /\ "checkpoint" \notin types
    BY <1>2 DEF Types, Quiet
  <1>5. Faithful
    BY <1>4, QuietIsFaithful
  <1> QED
    BY <1>1, <1>3, <1>5 DEF IInv

(* ... and leaves the transactions and the cache alone.                    *)
LEMMA PlainHolds ==
  ASSUME IInv, NEW types \in SUBSET Quiet, Adds(types),
         tx["driver"].stage = "summary" => "turn" \notin types /\ "turnend" \notin types,
         UNCHANGED <<durable, reported, tx, cache, asked, lives>>,
         fails' \in Nat, fails' >= fails,
         phase' \in Phases, phase' = "compacting" <=> phase = "compacting",
         aborted' \in BOOLEAN, retries' \in 0 .. MaxOverflow,
         phase' = "recovered" => phase = "recovered",
         phase' \in {"recovered", "compacting"} => retries' = retries
  PROVE  IInv' /\ Faithful
  <1>1. Types /\ TypeOK
    BY DEF IInv
  <1>2. tx' \in [Actors -> TxStates] /\ tx' = tx /\ lives' \in Nat /\ IsCache(cache')
        /\ cache' = cache
    BY <1>1 DEF Types
  <1>3. cache'.gen \in 0 .. Generation(log') /\ asked' \in 0 .. Generation(log')
    BY <1>1, Widened DEF Types
  <1>4. phase' = "compacting" <=> tx'["driver"].stage = "summary"
    BY <1>1, <1>2 DEF TypeOK
  <1>5. \A w \in Actors : tx[w].stage = "summary" => tx'[w].stage = "summary"
    BY <1>2
  <1>6. UNCHANGED <<durable, reported>>
    OBVIOUS
  <1>7. RetryIsLeft'
    BY <1>2 DEF IInv, RetryIsLeft
  <1> QED
    BY <1>2, <1>3, <1>4, <1>5, <1>6, <1>7, QuietHolds

---------------------------------------------------------------------------
(* The actions, one by one.                                                *)

(* One event is appended.                                                  *)
LEMMA LogOne ==
  ASSUME IInv, NEW e, NEW types, e.type \in types, Log(<<e>>)
  PROVE  Adds(types) /\ log' = log \o <<e>>
  <1>1. IsList(<<e>>) /\ Len(<<e>>) = 1 /\ <<e>>[1] = e
    BY ListOfOne
  <1>2. \A i \in 1 .. Len(<<e>>) : <<e>>[i].type \in types
    BY <1>1
  <1>3. IsList(log) /\ SurfaceIsFold
    BY DEF IInv, Types
  <1> QED
    BY <1>1, <1>2, <1>3, LogAdds

(* Nothing is appended.                                                    *)
LEMMA LogNone ==
  ASSUME IInv, UNCHANGED session, NEW types
  PROVE  Adds(types)
  BY NothingAdds DEF IInv, Types

(* What the invariant says of the driver and of its numbers.               *)
LEMMA DriverFacts ==
  ASSUME IInv
  PROVE  /\ phase = "compacting" <=> tx["driver"].stage = "summary"
         /\ phase \in Phases /\ aborted \in BOOLEAN /\ retries \in 0 .. MaxOverflow
         /\ fails \in Nat /\ lives \in Nat /\ MaxOverflow \in Nat /\ Retries \in Nat
         /\ MaxCalls \in Nat
         /\ IsList(log) /\ SurfaceIsFold /\ IsCache(cache) /\ tx \in [Actors -> TxStates]
  BY BoundsAssumption DEF IInv, Types, TypeOK, Phases

(* A turn starts between two commands, and so outside of transactions.     *)
LEMMA StartTurnHolds ==
  ASSUME IInv, StartTurn
  PROVE  IInv' /\ Faithful
  <1>1. Log(<<Marker("turn")>>) /\ Marker("turn").type \in {"turn"}
    BY DEF StartTurn, OpenTurn, Marker
  <1>2. Adds({"turn"}) /\ {"turn"} \in SUBSET Quiet
    BY <1>1, LogOne DEF Quiet
  <1>3. tx["driver"].stage # "summary"
    BY DriverFacts DEF StartTurn
  <1>4. UNCHANGED <<durable, reported, tx, cache, asked, lives>> /\ fails' = fails
        /\ aborted' = aborted /\ retries' = retries
    BY DEF StartTurn, turn, bounds
  <1>5. phase = "idle" /\ phase' = "pre"
    BY DEF StartTurn, OpenTurn, Goto
  <1>6. fails' \in Nat /\ fails' >= fails /\ aborted' \in BOOLEAN /\ retries' \in 0 .. MaxOverflow
    BY <1>4, DriverFacts
  <1>7. phase' \in Phases /\ (phase' = "compacting" <=> phase = "compacting")
    BY <1>5 DEF Phases
  <1>9. phase' \notin {"recovered", "compacting"}
    BY <1>5
  <1> QED
    BY <1>2, <1>3, <1>4, <1>6, <1>7, <1>9, PlainHolds

(* A step begins; the first of a turn appends the user's message.          *)
LEMMA EnterHolds ==
  ASSUME IInv, Enter
  PROVE  IInv' /\ Faithful
  <1>1. phase = "entering" /\ phase' \in {"failing", "request"}
        /\ UNCHANGED <<turn, tx, cache, durable, reported, bounds>>
    BY DEF Enter, Goto
  <1>2. Adds({"user"}) /\ {"user"} \in SUBSET Quiet
    <2>1. CASE UNCHANGED session
      BY <2>1, LogNone DEF Quiet
    <2>2. CASE Log(<<User>>)
      <3>1. User.type \in {"user"}
        BY DEF User
      <3> QED
        BY <2>2, <3>1, LogOne DEF Quiet
    <2>3. CASE Log(<<>>)
      <3>1. IsList(<<>>) /\ \A i \in 1 .. Len(<<>>) : <<>>[i].type \in {"user"}
        <4>1. IsList(<<>>)
          <5>1. <<>> \in Seq({})
            OBVIOUS
          <5> QED
            BY <5>1 DEF IsList
        <4> QED
          BY <4>1
      <3> QED
        BY <2>3, <3>1, LogAdds, DriverFacts DEF Quiet
    <2>4. UNCHANGED session \/ Log(<<User>>) \/ Log(<<>>)
      BY DEF Enter
    <2> QED
      BY <2>1, <2>2, <2>3, <2>4
  <1>4. UNCHANGED <<durable, reported, tx, cache, asked, lives>> /\ fails' = fails
        /\ aborted' = aborted /\ retries' = retries
    BY <1>1 DEF turn, bounds
  <1>6. fails' \in Nat /\ fails' >= fails /\ aborted' \in BOOLEAN /\ retries' \in 0 .. MaxOverflow
    BY <1>4, DriverFacts
  <1>7. phase' \in Phases /\ (phase' = "compacting" <=> phase = "compacting")
    BY <1>1 DEF Phases
  <1>8. "turn" \notin {"user"} /\ "turnend" \notin {"user"}
    OBVIOUS
  <1>9. phase' \notin {"recovered", "compacting"}
    BY <1>1
  <1> QED
    BY <1>2, <1>4, <1>6, <1>7, <1>8, <1>9, PlainHolds

(* An answer, with or without calls.                                       *)
LEMMA AnswerHolds ==
  ASSUME IInv, Answer
  PROVE  IInv' /\ Faithful
  <1>1. PICK n \in 0 .. MaxCalls : /\ Log(<<Message(n)>>)
                                   /\ Goto(IF n = 0 THEN "ending" ELSE "tools")
    BY DEF Answer
  <1>2. Adds({"assistant"}) /\ {"assistant"} \in SUBSET Quiet
    <2>1. Message(n).type \in {"assistant"}
      BY DEF Message
    <2> QED
      BY <1>1, <2>1, LogOne DEF Quiet
  <1>3. phase = "request" /\ phase' \in {"ending", "tools"}
    BY <1>1 DEF Answer, Goto
  <1>4. UNCHANGED <<durable, reported, tx, cache, asked, lives>> /\ fails' = fails
        /\ aborted' = aborted /\ retries' = 0
    BY DEF Answer, bounds
  <1>6. fails' \in Nat /\ fails' >= fails /\ aborted' \in BOOLEAN /\ retries' \in 0 .. MaxOverflow
    BY <1>4, DriverFacts
  <1>7. phase' \in Phases /\ (phase' = "compacting" <=> phase = "compacting")
    BY <1>3 DEF Phases
  <1>8. "turn" \notin {"assistant"} /\ "turnend" \notin {"assistant"}
    OBVIOUS
  <1>9. phase' \notin {"recovered", "compacting"}
    BY <1>3
  <1> QED
    BY <1>2, <1>4, <1>6, <1>7, <1>8, <1>9, PlainHolds

(* A request fails and ends the step.                                      *)
LEMMA RequestFailsHolds ==
  ASSUME IInv, RequestFails
  PROVE  IInv' /\ Faithful
  <1>1. UNCHANGED session /\ phase = "request" /\ phase' = "failing"
    BY DEF RequestFails, Goto
  <1>2. Adds({}) /\ {} \in SUBSET Quiet
    BY <1>1, LogNone
  <1>4. UNCHANGED <<durable, reported, tx, cache, asked, lives>> /\ fails' = fails
        /\ aborted' = aborted /\ retries' = retries
    BY DEF RequestFails, turn, bounds
  <1>6. fails' \in Nat /\ fails' >= fails /\ aborted' \in BOOLEAN /\ retries' \in 0 .. MaxOverflow
    BY <1>4, DriverFacts
  <1>7. phase' \in Phases /\ (phase' = "compacting" <=> phase = "compacting")
    BY <1>1 DEF Phases
  <1>9. phase' \notin {"recovered", "compacting"}
    BY <1>1
  <1> QED
    BY <1>2, <1>4, <1>6, <1>7, <1>9, PlainHolds

(* A request is repeated while a retry is left.                            *)
LEMMA RecoverHolds ==
  ASSUME IInv, Recover
  PROVE  IInv' /\ Faithful
  <1>1. UNCHANGED session /\ phase = "recovered" /\ phase' \in {"failing", "request"}
    BY DEF Recover, Goto
  <1>2. Adds({}) /\ {} \in SUBSET Quiet
    BY <1>1, LogNone
  <1>4. UNCHANGED <<durable, reported, tx, cache, asked, lives>> /\ fails' = fails
        /\ aborted' = aborted
    BY DEF Recover, bounds
  <1>6. fails' \in Nat /\ fails' >= fails /\ aborted' \in BOOLEAN
    BY <1>4, DriverFacts
  <1>7. phase' \in Phases /\ (phase' = "compacting" <=> phase = "compacting")
    BY <1>1 DEF Phases
  <1>8. retries' \in 0 .. MaxOverflow
    <2>1. retries < MaxOverflow
      BY <1>1 DEF IInv, RetryIsLeft
    <2>2. retries' \in {retries, retries + 1}
      BY DEF Recover
    <2> QED
      BY <2>1, <2>2, DriverFacts
  <1>9. phase' \notin {"recovered", "compacting"}
    BY <1>1
  <1> QED
    BY <1>2, <1>4, <1>6, <1>7, <1>8, <1>9, PlainHolds

(* A call's result is appended.                                            *)
LEMMA ToolResultHolds ==
  ASSUME IInv, ToolResult
  PROVE  IInv' /\ Faithful
  <1>1. phase = "tools" /\ phase' \in {"tools", "pre", "ending", "failing"}
        /\ UNCHANGED <<turn, tx, cache, durable, reported, bounds>>
    BY DEF ToolResult
  <1>2. PICK c, price : Log(<<Result(c, price)>>)
    BY DEF ToolResult
  <1>3. Adds({"result"}) /\ {"result"} \in SUBSET Quiet
    <2>1. Result(c, price).type \in {"result"}
      BY DEF Result
    <2> QED
      BY <1>2, <2>1, LogOne DEF Quiet
  <1>4. UNCHANGED <<durable, reported, tx, cache, asked, lives>> /\ fails' = fails
        /\ aborted' = aborted /\ retries' = retries
    BY <1>1 DEF turn, bounds
  <1>6. fails' \in Nat /\ fails' >= fails /\ aborted' \in BOOLEAN /\ retries' \in 0 .. MaxOverflow
    BY <1>4, DriverFacts
  <1>7. phase' \in Phases /\ (phase' = "compacting" <=> phase = "compacting")
    BY <1>1 DEF Phases
  <1>8. "turn" \notin {"result"} /\ "turnend" \notin {"result"}
    OBVIOUS
  <1>9. phase' \notin {"recovered", "compacting"}
    BY <1>1
  <1> QED
    BY <1>3, <1>4, <1>6, <1>7, <1>8, <1>9, PlainHolds

(* A batch fails and leaves its calls open.                                *)
LEMMA BatchFailsHolds ==
  ASSUME IInv, BatchFails
  PROVE  IInv' /\ Faithful
  <1>1. phase = "tools" /\ phase' = "failing" /\ fails' = fails + 1 /\ UNCHANGED session
    BY DEF BatchFails, Goto, Fail
  <1>2. Adds({}) /\ {} \in SUBSET Quiet
    BY <1>1, LogNone
  <1>4. UNCHANGED <<durable, reported, tx, cache, asked, lives>>
        /\ aborted' = aborted /\ retries' = retries
    BY DEF BatchFails, turn
  <1>6. fails' \in Nat /\ fails' >= fails /\ aborted' \in BOOLEAN /\ retries' \in 0 .. MaxOverflow
    BY <1>1, <1>4, DriverFacts
  <1>7. phase' \in Phases /\ (phase' = "compacting" <=> phase = "compacting")
    BY <1>1 DEF Phases
  <1>9. phase' \notin {"recovered", "compacting"}
    BY <1>1
  <1> QED
    BY <1>2, <1>4, <1>6, <1>7, <1>9, PlainHolds

(* A turn ends, after its transactions.                                    *)
LEMMA EndTurnHolds ==
  ASSUME IInv, EndTurn
  PROVE  IInv' /\ Faithful
  <1>1. phase \in {"ending", "failing"} /\ phase' \in {"idle", "between"} /\ aborted' = FALSE
        /\ retries' \in {0, retries}
    BY DEF EndTurn, Goto
  <1>2. Adds({"turnend"}) /\ {"turnend"} \in SUBSET Quiet
    <2>1. Log(<<Marker("turnend")>>) /\ Marker("turnend").type \in {"turnend"}
      BY DEF EndTurn, Marker
    <2> QED
      BY <2>1, LogOne DEF Quiet
  <1>3. tx["driver"].stage # "summary"
    BY <1>1, DriverFacts
  <1>4. UNCHANGED <<durable, reported, tx, cache, asked, lives>> /\ fails' = fails
    BY DEF EndTurn, bounds
  <1>6. fails' \in Nat /\ fails' >= fails /\ aborted' \in BOOLEAN /\ retries' \in 0 .. MaxOverflow
    <2>1. fails \in Nat /\ MaxOverflow \in Nat /\ retries \in 0 .. MaxOverflow
      BY DriverFacts
    <2>2. aborted' \in BOOLEAN
      BY <1>1
    <2>3. fails' \in Nat /\ fails' >= fails
      BY <1>4, <2>1
    <2>4. retries' \in 0 .. MaxOverflow
      BY <1>1, <2>1
    <2> QED
      BY <2>2, <2>3, <2>4
  <1>7. phase' \in Phases /\ (phase' = "compacting" <=> phase = "compacting")
    BY <1>1 DEF Phases
  <1>9. phase' \notin {"recovered", "compacting"}
    BY <1>1
  <1> QED
    BY <1>2, <1>3, <1>4, <1>6, <1>7, <1>9, PlainHolds

(* The next turn starts, or an abort keeps it from starting.               *)
LEMMA NextTurnHolds ==
  ASSUME IInv, NextTurn
  PROVE  IInv' /\ Faithful
  <1>1. phase = "between" /\ phase' \in {"idle", "pre"} /\ aborted' = FALSE
        /\ retries' \in {0, retries}
    BY DEF NextTurn, OpenTurn, Goto
  <1>2. Adds({"turn"}) /\ {"turn"} \in SUBSET Quiet
    <2>1. CASE UNCHANGED session
      BY <2>1, LogNone DEF Quiet
    <2>2. CASE Log(<<Marker("turn")>>)
      <3>1. Marker("turn").type \in {"turn"}
        BY DEF Marker
      <3> QED
        BY <2>2, <3>1, LogOne DEF Quiet
    <2> QED
      BY <2>1, <2>2 DEF NextTurn, OpenTurn
  <1>3. tx["driver"].stage # "summary"
    BY <1>1, DriverFacts
  <1>4. UNCHANGED <<durable, reported, tx, cache, asked, lives>> /\ fails' = fails
    BY DEF NextTurn, bounds
  <1>5. fails \in Nat /\ MaxOverflow \in Nat /\ retries \in 0 .. MaxOverflow
    BY DriverFacts
  <1>6. fails' \in Nat /\ fails' >= fails /\ retries' \in 0 .. MaxOverflow
    BY <1>1, <1>4, <1>5
  <1>7. phase' \in Phases /\ (phase' = "compacting" <=> phase = "compacting")
    BY <1>1 DEF Phases
  <1>8. aborted' \in BOOLEAN
    BY <1>1
  <1>9. phase' \notin {"recovered", "compacting"}
    BY <1>1
  <1> QED
    BY <1>2, <1>3, <1>4, <1>6, <1>7, <1>8, <1>9, PlainHolds

(* An abort leaves the log alone.                                          *)
LEMMA AbortHolds ==
  ASSUME IInv, Abort
  PROVE  IInv' /\ Faithful
  <1>1. phase' = phase /\ aborted' = TRUE /\ UNCHANGED session
    BY DEF Abort
  <1>2. Adds({}) /\ {} \in SUBSET Quiet
    BY <1>1, LogNone
  <1>4. UNCHANGED <<durable, reported, tx, cache, asked, lives>> /\ fails' = fails
        /\ retries' = retries
    BY DEF Abort
  <1>6. fails' \in Nat /\ fails' >= fails /\ aborted' \in BOOLEAN /\ retries' \in 0 .. MaxOverflow
    BY <1>1, <1>4, DriverFacts
  <1>7. phase' \in Phases /\ (phase' = "compacting" <=> phase = "compacting")
        /\ (phase' = "recovered" => phase = "recovered")
    BY <1>1, DriverFacts
  <1> QED
    BY <1>2, <1>4, <1>6, <1>7, PlainHolds

(* Another client appends context, or prunes.                              *)
LEMMA BesideHolds ==
  ASSUME IInv, Beside
  PROVE  IInv' /\ Faithful
  <1>1. phase' = phase /\ UNCHANGED <<turn, tx, cache, durable, reported, lives>>
    BY DEF Beside
  <1>2. Adds({"user", "result"}) /\ {"user", "result"} \in SUBSET Quiet
    <2>1. CASE Log(<<User>>)
      <3>1. User.type \in {"user", "result"}
        BY DEF User
      <3> QED
        BY <2>1, <3>1, LogOne DEF Quiet
    <2>2. ASSUME NEW v, v = Prune \/ v \in BrokenPrunes, Publish(v)
          PROVE  Adds({"user", "result"}) /\ {"user", "result"} \in SUBSET Quiet
      <3>1. View(v, {"result"})
        BY <2>2, PrunesAreViews, DriverFacts
      <3>2. Adds({"result"})
        BY <2>2, <3>1, PublishAdds
      <3> QED
        BY <3>2 DEF Adds, Grows, Quiet
    <2> QED
      BY <2>1, <2>2 DEF Beside
  <1>4. UNCHANGED <<durable, reported, tx, cache, asked, lives>> /\ retries' = retries
        /\ aborted' = aborted
    BY <1>1 DEF turn
  <1>5. fails' \in {fails, fails + 1}
    BY DEF Beside, Fail
  <1>6. fails' \in Nat /\ fails' >= fails /\ aborted' \in BOOLEAN /\ retries' \in 0 .. MaxOverflow
    BY <1>4, <1>5, DriverFacts
  <1>7. phase' \in Phases /\ (phase' = "compacting" <=> phase = "compacting")
        /\ (phase' = "recovered" => phase = "recovered")
    BY <1>1, DriverFacts
  <1>8. "turn" \notin {"user", "result"} /\ "turnend" \notin {"user", "result"}
    OBVIOUS
  <1> QED
    BY <1>2, <1>4, <1>6, <1>7, <1>8, PlainHolds

(* A transaction that is none.                                             *)
LEMMA NoTxIsTyped == NoTx \in TxStates /\ NoTx.stage = "none"
  <1>1. <<>> \in Seq(Nat) /\ 0 \in 0 .. Retries
    BY BoundsAssumption
  <1> QED
    BY <1>1 DEF NoTx, TxStates, Stages, Triggers

(* The surface is recorded before the capacity is asked for.               *)
LEMMA PreStepHolds ==
  ASSUME IInv, PreStep
  PROVE  IInv' /\ Faithful
  <1>1. phase = "pre" /\ phase' \in {"failing", "entering", "capacity"} /\ UNCHANGED session
        /\ UNCHANGED <<turn, cache, durable, reported, bounds>>
    BY DEF PreStep, Goto, StepsOn
  <1>2. Adds({}) /\ {} \in SUBSET Quiet
    BY <1>1, LogNone
  <1>3. tx' \in [Actors -> TxStates] /\ \A w \in Actors : tx'[w].stage = tx[w].stage
    <2>1. tx' = tx \/ tx' = [tx EXCEPT !["driver"].nodes = nodes]
      BY DEF PreStep
    <2>2. nodes \in Seq(Nat)
      <3>1. View(Here, {}) /\ IsList(log)
        BY HereView, DriverFacts
      <3>2. Here.nodes \in Seq(Nat)
        BY <3>1, ViewFacts
      <3> QED
        BY <3>2 DEF Here
    <2>3. tx \in [Actors -> TxStates] /\ "driver" \in Actors
      BY DriverFacts DEF Actors
    <2>4. CASE tx' = [tx EXCEPT !["driver"].nodes = nodes]
      <3>1. PICK r : r = [tx["driver"] EXCEPT !.nodes = nodes]
        OBVIOUS
      <3>2. r \in TxStates /\ r.stage = tx["driver"].stage
        BY <2>2, <2>3, <3>1 DEF TxStates
      <3>3. tx' = [tx EXCEPT !["driver"] = r]
        BY <2>4, <3>1
      <3> QED
        BY <2>3, <3>2, <3>3
    <2> QED
      BY <2>1, <2>3, <2>4
  <1>4. durable' = durable /\ reported' = reported /\ cache' = cache /\ asked' = asked
        /\ lives' = lives /\ fails' = fails /\ aborted' = aborted /\ retries' = retries
    BY <1>1 DEF turn, bounds
  <1>5. tx["driver"].stage # "summary" /\ "driver" \in Actors
    BY <1>1, DriverFacts DEF Actors
  <1>6. fails' \in Nat /\ fails' >= fails /\ aborted' \in BOOLEAN /\ retries' \in 0 .. MaxOverflow
        /\ lives' \in Nat /\ IsCache(cache')
    BY <1>4, DriverFacts
  <1>7. cache'.gen \in 0 .. Generation(log') /\ asked' \in 0 .. Generation(log')
    BY <1>2, <1>4, Widened DEF IInv, Types
  <1>8. phase' \in Phases /\ (phase' = "compacting" <=> tx'["driver"].stage = "summary")
    BY <1>1, <1>3, <1>5 DEF Phases
  <1>9. RetryIsLeft'
    BY <1>1 DEF RetryIsLeft
  <1>10. \A w \in Actors : tx[w].stage = "summary" => tx'[w].stage = "summary"
    BY <1>3
  <1>11. UNCHANGED <<durable, reported>>
    BY <1>4
  <1> QED
    BY <1>2, <1>3, <1>5, <1>6, <1>7, <1>8, <1>9, <1>10, <1>11, QuietHolds

(* A step of the driver that goes on, with a view that has a few results   *)
(* more.                                                                   *)
LEMMA StepOnHolds ==
  ASSUME IInv, phase \in {"capacity", "again"}, NEW v, View(v, {"result"}), StepOn(v),
         IsCache(cache'), cache'.gen \in 0 .. Generation(v.log),
         UNCHANGED <<turn, durable, reported, lives>>, fails' \in {fails, fails + 1}
  PROVE  IInv' /\ Faithful
  <1>1. Publish(v) /\ phase' \in {"failing", "entering"} /\ tx' = [tx EXCEPT !["driver"] = NoTx]
    BY DEF StepOn, Goto, StepsOn
  <1>2. Adds({"result"}) /\ {"result"} \in SUBSET Quiet /\ log' = v.log
    BY <1>1, PublishAdds DEF Quiet
  <1>3. tx["driver"].stage # "summary" /\ "driver" \in Actors /\ tx \in [Actors -> TxStates]
    BY DriverFacts DEF Actors
  <1>4. /\ tx' \in [Actors -> TxStates] /\ tx'["driver"].stage = "none"
        /\ \A w \in Actors : tx[w].stage = "summary" => tx'[w].stage = "summary"
    BY <1>1, <1>3, NoTxIsTyped
  <1>5. durable' = durable /\ reported' = reported /\ asked' = asked
        /\ lives' = lives /\ aborted' = aborted /\ retries' = retries
    BY DEF turn
  <1>6. fails' \in Nat /\ fails' >= fails /\ aborted' \in BOOLEAN /\ retries' \in 0 .. MaxOverflow
        /\ lives' \in Nat
    BY <1>5, DriverFacts
  <1>7. cache'.gen \in 0 .. Generation(log')
    BY <1>2
  <1>8. asked' \in 0 .. Generation(log')
    BY <1>2, <1>5, Widened DEF IInv, Types
  <1>9. phase' \in Phases /\ (phase' = "compacting" <=> tx'["driver"].stage = "summary")
    BY <1>1, <1>4 DEF Phases
  <1>10. RetryIsLeft'
    BY <1>1 DEF RetryIsLeft
  <1>11. UNCHANGED <<durable, reported>>
    BY <1>5
  <1> QED
    BY <1>2, <1>3, <1>4, <1>6, <1>7, <1>8, <1>9, <1>10, <1>11, QuietHolds

(* A transaction starts on a view that has a few results more.             *)
LEMMA BeginHolds ==
  ASSUME IInv, NEW w \in Actors, NEW trigger \in Triggers, NEW attempt \in 0 .. Retries,
         NEW v, View(v, {"result"}), NEW from \in Nat, NEW to \in Nat,
         Begin(w, trigger, attempt, v, from, to), ~Locked(log),
         cache' = Synced(v), UNCHANGED <<durable, reported>>,
         asked' \in {asked, Generation(log)}, phase' \in Phases,
         w = "driver" => phase' = "compacting" /\ tx["driver"].stage # "summary",
         w # "driver" => phase' = phase,
         aborted' \in BOOLEAN, fails' = fails, lives' = lives, retries' = retries,
         trigger = "overflow" => retries < MaxOverflow /\ w = "driver"
  PROVE  IInv' /\ Faithful
  <1>1. /\ IsList(log) /\ SurfaceIsFold /\ IsCache(cache) /\ tx \in [Actors -> TxStates]
        /\ (phase = "compacting" <=> tx["driver"].stage = "summary")
        /\ retries \in 0 .. MaxOverflow /\ fails \in Nat /\ lives \in Nat
    BY DriverFacts
  <1>2. Adds({"result", "start"}) /\ log' = Append(v.log, Bracket("start", w))
        /\ Grows(v.log, log', {"start"}) /\ nodes' = v.nodes
    <2>1. {"result", "start"} = {"result"} \cup {"start"}
      OBVIOUS
    <2> QED
      BY <1>1, <2>1, BeginAdds
  <1>3. /\ IsList(v.log) /\ v.nodes \in Seq(Nat)
        /\ Generation(log) \in Nat /\ Generation(v.log) \in Nat
        /\ Generation(log) <= Generation(v.log)
    BY <1>1, ViewFacts
  <1>4. PICK r : r = [stage |-> "summary", trigger |-> trigger, from |-> from, to |-> to,
                      nodes |-> v.nodes, attempt |-> attempt]
    OBVIOUS
  <1>5. r \in TxStates /\ r.stage = "summary" /\ r.trigger = trigger
    BY <1>3, <1>4 DEF TxStates, Stages
  <1>6. tx' = [tx EXCEPT ![w] = r]
    BY <1>4 DEF Begin
  <1>7. tx' \in [Actors -> TxStates] /\ tx'[w] = r /\ \A x \in Actors : x # w => tx'[x] = tx[x]
    BY <1>1, <1>5, <1>6
  <1>8. IsCache(cache') /\ cache'.gen \in 0 .. Generation(log')
    <2>1. IsCache(cache') /\ cache'.gen \in {cache.gen, Generation(v.log)}
      BY <1>1, <1>3, SyncedIsCache
    <2>2. cache.gen \in 0 .. Generation(log')
      BY <1>1, <1>2, Widened DEF IInv
    <2>3. Generation(v.log) <= Generation(log') /\ Generation(log') \in Nat
      BY <1>2, GenerationGrows
    <2> QED
      BY <1>3, <2>1, <2>2, <2>3
  <1>9. asked' \in 0 .. Generation(log')
    BY <1>1, <1>2, Widened DEF IInv
  <1>10. phase' = "compacting" <=> tx'["driver"].stage = "summary"
    <2>1. CASE w = "driver"
      BY <1>5, <1>7, <2>1
    <2>2. CASE w # "driver"
      BY <1>1, <1>7, <2>2 DEF Actors
    <2> QED
      BY <2>1, <2>2
  <1>11. Types' /\ TypeOK'
    <2>1. fails' \in Nat /\ lives' \in Nat /\ retries' \in 0 .. MaxOverflow
      BY <1>1
    <2> QED
      BY <1>2, <1>7, <1>8, <1>9, <1>10, <2>1, TypesStep
  <1>12. RetryIsLeft'
    <2>1. CASE w = "driver"
      BY <1>5, <1>7, <2>1 DEF RetryIsLeft
    <2>2. CASE w # "driver"
      BY <1>7, <2>2 DEF IInv, RetryIsLeft, Actors
    <2> QED
      BY <2>1, <2>2
  <1>13. LockIsOwned'
    BY <1>5, <1>7 DEF LockIsOwned
  <1>14. ReportedIsStored'
    BY <1>1, <1>2, ReportedKept DEF IInv
  <1>15. SurfaceIsFold'
    BY <1>1, <1>2, AddsFacts
  <1>16. OneBracket'
    <2>1. Grows(log, v.log, {"result"}) /\ Grows(log, log', {"result", "start"})
      BY <1>2 DEF View, Adds
    <2>2. Len(log) \in Nat /\ Len(v.log) \in Nat /\ Len(log) <= Len(v.log)
          /\ Len(log') = Len(v.log) + 1
          /\ DOMAIN log' = 1 .. Len(log')
      <3>1. Len(log) \in Nat /\ Len(v.log) \in Nat /\ Len(log) <= Len(v.log)
        BY <2>1, ListFacts DEF Grows
      <3>2. IsList(log') /\ Len(log') = Len(v.log) + 1
        BY <1>2, <1>3, ListAppend
      <3> QED
        BY <3>1, <3>2, ListFacts
    <2>3. ~Locked(v.log)
      BY <2>1, LockKept
    <2>4. ASSUME NEW i \in Events(log', {"start"}) PROVE ~Locked(SubSeq(log', 1, i - 1))
      <3>1. i \in 1 .. Len(log') /\ log'[i].type = "start"
        BY <2>2, <2>4 DEF Events
      <3>2. CASE i \in 1 .. Len(log)
        <4>1. log[i].type = "start" /\ i - 1 \in 0 .. Len(log) /\ i \in DOMAIN log
          BY <1>1, <2>1, <2>2, <3>1, <3>2, ListFacts DEF Grows
        <4>2. i \in Events(log, {"start"})
          BY <4>1 DEF Events
        <4>3. SubSeq(log', 1, i - 1) = SubSeq(log, 1, i - 1)
          BY <2>1, <4>1, PrefixKept
        <4> QED
          BY <4>2, <4>3 DEF IInv, OneBracket
      <3>3. CASE i \in Len(log) + 1 .. Len(v.log)
        <4>1. v.log[i].type = "result" /\ i \in 1 .. Len(v.log)
          BY <2>1, <2>2, <3>3 DEF Grows
        <4>2. log'[i] = v.log[i]
          BY <1>2, <4>1 DEF Grows
        <4> QED
          BY <3>1, <4>1, <4>2
      <3>4. CASE i = Len(v.log) + 1
        <4>1. i - 1 = Len(v.log) /\ Len(v.log) \in 0 .. Len(v.log)
          BY <2>2, <3>4
        <4>2. SubSeq(log', 1, Len(v.log)) = SubSeq(v.log, 1, Len(v.log))
          BY <1>2, <4>1, PrefixKept
        <4>3. SubSeq(v.log, 1, Len(v.log)) = v.log
          <5>1. /\ IsList(SubSeq(v.log, 1, Len(v.log)))
                /\ Len(SubSeq(v.log, 1, Len(v.log))) = Len(v.log)
                /\ \A j \in 1 .. Len(v.log) : SubSeq(v.log, 1, Len(v.log))[j] = v.log[j]
            BY <1>3, <4>1, ListPrefix
          <5> QED
            BY <1>3, <5>1, ListsEqual
        <4> QED
          BY <2>3, <4>1, <4>2, <4>3
      <3> QED
        BY <2>2, <3>1, <3>2, <3>3, <3>4
    <2> QED
      BY <2>4 DEF OneBracket
  <1>17. Faithful
    BY <1>1, <1>2, QuietIsFaithful
  <1> QED
    BY <1>11, <1>12, <1>13, <1>14, <1>15, <1>16, <1>17 DEF IInv

(* One attempt to compact under pressure.                                  *)
LEMMA AttemptHolds ==
  ASSUME IInv, phase \in {"capacity", "again"}, NEW v, View(v, {"result"}),
         NEW attempt \in 0 .. Retries, Attempt(v, attempt),
         UNCHANGED <<turn, durable, reported, lives>>
  PROVE  IInv' /\ Faithful
  <1>1. /\ IsList(log) /\ SurfaceIsFold /\ IsCache(cache)
        /\ (phase = "compacting" <=> tx["driver"].stage = "summary")
        /\ aborted \in BOOLEAN /\ cache.gen \in 0 .. Generation(log)
    BY DriverFacts DEF IInv, TypeOK
  <1>2. /\ IsList(v.log) /\ v.nodes \in Seq(Nat)
        /\ Generation(log) \in Nat /\ Generation(v.log) \in Nat
        /\ Generation(log) <= Generation(v.log)
    BY <1>1, ViewFacts
  <1>3. durable' = durable /\ reported' = reported /\ asked' = asked
        /\ lives' = lives /\ aborted' = aborted /\ retries' = retries
    BY DEF turn
  <1>4. PICK span : span = Selected(v, Retain)
    OBVIOUS
  <1>5. CASE span # <<>> /\ ~Locked(v.log)
    <2>1. /\ cache' = Synced(v)
          /\ \/ /\ BeginSelected("pressure", attempt, v, span) /\ Goto("compacting")
                /\ UNCHANGED fails
             \/ Fail /\ StepOn(v)
      BY <1>4, <1>5 DEF Attempt
    <2>2. span[1] \in Nat /\ span[Len(span)] \in Nat
      BY <1>2, <1>4, <1>5, SelectedIs
    <2>3. CASE BeginSelected("pressure", attempt, v, span) /\ Goto("compacting") /\ UNCHANGED fails
      <3>1. Begin("driver", "pressure", attempt, v, span[1], span[Len(span)]) /\ phase' = "compacting"
        BY <2>3 DEF BeginSelected, Goto
      <3>2. ~Locked(log)
        BY <1>5, LockKept DEF View
      <3>3. /\ "driver" \in Actors /\ "pressure" \in Triggers /\ phase' \in Phases
            /\ tx["driver"].stage # "summary" /\ aborted' \in BOOLEAN
        BY <1>1, <1>3, <3>1 DEF Actors, Triggers, Phases
      <3>4. UNCHANGED <<durable, reported>> /\ fails' = fails
        BY <1>3, <2>3
      <3> QED
        BY <1>3, <2>1, <2>2, <3>1, <3>2, <3>3, <3>4, BeginHolds
    <2>4. CASE Fail /\ StepOn(v)
      <3>1. fails' \in {fails, fails + 1}
        BY <2>4 DEF Fail
      <3>2. IsCache(cache') /\ cache'.gen \in {cache.gen, Generation(v.log)}
        BY <1>1, <1>2, <2>1, SyncedIsCache
      <3>3. cache'.gen \in 0 .. Generation(v.log)
        BY <1>1, <1>2, <3>2
      <3> QED
        BY <2>4, <3>1, <3>2, <3>3, StepOnHolds
    <2> QED
      BY <2>1, <2>3, <2>4
  <1>6. CASE ~(span # <<>> /\ ~Locked(v.log))
    <2>1. StepOn(v) /\ cache' = Looked(v, Retain) /\ fails' \in {fails, fails + 1}
      BY <1>4, <1>6 DEF Attempt
    <2>2. cache' \in {cache, Synced(v)}
      BY <2>1 DEF Looked
    <2>3. IsCache(cache') /\ cache'.gen \in {cache.gen, Generation(v.log)}
      BY <1>1, <1>2, <2>2, SyncedIsCache
    <2>4. cache'.gen \in 0 .. Generation(v.log)
      BY <1>1, <1>2, <2>3
    <2> QED
      BY <2>1, <2>3, <2>4, StepOnHolds
  <1> QED
    BY <1>5, <1>6

(* Under pressure results are pruned, then a range is compacted.           *)
LEMMA CapacityHolds ==
  ASSUME IInv, Capacity
  PROVE  IInv' /\ Faithful
  <1>1. /\ IsList(log) /\ SurfaceIsFold /\ IsCache(cache)
        /\ cache.gen \in 0 .. Generation(log) /\ Retries \in Nat
    BY DriverFacts DEF IInv, TypeOK
  <1>2. View(Here, {"result"}) /\ View(Prune, {"result"})
        /\ \A v \in BrokenPrunes : View(v, {"result"})
    BY <1>1, HereView, PrunesAreViews
  <1>3. phase \in {"capacity", "again"} /\ UNCHANGED <<turn, durable, reported, lives>>
    BY DEF Capacity
  <1>4. PICK pruned : pruned = Prune
    OBVIOUS
  <1>5. View(pruned, {"result"})
    BY <1>2, <1>4
  <1>7. \/ StepOn(Here) /\ UNCHANGED <<cache, fails>>
        \/ Fail /\ (\E v \in BrokenPrunes : StepOn(v)) /\ UNCHANGED cache
        \/ Attempt(pruned, 0)
        \/ StepOn(pruned) /\ UNCHANGED <<cache, fails>>
    BY <1>4 DEF Capacity
  <1>8. ASSUME NEW v, View(v, {"result"}), StepOn(v), UNCHANGED cache, fails' \in {fails, fails + 1}
        PROVE  IInv' /\ Faithful
    <2>1. /\ Generation(log) \in Nat /\ Generation(v.log) \in Nat
          /\ Generation(log) <= Generation(v.log)
      BY <1>1, <1>8, ViewFacts
    <2>2. IsCache(cache') /\ cache'.gen \in 0 .. Generation(v.log)
      BY <1>1, <1>8, <2>1
    <2> QED
      BY <1>3, <1>8, <2>2, StepOnHolds
  <1>9. CASE Attempt(pruned, 0)
    <2>1. 0 \in 0 .. Retries
      BY <1>1
    <2> QED
      BY <1>3, <1>5, <1>9, <2>1, AttemptHolds
  <1>10. CASE StepOn(Here) /\ UNCHANGED <<cache, fails>>
    BY <1>2, <1>8, <1>10
  <1>11. CASE Fail /\ (\E v \in BrokenPrunes : StepOn(v)) /\ UNCHANGED cache
    <2>1. fails' \in {fails, fails + 1}
      BY <1>11 DEF Fail
    <2> QED
      BY <1>2, <1>8, <1>11, <2>1
  <1>12. CASE StepOn(pruned) /\ UNCHANGED <<cache, fails>>
    BY <1>5, <1>8, <1>12
  <1> QED
    BY <1>7, <1>9, <1>10, <1>11, <1>12

(* A range is compacted again while the pressure lasts.                    *)
LEMMA AgainHolds ==
  ASSUME IInv, Again
  PROVE  IInv' /\ Faithful
  <1>1. /\ IsList(log) /\ SurfaceIsFold /\ IsCache(cache)
        /\ cache.gen \in 0 .. Generation(log) /\ Retries \in Nat
        /\ tx["driver"].attempt \in 0 .. Retries
    BY DriverFacts DEF IInv, TypeOK, Actors
  <1>2. View(Here, {"result"})
    BY <1>1, HereView
  <1>3. phase \in {"capacity", "again"} /\ UNCHANGED <<turn, durable, reported, lives>>
    BY DEF Again
  <1>4. CASE Tokens(Here) >= Threshold /\ tx["driver"].attempt < Retries
    <2>1. Attempt(Here, tx["driver"].attempt + 1) /\ tx["driver"].attempt + 1 \in 0 .. Retries
      BY <1>1, <1>4 DEF Again
    <2> QED
      BY <1>2, <1>3, <2>1, AttemptHolds
  <1>5. CASE ~(Tokens(Here) >= Threshold /\ tx["driver"].attempt < Retries)
    <2>1. StepOn(Here) /\ UNCHANGED cache /\ fails' \in {fails, fails + 1}
      BY <1>5 DEF Again
    <2>2. IsCache(cache') /\ cache'.gen \in 0 .. Generation(Here.log)
      BY <1>1, <2>1 DEF Here
    <2> QED
      BY <1>2, <1>3, <2>1, <2>2, StepOnHolds
  <1> QED
    BY <1>4, <1>5

(* An overflow is recovered from by pruning and by compacting.             *)
LEMMA OverflowHolds ==
  ASSUME IInv, Overflow
  PROVE  IInv' /\ Faithful
  <1>1. /\ IsList(log) /\ SurfaceIsFold /\ IsCache(cache) /\ tx \in [Actors -> TxStates]
        /\ cache.gen \in 0 .. Generation(log) /\ MaxOverflow \in Nat /\ Retries \in Nat
        /\ (phase = "compacting" <=> tx["driver"].stage = "summary")
        /\ aborted \in BOOLEAN /\ retries \in 0 .. MaxOverflow /\ fails \in Nat /\ lives \in Nat
    BY DriverFacts DEF IInv, TypeOK
  <1>2. phase = "request" /\ retries < MaxOverflow /\ asked' = Generation(log)
        /\ aborted' = aborted /\ retries' = retries /\ durable' = durable /\ reported' = reported
        /\ lives' = lives /\ UNCHANGED <<durable, reported>>
    BY DEF Overflow
  <1>3. PICK pruned : pruned = Prune
    OBVIOUS
  <1>4. View(pruned, {"result"})
    BY <1>1, <1>3, PrunesAreViews
  <1>5. /\ pruned.nodes \in Seq(Nat)
        /\ Generation(log) \in Nat /\ Generation(pruned.log) \in Nat
        /\ Generation(log) <= Generation(pruned.log)
    BY <1>1, <1>4, ViewFacts
  <1>6. PICK span : span = Selected(pruned, 0)
    OBVIOUS
  <1> DEFINE ready == span # <<>> /\ ~Locked(log)
  <1>7. \/ /\ ready /\ BeginSelected("overflow", 0, pruned, span) /\ Goto("compacting")
           /\ cache' = Synced(pruned) /\ UNCHANGED fails
        \/ /\ ready /\ Fail /\ Publish(pruned) /\ Goto("recovered")
           /\ cache' = Synced(pruned) /\ UNCHANGED tx
        \/ /\ ~ready /\ Publish(pruned) /\ Goto("recovered")
           /\ cache' = Looked(pruned, 0) /\ UNCHANGED <<tx, fails>>
        \/ /\ Fail /\ (\E v \in BrokenPrunes : Publish(v)) /\ Goto("recovered")
           /\ UNCHANGED <<tx, cache>>
    BY <1>3, <1>6 DEF Overflow
  <1>8. CASE /\ ready /\ BeginSelected("overflow", 0, pruned, span) /\ Goto("compacting")
             /\ cache' = Synced(pruned) /\ UNCHANGED fails
    <2>1. /\ Begin("driver", "overflow", 0, pruned, span[1], span[Len(span)])
          /\ phase' = "compacting" /\ cache' = Synced(pruned) /\ fails' = fails
      BY <1>8 DEF BeginSelected, Goto
    <2>2. span[1] \in Nat /\ span[Len(span)] \in Nat
      BY <1>5, <1>6, <1>8, SelectedIs
    <2>3. /\ "driver" \in Actors /\ "overflow" \in Triggers /\ phase' \in Phases
          /\ tx["driver"].stage # "summary" /\ aborted' \in BOOLEAN /\ 0 \in 0 .. Retries
      BY <1>1, <1>2, <2>1 DEF Actors, Triggers, Phases
    <2> QED
      BY <1>2, <1>4, <1>8, <2>1, <2>2, <2>3, BeginHolds
  <1>9. ASSUME NEW v, View(v, {"result"}), Publish(v), Goto("recovered"), UNCHANGED tx,
               cache' \in {cache, Synced(v)}, fails' \in {fails, fails + 1}
        PROVE  IInv' /\ Faithful
    <2>1. Adds({"result"}) /\ {"result"} \in SUBSET Quiet /\ log' = v.log
      BY <1>9, PublishAdds DEF Quiet
    <2>2. /\ v.nodes \in Seq(Nat) /\ IsList(v.log)
          /\ Generation(log) \in Nat /\ Generation(v.log) \in Nat
          /\ Generation(log) <= Generation(v.log)
      BY <1>1, <1>9, ViewFacts
    <2>3. IsCache(cache') /\ cache'.gen \in {cache.gen, Generation(v.log)}
      BY <1>1, <1>9, <2>2, SyncedIsCache
    <2>4. cache'.gen \in 0 .. Generation(log') /\ asked' \in 0 .. Generation(log')
      BY <1>1, <1>2, <2>1, <2>2, <2>3
    <2>5. /\ phase' \in Phases /\ (phase' = "compacting" <=> tx'["driver"].stage = "summary")
          /\ tx' \in [Actors -> TxStates] /\ tx["driver"].stage # "summary"
          /\ \A w \in Actors : tx[w].stage = "summary" => tx'[w].stage = "summary"
      BY <1>1, <1>2, <1>9 DEF Phases, Goto
    <2>6. RetryIsLeft'
      BY <1>2 DEF RetryIsLeft
    <2>7. fails' \in Nat /\ fails' >= fails /\ lives' \in Nat /\ aborted' \in BOOLEAN
          /\ retries' \in 0 .. MaxOverflow
      BY <1>1, <1>2, <1>9
    <2> QED
      BY <1>2, <2>1, <2>3, <2>4, <2>5, <2>6, <2>7, QuietHolds
  <1>10. CASE /\ ready /\ Fail /\ Publish(pruned) /\ Goto("recovered")
              /\ cache' = Synced(pruned) /\ UNCHANGED tx
    <2>1. fails' \in {fails, fails + 1}
      BY <1>10 DEF Fail
    <2> QED
      BY <1>4, <1>9, <1>10, <2>1
  <1>11. CASE /\ ~ready /\ Publish(pruned) /\ Goto("recovered")
              /\ cache' = Looked(pruned, 0) /\ UNCHANGED <<tx, fails>>
    <2>1. cache' \in {cache, Synced(pruned)}
      BY <1>11 DEF Looked
    <2> QED
      BY <1>4, <1>9, <1>11, <2>1
  <1>12. CASE /\ Fail /\ (\E v \in BrokenPrunes : Publish(v)) /\ Goto("recovered")
              /\ UNCHANGED <<tx, cache>>
    <2>1. PICK v \in BrokenPrunes : Publish(v)
      BY <1>12
    <2>2. View(v, {"result"}) /\ fails' \in {fails, fails + 1} /\ cache' \in {cache, Synced(v)}
      BY <1>1, <1>12, <2>1, PrunesAreViews DEF Fail
    <2> QED
      BY <1>9, <1>12, <2>1, <2>2
  <1> QED
    BY <1>7, <1>8, <1>10, <1>11, <1>12

(* A start that is not accepted changes nothing but the cache.             *)
LEMMA RefusedHolds ==
  ASSUME IInv, Fail, cache' = Synced(Here),
         UNCHANGED <<session, phase, tx, turn, durable, reported, lives>>
  PROVE  IInv' /\ Faithful
  <1>1. /\ phase' = phase /\ tx' = tx /\ aborted' = aborted /\ retries' = retries /\ asked' = asked
        /\ lives' = lives /\ log' = log /\ nodes' = nodes /\ UNCHANGED session
        /\ UNCHANGED <<durable, reported>> /\ fails' = fails + 1
    BY DEF turn, session, Fail
  <1>2. Adds({}) /\ {} \in SUBSET Quiet
    BY <1>1, LogNone
  <1>3. /\ IsList(log) /\ SurfaceIsFold /\ IsCache(cache) /\ tx \in [Actors -> TxStates]
        /\ (phase = "compacting" <=> tx["driver"].stage = "summary") /\ phase \in Phases
        /\ aborted \in BOOLEAN /\ retries \in 0 .. MaxOverflow /\ fails \in Nat /\ lives \in Nat
        /\ cache.gen \in 0 .. Generation(log) /\ asked \in 0 .. Generation(log)
    BY DriverFacts DEF IInv, TypeOK
  <1>4. Here.nodes \in Seq(Nat) /\ Here.log = log /\ Generation(log) \in Nat
    <2>1. View(Here, {})
      BY <1>3, HereView
    <2> QED
      BY <1>3, <2>1, ViewFacts DEF Here
  <1>5. IsCache(cache') /\ cache'.gen \in {cache.gen, Generation(log)}
    BY <1>3, <1>4, SyncedIsCache
  <1>6. cache'.gen \in 0 .. Generation(log') /\ asked' \in 0 .. Generation(log')
    BY <1>1, <1>3, <1>4, <1>5
  <1>7. fails' \in Nat /\ fails' >= fails /\ lives' \in Nat /\ retries' \in 0 .. MaxOverflow
    BY <1>1, <1>3
  <1>8. RetryIsLeft'
    BY <1>1 DEF IInv, RetryIsLeft
  <1>9. /\ phase' \in Phases /\ (phase' = "compacting" <=> tx'["driver"].stage = "summary")
        /\ tx' \in [Actors -> TxStates] /\ aborted' \in BOOLEAN
        /\ \A w \in Actors : tx[w].stage = "summary" => tx'[w].stage = "summary"
    BY <1>1, <1>3
  <1> QED
    BY <1>1, <1>2, <1>5, <1>6, <1>7, <1>8, <1>9, QuietHolds

(* A command compacts between two turns.                                   *)
LEMMA CompactNowHolds ==
  ASSUME IInv, CompactNow
  PROVE  IInv' /\ Faithful
  <1>1. /\ IsList(log) /\ SurfaceIsFold /\ Retries \in Nat
        /\ (phase = "compacting" <=> tx["driver"].stage = "summary") /\ aborted \in BOOLEAN
    BY DriverFacts
  <1>2. View(Here, {"result"})
    BY <1>1, HereView
  <1>3. PICK span : span = Selected(Here, 0)
    OBVIOUS
  <1>4. /\ phase = "idle" /\ ~Locked(log) /\ span # <<>> /\ cache' = Synced(Here)
        /\ UNCHANGED <<turn, durable, reported, lives>>
        /\ \/ /\ BeginSelected("manual", 0, Here, span) /\ Goto("compacting")
              /\ UNCHANGED fails
           \/ Fail /\ UNCHANGED <<session, phase, tx>>
    BY <1>3 DEF CompactNow
  <1>5. CASE BeginSelected("manual", 0, Here, span) /\ Goto("compacting") /\ UNCHANGED fails
    <2>1. span[1] \in Nat /\ span[Len(span)] \in Nat
      <3>1. Here.nodes \in Seq(Nat)
        BY <1>1, <1>2, ViewFacts
      <3> QED
        BY <1>3, <1>4, <3>1, SelectedIs
    <2>2. /\ phase' = "compacting"
          /\ Begin("driver", "manual", 0, Here, span[1], span[Len(span)])
          /\ aborted' = aborted /\ retries' = retries /\ asked' = asked
          /\ UNCHANGED <<durable, reported>> /\ fails' = fails /\ lives' = lives
      BY <1>4, <1>5 DEF BeginSelected, Goto, turn
    <2>3. /\ "driver" \in Actors /\ "manual" \in Triggers /\ phase' \in Phases
          /\ tx["driver"].stage # "summary" /\ aborted' \in BOOLEAN /\ 0 \in 0 .. Retries
      BY <1>1, <1>4, <2>2 DEF Actors, Triggers, Phases
    <2> QED
      BY <1>2, <1>4, <2>1, <2>2, <2>3, BeginHolds
  <1>6. CASE Fail /\ UNCHANGED <<session, phase, tx>>
    BY <1>4, <1>6, RefusedHolds
  <1> QED
    BY <1>4, <1>5, <1>6

(* A caller compacts a range of its own beside the turn.                   *)
LEMMA CompactRegionHolds ==
  ASSUME IInv, CompactRegion
  PROVE  IInv' /\ Faithful
  <1>1. /\ IsList(log) /\ SurfaceIsFold /\ Retries \in Nat /\ phase \in Phases
        /\ aborted \in BOOLEAN
    BY DriverFacts
  <1>2. View(Here, {"result"})
    BY <1>1, HereView
  <1>3. /\ ~Locked(log) /\ cache' = Synced(Here) /\ phase' = phase
        /\ UNCHANGED <<phase, turn, durable, reported, lives>>
    BY DEF CompactRegion
  <1>4. PICK from \in ToSet(nodes), to \in ToSet(nodes) :
          \/ Begin("caller", "region", 0, Here, from, to) /\ UNCHANGED fails
          \/ Fail /\ UNCHANGED <<session, tx>>
    BY DEF CompactRegion
  <1>5. CASE Begin("caller", "region", 0, Here, from, to) /\ UNCHANGED fails
    <2>1. from \in Nat /\ to \in Nat
      <3>1. nodes \in Seq(Nat)
        <4>1. Here.nodes \in Seq(Nat)
          BY <1>1, <1>2, ViewFacts
        <4> QED
          BY <4>1 DEF Here
      <3>2. \A x \in ToSet(nodes) : x \in Nat
        BY <3>1, ElementOfSeq, LenProperties DEF ToSet
      <3> QED
        BY <1>4, <3>2
    <2>2. /\ aborted' = aborted /\ retries' = retries /\ asked' = asked
          /\ UNCHANGED <<durable, reported>> /\ fails' = fails /\ lives' = lives
      BY <1>3, <1>5 DEF turn
    <2>3. /\ "caller" \in Actors /\ "region" \in Triggers /\ phase' \in Phases
          /\ aborted' \in BOOLEAN /\ 0 \in 0 .. Retries
      BY <1>1, <1>3, <2>2 DEF Actors, Triggers
    <2> QED
      BY <1>2, <1>3, <1>5, <2>1, <2>2, <2>3, BeginHolds
  <1>6. CASE Fail /\ UNCHANGED <<session, tx>>
    BY <1>3, <1>6, RefusedHolds
  <1> QED
    BY <1>4, <1>5, <1>6

(* A flush stores the closed bracket before it is reported.                *)
LEMMA FlushHolds ==
  ASSUME IInv, Flush
  PROVE  IInv' /\ Faithful
  <1>1. /\ phase = "flushing" /\ phase' = "idle" /\ aborted' = FALSE /\ UNCHANGED session
        /\ retries' = retries /\ asked' = asked /\ tx' = tx /\ cache' = cache
        /\ fails' = fails /\ lives' = lives /\ log' = log /\ nodes' = nodes
    BY DEF Flush, Goto, bounds, session
  <1>2. /\ IsList(log) /\ SurfaceIsFold /\ Len(log) \in Nat /\ DOMAIN log = 1 .. Len(log)
    BY DriverFacts, ListFacts
  <1>3. PICK end : end = Last0(Events(log, {"end"}))
    OBVIOUS
  <1>4. /\ end \in Nat /\ end <= Len(log)
        /\ end # 0 => end \in 1 .. Len(log) /\ log[end].type = "end"
    BY <1>2, <1>3, LastEventIs
  <1>5. \/ /\ durable' = IF end > durable THEN end ELSE durable
           /\ reported' = IF ~log[end].failed /\ ~aborted THEN end ELSE reported
        \/ durable' = durable /\ reported' = reported
    BY <1>3 DEF Flush
  <1>6. durable \in 0 .. Len(log) /\ reported \in 0 .. durable
    BY DEF IInv, TypeOK
  <1>7. durable' \in 0 .. Len(log) /\ reported' \in 0 .. durable'
    BY <1>2, <1>4, <1>5, <1>6
  <1>8. Types'
    BY <1>1 DEF IInv, Types
  <1>9. TypeOK'
    <2>1. tx["driver"].stage # "summary"
      BY <1>1, DriverFacts
    <2>2. phase' \in Phases /\ (phase' = "compacting" <=> tx'["driver"].stage = "summary")
      BY <1>1, <2>1 DEF Phases
    <2>3. Generation(log') = Generation(log)
      BY <1>1
    <2> QED
      BY <1>1, <1>7, <2>2, <2>3 DEF IInv, TypeOK, Phases
  <1>10. RetryIsLeft'
    BY <1>1 DEF RetryIsLeft
  <1>11. LockIsOwned' /\ OneBracket' /\ SurfaceIsFold'
    BY <1>1 DEF IInv, LockIsOwned, OneBracket, SurfaceIsFold
  <1>12. ReportedIsStored'
    <2>1. CASE reported' = reported
      BY <1>1, <2>1 DEF IInv, ReportedIsStored
    <2>2. CASE reported' = end /\ ~log[end].failed
      BY <1>1, <1>4, <2>2 DEF ReportedIsStored
    <2> QED
      BY <1>5, <2>1, <2>2
  <1>13. Faithful
    BY <1>1, LogNone, <1>2, QuietIsFaithful
  <1> QED
    BY <1>8, <1>9, <1>10, <1>11, <1>12, <1>13 DEF IInv

---------------------------------------------------------------------------
(* The end of a transaction.                                               *)


(* What a settled summary may append.                                      *)
Closing(w, price, es) ==
  LET t == tx[w]
      summary == Summary(w, Span(t.nodes, t.from, t.to))
      checkpoint == Checkpoint(w, t.from, t.to, price)
  IN \/ es = <<>> \/ es = <<End(w, TRUE)>>
     \/ /\ Stable(t) /\ Smaller(t, price)
        /\ \/ es = <<summary, checkpoint, End(w, FALSE)>>
           \/ es = <<summary, End(w, TRUE)>>
           \/ es = <<summary, checkpoint>>

(* It does; and what it appends when no append fails ends it.              *)
LEMMA AppendedCloses ==
  ASSUME NEW w, NEW price, NEW es,
         es = Appended(w, price).whole \/ es \in Appended(w, price).broken
  PROVE  /\ Closing(w, price, es)
         /\ es = Appended(w, price).whole => es # <<>> /\ es[Len(es)].type = "end"
  <1>1. PICK t : t = tx[w]
    OBVIOUS
  <1>2. PICK summary : summary = Summary(w, Span(t.nodes, t.from, t.to))
    OBVIOUS
  <1>3. PICK checkpoint : checkpoint = Checkpoint(w, t.from, t.to, price)
    OBVIOUS
  <1>4. PICK closed : closed = <<End(w, TRUE)>>
    OBVIOUS
  <1>5. PICK landed : landed = <<summary, checkpoint, End(w, FALSE)>>
    OBVIOUS
  <1>6. End(w, TRUE).type = "end" /\ End(w, FALSE).type = "end"
    BY DEF End
  <1>7. (closed # <<>> /\ closed[Len(closed)].type = "end")
        /\ (landed # <<>> /\ landed[Len(landed)].type = "end")
    BY <1>4, <1>5, <1>6
  <1>8. CASE price # 0 /\ Smaller(t, price) /\ (t.trigger = "manual" => ~aborted) /\ Stable(t)
    <2>1. Appended(w, price)
            = [whole |-> landed, broken |-> {closed, <<summary, End(w, TRUE)>>, <<summary, checkpoint>>}]
      BY <1>1, <1>2, <1>3, <1>4, <1>5, <1>8 DEF Appended
    <2>2. /\ Appended(w, price).whole = landed
          /\ Appended(w, price).broken = {closed, <<summary, End(w, TRUE)>>, <<summary, checkpoint>>}
      BY <2>1
    <2>3. \/ es = landed \/ es = closed \/ es = <<summary, End(w, TRUE)>> \/ es = <<summary, checkpoint>>
      BY <2>2
    <2>4. Closing(w, price, es)
      BY <1>1, <1>2, <1>3, <1>4, <1>5, <1>8, <2>3 DEF Closing
    <2> QED
      BY <1>7, <2>2, <2>4
  <1>9. CASE ~(price # 0 /\ Smaller(t, price) /\ (t.trigger = "manual" => ~aborted) /\ Stable(t))
    <2>1. Appended(w, price) = [whole |-> closed, broken |-> {<<>>}]
      BY <1>1, <1>4, <1>9 DEF Appended
    <2>2. Appended(w, price).whole = closed /\ Appended(w, price).broken = {<<>>}
      BY <2>1
    <2>3. es = closed \/ es = <<>>
      BY <2>2
    <2>4. Closing(w, price, es)
      BY <1>4, <2>3 DEF Closing
    <2> QED
      BY <1>7, <2>2, <2>4
  <1> QED
    BY <1>8, <1>9

(* It is a list of these types, in which a checkpoint is the second entry  *)
(* and follows its summary.                                                *)
LEMMA ClosingIs ==
  ASSUME NEW w, NEW price, NEW es, Closing(w, price, es)
  PROVE  /\ IsList(es)
         /\ \A j \in 1 .. Len(es) : es[j].type \in {"summary", "checkpoint", "end"}
         /\ \A j \in 1 .. Len(es) : es[j].type = "checkpoint" =>
              /\ j = 2 /\ Stable(tx[w]) /\ Smaller(tx[w], price)
              /\ es[1] = Summary(w, Span(tx[w].nodes, tx[w].from, tx[w].to))
              /\ es[2] = Checkpoint(w, tx[w].from, tx[w].to, price)
  <1>1. PICK t : t = tx[w]
    OBVIOUS
  <1>2. PICK summary : summary = Summary(w, Span(t.nodes, t.from, t.to))
    OBVIOUS
  <1>3. PICK checkpoint : checkpoint = Checkpoint(w, t.from, t.to, price)
    OBVIOUS
  <1>4. PICK failed : failed = End(w, TRUE)
    OBVIOUS
  <1>5. PICK closed : closed = End(w, FALSE)
    OBVIOUS
  <1>6. summary.type = "summary" /\ checkpoint.type = "checkpoint"
        /\ failed.type = "end" /\ closed.type = "end"
    BY <1>2, <1>3, <1>4, <1>5 DEF Summary, Checkpoint, End
  <1>7. \/ es = <<>> \/ es = <<failed>>
        \/ /\ Stable(t) /\ Smaller(t, price)
           /\ \/ es = <<summary, checkpoint, closed>> \/ es = <<summary, failed>>
              \/ es = <<summary, checkpoint>>
    BY <1>1, <1>2, <1>3, <1>4, <1>5 DEF Closing
  <1> DEFINE Fits ==
        /\ es \in Seq({summary, checkpoint, closed, failed})
        /\ \A j \in 1 .. Len(es) : es[j].type \in {"summary", "checkpoint", "end"}
        /\ \A j \in 1 .. Len(es) : es[j].type = "checkpoint" =>
             j = 2 /\ Stable(t) /\ Smaller(t, price) /\ es[1] = summary /\ es[2] = checkpoint
  <1>8. Fits
    <2>1. CASE es = <<>>
      BY <2>1
    <2>2. CASE es = <<failed>>
      <3>1. \A j \in 1 .. Len(es) : es[j] = failed
        BY <2>2
      <3> QED
        BY <1>6, <2>2, <3>1
    <2>3. CASE es = <<summary, failed>>
      <3>1. \A j \in 1 .. Len(es) : es[j] \in {summary, failed}
        BY <2>3
      <3> QED
        BY <1>6, <2>3, <3>1
    <2>4. CASE Stable(t) /\ Smaller(t, price) /\ es = <<summary, checkpoint>>
      <3>1. \A j \in 1 .. Len(es) : es[j] = summary \/ (j = 2 /\ es[j] = checkpoint)
        BY <2>4
      <3>2. es[1] = summary /\ es[2] = checkpoint
            /\ es \in Seq({summary, checkpoint, closed, failed})
        BY <2>4
      <3> QED
        BY <1>6, <2>4, <3>1, <3>2
    <2>5. CASE Stable(t) /\ Smaller(t, price) /\ es = <<summary, checkpoint, closed>>
      <3>1. \A j \in 1 .. Len(es) : es[j] = summary \/ (j = 2 /\ es[j] = checkpoint) \/ es[j] = closed
        BY <2>5
      <3>2. es[1] = summary /\ es[2] = checkpoint
            /\ es \in Seq({summary, checkpoint, closed, failed})
        BY <2>5
      <3> QED
        BY <1>6, <2>5, <3>1, <3>2
    <2> QED
      BY <1>7, <2>1, <2>2, <2>3, <2>4, <2>5
  <1> QED
    BY <1>1, <1>2, <1>3, <1>8 DEF IsList

(* What is appended replaces what the transaction recorded.                *)
LEMMA ClosingIsFaithful ==
  ASSUME IInv, NEW w \in Actors, NEW price, NEW es, Closing(w, price, es), Log(es)
  PROVE  Adds({"summary", "checkpoint", "end"}) /\ log' = log \o es /\ IsList(es) /\ Faithful
  <1>1. /\ IsList(es)
        /\ \A j \in 1 .. Len(es) : es[j].type \in {"summary", "checkpoint", "end"}
    BY ClosingIs
  <1>2. \A j \in 1 .. Len(es) : es[j].type = "checkpoint" =>
          /\ j = 2 /\ Stable(tx[w]) /\ Smaller(tx[w], price)
          /\ es[1] = Summary(w, Span(tx[w].nodes, tx[w].from, tx[w].to))
          /\ es[2] = Checkpoint(w, tx[w].from, tx[w].to, price)
    BY ClosingIs
  <1>3. IsList(log) /\ SurfaceIsFold
    BY DriverFacts
  <1>4. Adds({"summary", "checkpoint", "end"}) /\ log' = log \o es
    BY <1>1, <1>3, LogAdds
  <1>5. Len(log) \in Nat /\ Len(es) \in Nat /\ DOMAIN log = 1 .. Len(log)
        /\ DOMAIN log' = 1 .. Len(log') /\ Len(log') = Len(log) + Len(es)
    <2>1. IsList(log') /\ Len(log') = Len(log) + Len(es)
      BY <1>1, <1>3, <1>4, ListConcat
    <2> QED
      BY <1>1, <1>3, <2>1, ListFacts
  <1>6. \A j \in 1 .. Len(es) : log'[Len(log) + j] = es[j]
    BY <1>1, <1>3, <1>4, ListConcat
  <1>7. ASSUME NEW i \in Events(log', {"checkpoint"}) \ DOMAIN log
        PROVE  LET span == Span(nodes, log'[i].from, log'[i].to)
               IN log'[i - 1].shadowed = span /\ log'[i].price < Price(log, span)
    <2>1. i \in 1 .. Len(log') /\ i \notin 1 .. Len(log) /\ log'[i].type = "checkpoint"
      BY <1>5, <1>7 DEF Events
    <2>2. i - Len(log) \in 1 .. Len(es) /\ Len(log) + (i - Len(log)) = i
      BY <1>5, <2>1
    <2>3. log'[i] = es[i - Len(log)]
      BY <1>6, <2>2
    <2>4. /\ i - Len(log) = 2 /\ Stable(tx[w]) /\ Smaller(tx[w], price)
          /\ es[1] = Summary(w, Span(tx[w].nodes, tx[w].from, tx[w].to))
          /\ es[2] = Checkpoint(w, tx[w].from, tx[w].to, price)
      BY <1>2, <2>1, <2>2, <2>3
    <2>5. log'[i - 1] = es[1]
      <3>1. 1 \in 1 .. Len(es) /\ Len(log) + 1 = i - 1
        BY <1>5, <2>2, <2>4
      <3> QED
        BY <1>6, <3>1
    <2>6. Span(nodes, tx[w].from, tx[w].to) = Span(tx[w].nodes, tx[w].from, tx[w].to)
      BY <2>4 DEF Stable, SpanStable
    <2>7. log'[i].from = tx[w].from /\ log'[i].to = tx[w].to /\ log'[i].price = price
      BY <2>3, <2>4 DEF Checkpoint
    <2>8. log'[i - 1].shadowed = Span(tx[w].nodes, tx[w].from, tx[w].to)
      BY <2>4, <2>5 DEF Summary
    <2> QED
      BY <2>4, <2>6, <2>7, <2>8 DEF Smaller
  <1>8. ReplacesRecorded
    BY <1>7 DEF ReplacesRecorded
  <1>9. KeepsTurnsApart
    <2>1. {"turn", "turnend"} \cap {"summary", "checkpoint", "end"} = {}
      OBVIOUS
    <2>2. Grows(log, log', {"summary", "checkpoint", "end"})
      BY <1>4 DEF Adds
    <2>3. Events(log', {"turn", "turnend"}) = Events(log, {"turn", "turnend"})
      BY <2>1, <2>2, EventsKept
    <2> QED
      BY <2>3 DEF KeepsTurnsApart
  <1> QED
    BY <1>1, <1>4, <1>8, <1>9 DEF Faithful

(* A log that ends with the end of a transaction is not locked.            *)
LEMMA EndUnlocks ==
  ASSUME NEW l, NEW es, IsList(l), IsList(es), es # <<>>, es[Len(es)].type \in {"end", "seed"}
  PROVE  ~Locked(l \o es)
  <1> DEFINE u == l \o es
  <1>1. /\ IsList(u) /\ Len(u) = Len(l) + Len(es)
        /\ \A i \in 1 .. Len(es) : u[Len(l) + i] = es[i]
    BY ListConcat
  <1>2. Len(l) \in Nat /\ Len(es) \in Nat /\ Len(es) # 0
    <2>1. PICK S : es \in Seq(S)
      BY DEF IsList
    <2> QED
      BY <2>1, EmptySeq, ListFacts
  <1> HIDE DEF u
  <1>3. Len(u) \in 1 .. Len(u) /\ u[Len(u)] = es[Len(es)] /\ DOMAIN u = 1 .. Len(u)
        /\ Len(u) \in Nat
    <2>1. Len(es) \in 1 .. Len(es) /\ Len(u) \in 1 .. Len(u) /\ Len(u) \in Nat
      BY <1>1, <1>2
    <2> QED
      BY <1>1, <2>1, ListFacts
  <1>4. PICK b : b = Last0(Events(u, {"start", "end"}))
    OBVIOUS
  <1>5. PICK s : s = Last0(Events(u, {"seed"}))
    OBVIOUS
  <1>6. b \in Nat /\ b <= Len(u) /\ s \in Nat /\ s <= Len(u)
    BY <1>1, <1>4, <1>5, LastEventIs
  <1>7. CASE es[Len(es)].type = "end"
    <2>1. Len(u) \in Events(u, {"start", "end"})
      BY <1>3, <1>7 DEF Events
    <2>2. Len(u) <= b
      BY <1>1, <1>4, <2>1, LastEventIs
    <2>3. b = Len(u)
      <3>1. b \in Nat /\ Len(u) \in Nat /\ b <= Len(u)
        BY <1>3, <1>6
      <3> QED
        BY ONLY <2>2, <3>1
    <2>4. u[b].type # "start"
      BY <1>3, <1>7, <2>3
    <2> QED
      BY <1>4, <2>4 DEF Locked, u
  <1>8. CASE es[Len(es)].type = "seed"
    <2>1. Len(u) \in Events(u, {"seed"})
      BY <1>3, <1>8 DEF Events
    <2>2. Len(u) <= s
      BY <1>1, <1>5, <2>1, LastEventIs
    <2>3. ~(s < b)
      BY <1>3, <1>6, <2>2
    <2> QED
      BY <1>4, <1>5, <2>3 DEF Locked, u
  <1> QED
    BY <1>7, <1>8

(* A summary settles: the checkpoint lands or the bracket is closed, as    *)
(* far as appends succeed.                                                 *)
LEMMA SettleHolds ==
  ASSUME IInv, NEW w \in Actors, Settle(w)
  PROVE  IInv' /\ Faithful
  <1>1. /\ IsList(log) /\ SurfaceIsFold /\ IsCache(cache) /\ tx \in [Actors -> TxStates]
        /\ (phase = "compacting" <=> tx["driver"].stage = "summary") /\ phase \in Phases
        /\ aborted \in BOOLEAN /\ retries \in 0 .. MaxOverflow /\ fails \in Nat /\ lives \in Nat
    BY DriverFacts
  <1>2. /\ tx[w].stage = "summary" /\ retries' = retries /\ asked' = asked
        /\ durable' = durable /\ reported' = reported /\ lives' = lives
        /\ cache' \in {cache, Synced(Here)}
    BY DEF Settle
  <1> DEFINE After == {"flushing", "idle", "recovered", "again", "failing", "entering"}
             Left == /\ w = "caller" => phase' = phase
                     /\ w # "caller" => phase' \in After
                     /\ phase' = "recovered" => phase = "recovered" \/ tx[w].trigger = "overflow"
                     /\ tx'[w].stage = "none" /\ tx' \in [Actors -> TxStates]
                     /\ \A x \in Actors : x # w => tx'[x] = tx[x]
                     /\ aborted' \in BOOLEAN
  <1> DEFINE NextPhase(landed, closed) ==
               CASE w = "caller"               -> "none"
                 [] tx[w].trigger = "manual"   -> IF closed THEN "flushing" ELSE "idle"
                 [] tx[w].trigger = "overflow" -> "recovered"
                 [] OTHER                      -> IF landed THEN "again" ELSE StepsOn
             Leave(landed, closed) ==
               /\ IF w = "caller" THEN UNCHANGED phase ELSE Goto(NextPhase(landed, closed))
               /\ tx' = [tx EXCEPT ![w] = IF NextPhase(landed, closed) = "again"
                                          THEN [tx[w] EXCEPT !.stage = "none"] ELSE NoTx]
               /\ aborted' = (aborted /\ NextPhase(landed, closed) # "idle")
  <1>3. ASSUME NEW landed, NEW closed, Leave(landed, closed) PROVE Left
    <2>a. PICK next : next = NextPhase(landed, closed)
      OBVIOUS
    <2>b. /\ IF w = "caller" THEN UNCHANGED phase ELSE Goto(next)
          /\ tx' = [tx EXCEPT ![w] = IF next = "again" THEN [tx[w] EXCEPT !.stage = "none"] ELSE NoTx]
          /\ aborted' = (aborted /\ next # "idle")
      <3> HIDE DEF NextPhase
      <3> QED
        BY <1>3, <2>a
    <2>1. w # "caller" => next \in After /\ (next = "recovered" => tx[w].trigger = "overflow")
      BY <2>a DEF StepsOn
    <2>2. w = "caller" => phase' = phase
      BY <2>b
    <2>3. w # "caller" => phase' = next
      BY <2>b DEF Goto
    <2>4. PICK r : r = IF next = "again" THEN [tx[w] EXCEPT !.stage = "none"] ELSE NoTx
      OBVIOUS
    <2>5. r \in TxStates /\ r.stage = "none"
      <3>1. tx[w] \in TxStates
        BY <1>1
      <3>2. [tx[w] EXCEPT !.stage = "none"] \in TxStates
            /\ [tx[w] EXCEPT !.stage = "none"].stage = "none"
        BY <3>1 DEF TxStates, Stages
      <3> QED
        BY <2>4, <3>2, NoTxIsTyped
    <2>6. tx' = [tx EXCEPT ![w] = r]
      BY <2>b, <2>4
    <2>7. tx'[w].stage = "none" /\ tx' \in [Actors -> TxStates]
          /\ \A x \in Actors : x # w => tx'[x] = tx[x]
      BY <1>1, <2>5, <2>6
    <2>8. aborted' \in BOOLEAN
      BY <2>b
    <2>9. phase' = "recovered" => phase = "recovered" \/ tx[w].trigger = "overflow"
      BY <2>1, <2>2, <2>3
    <2> QED
      BY <2>1, <2>2, <2>3, <2>7, <2>8, <2>9
  <1>4. PICK es, price : /\ Log(es) /\ Left
                         /\ \/ es = Appended(w, price).whole /\ fails' = fails
                            \/ es \in Appended(w, price).broken /\ fails' = fails + 1
    <2>1. PICK price \in 0 .. 1 :
            LET outcome == Appended(w, price)
                ok == outcome.whole[Len(outcome.whole)] = End(w, FALSE)
                t == tx[w]
                next(landed, closed) ==
                  CASE w = "caller"           -> "none"
                    [] t.trigger = "manual"   -> IF closed THEN "flushing" ELSE "idle"
                    [] t.trigger = "overflow" -> "recovered"
                    [] OTHER                  -> IF landed THEN "again" ELSE StepsOn
                leave(landed, closed) ==
                  /\ IF w = "caller" THEN UNCHANGED phase ELSE Goto(next(landed, closed))
                  /\ tx' = [tx EXCEPT ![w] = IF next(landed, closed) = "again"
                                             THEN [t EXCEPT !.stage = "none"] ELSE NoTx]
                  /\ aborted' = (aborted /\ next(landed, closed) # "idle")
            IN \/ Log(outcome.whole) /\ leave(ok, TRUE) /\ UNCHANGED fails
               \/ /\ Fail
                  /\ \E part \in outcome.broken :
                       Log(part) /\ leave(FALSE, part # <<>> /\ part[Len(part)].type = "end")
      BY DEF Settle
    <2>3. CASE Log(Appended(w, price).whole)
               /\ Leave(Appended(w, price).whole[Len(Appended(w, price).whole)] = End(w, FALSE), TRUE)
               /\ UNCHANGED fails
      <3> HIDE DEF Leave, Left
      <3> QED
        BY <1>3, <2>3
    <2>4. CASE /\ Fail
               /\ \E part \in Appended(w, price).broken :
                    Log(part) /\ Leave(FALSE, part # <<>> /\ part[Len(part)].type = "end")
      <3> HIDE DEF Leave, Left
      <3>1. PICK part \in Appended(w, price).broken :
              Log(part) /\ Leave(FALSE, part # <<>> /\ part[Len(part)].type = "end")
        BY <2>4
      <3>2. Left /\ fails' = fails + 1
        BY <1>3, <2>4, <3>1 DEF Fail
      <3> QED
        BY <3>1, <3>2
    <2> QED
      BY <2>1, <2>3, <2>4
  <1>5. /\ Closing(w, price, es)
        /\ es = Appended(w, price).whole => es # <<>> /\ es[Len(es)].type = "end"
    BY <1>4, AppendedCloses
  <1>6. Adds({"summary", "checkpoint", "end"}) /\ log' = log \o es /\ IsList(es) /\ Faithful
    BY <1>4, <1>5, ClosingIsFaithful
  <1>7. /\ fails' \in Nat /\ (fails' = fails \/ fails' > 0) /\ lives' \in Nat
        /\ retries' \in 0 .. MaxOverflow
    BY <1>1, <1>2, <1>4
  <1>8. IsCache(cache') /\ cache'.gen \in 0 .. Generation(log')
    <2>1. View(Here, {})
      BY <1>1, HereView
    <2>2. Here.nodes \in Seq(Nat) /\ Generation(Here.log) \in Nat /\ Here.log = log
      BY <1>1, <2>1, ViewFacts DEF Here
    <2>3. IsCache(cache') /\ cache'.gen \in {cache.gen, Generation(log)}
      BY <1>1, <1>2, <2>2, SyncedIsCache
    <2>4. cache.gen \in 0 .. Generation(log') /\ Generation(log) \in 0 .. Generation(log')
      BY <1>1, <1>6, Widened DEF IInv
    <2> QED
      BY <2>3, <2>4
  <1>9. asked' \in 0 .. Generation(log')
    BY <1>1, <1>2, <1>6, Widened DEF IInv
  <1>10. phase' \in Phases /\ (phase' = "compacting" <=> tx'["driver"].stage = "summary")
    <2>1. CASE w = "driver"
      BY <1>4, <2>1 DEF Phases
    <2>2. CASE w = "caller"
      BY <1>1, <1>4, <2>2 DEF Actors
    <2> QED
      BY <2>1, <2>2 DEF Actors
  <1>11. Types' /\ TypeOK'
    <2>1. tx' \in [Actors -> TxStates] /\ aborted' \in BOOLEAN /\ UNCHANGED <<durable, reported>>
      BY <1>2, <1>4
    <2> QED
      BY <1>6, <1>7, <1>8, <1>9, <1>10, <2>1, TypesStep
  <1>12. RetryIsLeft'
    <2>1. CASE w = "driver"
      <3>1. phase = "compacting"
        BY <1>1, <1>2, <2>1
      <3>2. phase' # "compacting"
        BY <1>4, <1>10, <2>1
      <3> QED
        BY <1>2, <1>4, <2>1, <3>1, <3>2 DEF IInv, RetryIsLeft
    <2>2. CASE w = "caller"
      <3>1. phase' = phase /\ tx'["driver"] = tx["driver"] /\ retries' = retries
        BY <1>2, <1>4, <2>2 DEF Actors
      <3> QED
        BY <3>1 DEF IInv, RetryIsLeft
    <2> QED
      BY <2>1, <2>2 DEF Actors
  <1>13. LockIsOwned'
    <2>1. CASE es = Appended(w, price).whole
      <3>1. ~Locked(log')
        BY <1>1, <1>5, <1>6, <2>1, EndUnlocks
      <3> QED
        BY <3>1 DEF LockIsOwned
    <2>2. CASE fails' = fails + 1
      <3>1. fails' > 0
        BY <1>1, <2>2
      <3> QED
        BY <3>1 DEF LockIsOwned
    <2> QED
      BY <1>4, <2>1, <2>2
  <1>14. ReportedIsStored' /\ OneBracket' /\ SurfaceIsFold'
    <2>1. "start" \notin {"summary", "checkpoint", "end"} /\ UNCHANGED reported
      BY <1>2
    <2> QED
      BY <1>1, <1>6, <2>1, ReportedKept, OneBracketKept, AddsFacts DEF IInv
  <1> QED
    BY <1>6, <1>11, <1>12, <1>13, <1>14 DEF IInv

(* A log that grows twice has grown by both.                               *)
LEMMA GrowsOn ==
  ASSUME NEW l, NEW u, NEW v, NEW S, NEW T, Grows(l, u, S), Grows(u, v, T)
  PROVE  Grows(l, v, S \cup T)
  <1>1. /\ IsList(l) /\ IsList(v) /\ Len(l) <= Len(u) /\ Len(u) <= Len(v)
        /\ Len(l) \in Nat /\ Len(u) \in Nat /\ Len(v) \in Nat
    BY ListFacts DEF Grows
  <1>2. ASSUME NEW i \in 1 .. Len(l) PROVE v[i] = l[i]
    <2>1. i \in 1 .. Len(u)
      BY <1>1
    <2> QED
      BY <2>1 DEF Grows
  <1>3. ASSUME NEW i \in Len(l) + 1 .. Len(v) PROVE v[i].type \in S \cup T
    <2>1. CASE i \in 1 .. Len(u)
      <3>1. i \in Len(l) + 1 .. Len(u) /\ v[i] = u[i]
        BY <1>1, <2>1 DEF Grows
      <3> QED
        BY <3>1 DEF Grows
    <2>2. CASE i \in Len(u) + 1 .. Len(v)
      BY <2>2 DEF Grows
    <2> QED
      BY <1>1, <2>1, <2>2
  <1> QED
    BY <1>1, <1>2, <1>3 DEF Grows

(* The calls that no result answers are finitely many.                     *)
LEMMA UnansweredIsFinite ==
  ASSUME NEW l, IsList(l)
  PROVE  Cardinality(Unanswered(l)) \in Nat
  <1> DEFINE b == Last0(Events(l, {"turn", "turnend"}))
             all == (b + 1 .. Len(l)) \X (1 .. MaxCalls)
  <1>1. Len(l) \in Nat /\ b \in Nat /\ MaxCalls \in Nat
    BY ListFacts, LastEventIs, BoundsAssumption
  <1>2. Unanswered(l) \subseteq all
    BY DEF Unanswered
  <1> HIDE DEF b
  <1>3. IsFiniteSet(b + 1 .. Len(l)) /\ IsFiniteSet(1 .. MaxCalls)
    BY <1>1, FS_Interval
  <1>4. IsFiniteSet(all)
    BY <1>3, FS_Product
  <1>5. IsFiniteSet(Unanswered(l))
    BY <1>2, <1>4, FS_Subset
  <1> QED
    BY <1>5, FS_CardinalityType

(* A crash leaves a prefix with its repairs, and nothing that is running.  *)
LEMMA CrashHolds ==
  ASSUME IInv, Crash
  PROVE  IInv' /\ Faithful
  <1>1. /\ IsList(log) /\ fails \in Nat /\ lives \in Nat /\ TypeOK /\ MaxOverflow \in Nat
        /\ Retries \in Nat
        /\ ReportedIsStored /\ OneBracket /\ Len(log) \in Nat /\ DOMAIN log = 1 .. Len(log)
    BY DriverFacts, ListFacts DEF IInv
  <1>2. /\ nodes' = Advance(<<>>, log', 0) /\ phase' = "idle" /\ aborted' = FALSE /\ retries' = 0
        /\ asked' = 0 /\ cache' = Fresh /\ tx' = [w \in Actors |-> NoTx] /\ durable' = durable
        /\ reported' = reported /\ fails' = fails /\ lives' = lives + 1
    BY DEF Crash
  <1>a. PICK keep \in durable .. Len(log) :
          LET l == SubSeq(log, 1, keep)
              open == CallOrder(Unanswered(l))
              results == [k \in 1 .. Cardinality(Unanswered(l)) |-> Result(open[k], 1)]
          IN log' = l \o (IF TurnOpen(l) THEN results \o <<Marker("turnend")>> ELSE <<>>)
                      \o <<Marker("seed")>>
    BY DEF Crash
  <1>3. PICK l, results, x :
          /\ l = SubSeq(log, 1, keep)
          /\ \E open : results = [k \in 1 .. Cardinality(Unanswered(l)) |-> Result(open[k], 1)]
          /\ x = IF TurnOpen(l) THEN results \o <<Marker("turnend")>> ELSE <<>>
          /\ log' = l \o x \o <<Marker("seed")>>
    BY <1>a
  <1>4. /\ IsList(l) /\ Len(l) = keep /\ keep \in 0 .. Len(log) /\ durable \in 0 .. keep
        /\ \A i \in 1 .. keep : l[i] = log[i]
    <2>1. keep \in 0 .. Len(log) /\ durable \in 0 .. keep
      BY <1>1 DEF TypeOK
    <2> QED
      BY <1>1, <1>3, <2>1, ListPrefix
  <1>5. IsList(x) /\ \A i \in 1 .. Len(x) : x[i].type \in {"result", "turnend"}
    <2>1. PICK n : n = Cardinality(Unanswered(l))
      OBVIOUS
    <2>2. n \in Nat
      BY <1>4, <2>1, UnansweredIsFinite
    <2>3. PICK open : results = [k \in 1 .. n |-> Result(open[k], 1)]
      BY <1>3, <2>1
    <2>4. IsList(results) /\ Len(results) = n
      <3>1. DOMAIN results = 1 .. n /\ results = [k \in 1 .. n |-> results[k]]
        BY <2>3
      <3> QED
        BY <2>2, <3>1, ListGiven
    <2>5. \A k \in 1 .. Len(results) : results[k].type \in {"result", "turnend"}
      BY <2>3, <2>4 DEF Result
    <2>6. CASE TurnOpen(l)
      <3>1. IsList(<<Marker("turnend")>>) /\ Len(<<Marker("turnend")>>) = 1
            /\ <<Marker("turnend")>>[1] = Marker("turnend")
        BY ListOfOne
      <3>2. \A i \in 1 .. Len(<<Marker("turnend")>>) : <<Marker("turnend")>>[i].type \in {"turnend"}
        BY <3>1 DEF Marker
      <3>3. Grows(results, results \o <<Marker("turnend")>>, {"turnend"})
        BY <2>4, <3>1, <3>2, ConcatGrows
      <3>4. x = results \o <<Marker("turnend")>>
        BY <1>3, <2>6
      <3>5. Grows(results, x, {"turnend"})
        BY <3>3, <3>4
      <3>6. IsList(x) /\ Len(x) \in Nat /\ Len(results) \in Nat
        BY <3>5, ListFacts DEF Grows
      <3>7. ASSUME NEW i \in 1 .. Len(x) PROVE x[i].type \in {"result", "turnend"}
        <4>1. CASE i \in 1 .. Len(results)
          BY <2>5, <3>5, <4>1 DEF Grows
        <4>2. CASE i \in Len(results) + 1 .. Len(x)
          BY <3>5, <4>2 DEF Grows
        <4> QED
          BY <3>6, <4>1, <4>2
      <3> QED
        BY <3>6, <3>7
    <2>7. CASE ~TurnOpen(l)
      <3>1. DOMAIN x = 1 .. 0 /\ x = [i \in 1 .. 0 |-> x[i]]
        BY <1>3, <2>7
      <3>2. IsList(x) /\ Len(x) = 0
        BY <3>1, ListGiven
      <3> QED
        BY <3>2
    <2> QED
      BY <2>6, <2>7
  <1>6. PICK u : u = l \o x
    OBVIOUS
  <1>7. Grows(l, u, {"result", "turnend"})
    BY <1>4, <1>5, <1>6, ConcatGrows
  <1>8. IsList(<<Marker("seed")>>) /\ Len(<<Marker("seed")>>) = 1
        /\ <<Marker("seed")>>[1].type = "seed"
    BY ListOfOne DEF Marker
  <1>9. log' = u \o <<Marker("seed")>> /\ IsList(u)
    BY <1>3, <1>6, <1>7 DEF Grows
  <1>10. Grows(u, log', {"seed"})
    <2>1. \A i \in 1 .. Len(<<Marker("seed")>>) : <<Marker("seed")>>[i].type \in {"seed"}
      BY <1>8
    <2> QED
      BY <1>8, <1>9, <2>1, ConcatGrows
  <1>11. Grows(l, log', {"result", "turnend", "seed"})
    <2>1. Grows(l, log', {"result", "turnend"} \cup {"seed"})
      BY <1>7, <1>10, GrowsOn
    <2>2. {"result", "turnend"} \cup {"seed"} = {"result", "turnend", "seed"}
      OBVIOUS
    <2> QED
      BY <2>1, <2>2
  <1>12. /\ IsList(log') /\ Len(log') \in Nat /\ keep <= Len(log')
         /\ \A i \in 1 .. keep : log'[i] = log[i]
    BY <1>4, <1>11, ListFacts DEF Grows
  <1>13. LockIsOwned'
    <2>1. <<Marker("seed")>> # <<>>
          /\ <<Marker("seed")>>[Len(<<Marker("seed")>>)].type \in {"end", "seed"}
      BY <1>8
    <2>2. ~Locked(log')
      BY <1>8, <1>9, <2>1, EndUnlocks
    <2> QED
      BY <2>2 DEF LockIsOwned
  <1>14. ReportedIsStored'
    <2>1. CASE reported # 0
      <3>1. reported \in 1 .. keep
        BY <1>1, <1>4, <2>1 DEF TypeOK
      <3>2. log'[reported] = log[reported] /\ reported <= Len(log')
        BY <1>1, <1>4, <1>12, <3>1
      <3> QED
        BY <1>1, <1>2, <2>1, <3>2 DEF ReportedIsStored
    <2> QED
      BY <1>2, <2>1 DEF ReportedIsStored
  <1>15. OneBracket'
    <2>1. SUFFICES ASSUME NEW i \in Events(log', {"start"}) PROVE ~Locked(SubSeq(log', 1, i - 1))
      BY DEF OneBracket
    <2>2. {"start"} \cap {"result", "turnend", "seed"} = {}
      OBVIOUS
    <2>3. i \in Events(l, {"start"}) /\ Events(l, {"start"}) \subseteq 1 .. Len(l)
      BY <1>11, <2>1, <2>2, EventsKept
    <2>4. i \in 1 .. keep /\ l[i].type = "start"
      BY <1>4, <2>3 DEF Events
    <2>5. i \in Events(log, {"start"})
      BY <1>1, <1>4, <2>4 DEF Events
    <2>6. PICK T : T = {log[k].type : k \in 1 .. Len(log)}
      OBVIOUS
    <2>7. Grows(l, log, T)
      <3>1. \A k \in Len(l) + 1 .. Len(log) : log[k].type \in T
        BY <1>1, <1>4, <2>6
      <3>2. Len(l) <= Len(log)
        BY <1>1, <1>4
      <3> QED
        BY <1>1, <1>4, <3>1, <3>2 DEF Grows
    <2>8. i - 1 \in 0 .. Len(l)
      BY <1>1, <1>4, <2>4
    <2>9. SubSeq(log', 1, i - 1) = SubSeq(l, 1, i - 1)
          /\ SubSeq(log, 1, i - 1) = SubSeq(l, 1, i - 1)
      BY <1>11, <2>7, <2>8, PrefixKept
    <2>10. ~Locked(SubSeq(log, 1, i - 1))
      BY <1>1, <2>5 DEF OneBracket
    <2> QED
      BY <2>9, <2>10
  <1>16. Generation(log') \in Nat
    BY <1>11, GenerationGrows
  <1>17. IsCache(Fresh) /\ Fresh.gen = 0 /\ Fresh.cuts # <<>>
    <2>1. <<TRUE>> \in Seq(BOOLEAN) /\ <<TRUE>> # <<>> /\ 0 \in Nat
      OBVIOUS
    <2>2. IsCache([gen |-> 0, cuts |-> <<TRUE>>, open |-> 0])
      BY ONLY <2>1 DEF IsCache
    <2> QED
      BY <2>1, <2>2 DEF Fresh
  <1>18. Types'
    <2>1. tx' \in [Actors -> TxStates]
      BY <1>2, NoTxIsTyped
    <2> QED
      BY <1>1, <1>2, <1>12, <1>17, <2>1 DEF Types
  <1>19. TypeOK'
    <2>1. /\ \A w \in Actors : tx'[w].stage = "none" /\ tx'[w].trigger = "none" /\ tx'[w].attempt = 0
          /\ tx'["driver"].stage = "none"
      BY <1>2 DEF NoTx, Actors
    <2>2. cache'.cuts # <<>> /\ cache'.gen \in 0 .. Generation(log')
          /\ asked' \in 0 .. Generation(log')
      BY <1>2, <1>16, <1>17
    <2>3. durable' \in 0 .. Len(log') /\ reported' \in 0 .. durable'
      BY <1>1, <1>2, <1>4, <1>12 DEF TypeOK
    <2>4. \A w \in Actors : /\ tx'[w].stage \in {"none", "summary"}
                            /\ tx'[w].trigger \in {"none", "pressure", "overflow", "manual", "region"}
                            /\ tx'[w].attempt \in 0 .. Retries
      BY <1>1, <2>1
    <2>5. /\ phase' \in Phases /\ phase' # "compacting" /\ aborted' \in BOOLEAN
          /\ retries' \in 0 .. MaxOverflow /\ "none" # "summary"
      <3>1. phase' \in Phases /\ phase' # "compacting" /\ "none" # "summary"
        BY <1>2 DEF Phases
      <3>2. aborted' \in BOOLEAN
        BY <1>2
      <3>3. retries' \in 0 .. MaxOverflow
        BY <1>1, <1>2
      <3> QED
        BY <3>1, <3>2, <3>3
    <2>6. phase' = "compacting" <=> tx'["driver"].stage = "summary"
      BY <2>1, <2>5
    <2> QED
      BY <2>2, <2>3, <2>4, <2>5, <2>6 DEF TypeOK, Phases
  <1>20. RetryIsLeft' /\ SurfaceIsFold'
    BY <1>2 DEF RetryIsLeft, SurfaceIsFold
  <1>21. Faithful
    <2>1. lives' # lives
      BY <1>1, <1>2
    <2> QED
      BY <2>1 DEF Faithful, ReplacesRecorded, KeepsTurnsApart
  <1> QED
    BY <1>13, <1>14, <1>15, <1>18, <1>19, <1>20, <1>21 DEF IInv

---------------------------------------------------------------------------
(* The invariant is inductive.                                             *)

(* Nothing has been appended, compacted or cached at the start.            *)
LEMMA InitHolds == Init => IInv
  <1>1. SUFFICES ASSUME Init PROVE IInv
    OBVIOUS
  <1>2. /\ log = <<>> /\ nodes = <<>> /\ phase = "idle" /\ aborted = FALSE
        /\ tx = [w \in Actors |-> NoTx] /\ cache = Fresh /\ retries = 0 /\ asked = 0
        /\ durable = 0 /\ reported = 0 /\ fails = 0 /\ lives = 1
    BY <1>1 DEF Init
  <1>3. IsList(log) /\ Len(log) = 0 /\ DOMAIN log = {}
    <2>1. DOMAIN log = 1 .. 0 /\ log = [i \in 1 .. 0 |-> log[i]]
      BY <1>2
    <2>2. IsList(log) /\ Len(log) = 0
      BY <2>1, ListGiven
    <2> QED
      BY <2>1, <2>2
  <1>4. \A T : Events(log, T) = {}
    BY <1>3 DEF Events
  <1>5. ~Locked(log)
    <2>1. Last0(Events(log, {"start", "end"})) \in Events(log, {"start", "end"}) \cup {0}
      <3>1. /\ Last0(Events(log, {"start", "end"})) \in Nat
            /\ Last0(Events(log, {"start", "end"})) <= Len(log)
        BY <1>3, LastEventIs
      <3> QED
        BY <1>3, <3>1
    <2> QED
      BY <1>4, <2>1 DEF Locked
  <1>6. LockIsOwned /\ OneBracket /\ ReportedIsStored /\ RetryIsLeft
    BY <1>2, <1>4, <1>5 DEF LockIsOwned, OneBracket, ReportedIsStored, RetryIsLeft
  <1>7. SurfaceIsFold
    <2>1. Advance(<<>>, log, 0) = <<>>
      BY <1>3, AdvanceHere
    <2> QED
      BY <1>2, <2>1 DEF SurfaceIsFold
  <1>8. IsCache(cache) /\ cache.gen = 0 /\ cache.cuts # <<>>
    <2>1. <<TRUE>> \in Seq(BOOLEAN) /\ <<TRUE>> # <<>> /\ 0 \in Nat
      OBVIOUS
    <2>2. IsCache([gen |-> 0, cuts |-> <<TRUE>>, open |-> 0])
      BY ONLY <2>1 DEF IsCache
    <2> QED
      BY <1>2, <2>1, <2>2 DEF Fresh
  <1>9. Types
    <2>1. tx \in [Actors -> TxStates]
      BY <1>2, NoTxIsTyped
    <2> QED
      BY <1>2, <1>3, <1>8, <2>1 DEF Types
  <1>10. TypeOK
    <2>1. Retries \in Nat /\ MaxOverflow \in Nat
      BY BoundsAssumption
    <2>2. Generation(log) \in Nat
      <3>1. View(Here, {})
        BY <1>3, <1>7, HereView
      <3> QED
        BY <3>1, <1>3, ViewFacts DEF Here
    <2>3. /\ \A w \in Actors : tx[w].stage = "none" /\ tx[w].trigger = "none" /\ tx[w].attempt = 0
          /\ tx["driver"].stage = "none"
      BY <1>2 DEF NoTx, Actors
    <2>4. \A w \in Actors : /\ tx[w].stage \in {"none", "summary"}
                            /\ tx[w].trigger \in {"none", "pressure", "overflow", "manual", "region"}
                            /\ tx[w].attempt \in 0 .. Retries
      BY <2>1, <2>3
    <2>5. asked \in 0 .. Generation(log) /\ cache.gen \in 0 .. Generation(log)
          /\ durable \in 0 .. Len(log) /\ reported \in 0 .. durable
      BY <1>2, <1>3, <1>8, <2>2
    <2>6. /\ phase \in Phases /\ phase # "compacting" /\ aborted \in BOOLEAN
          /\ retries \in 0 .. MaxOverflow /\ "none" # "summary"
      <3>1. phase \in Phases /\ phase # "compacting" /\ "none" # "summary"
        BY <1>2 DEF Phases
      <3>2. aborted \in BOOLEAN
        BY <1>2
      <3>3. retries \in 0 .. MaxOverflow
        BY <1>2, <2>1
      <3> QED
        BY <3>1, <3>2, <3>3
    <2>7. phase = "compacting" <=> tx["driver"].stage = "summary"
      BY <2>3, <2>6
    <2> QED
      BY <1>8, <2>4, <2>5, <2>6, <2>7 DEF TypeOK, Phases
  <1> QED
    BY <1>6, <1>7, <1>9, <1>10 DEF IInv

(* Every step keeps it, and replaces no more than it recorded.             *)
LEMMA StepHolds ==
  ASSUME IInv, Next
  PROVE  IInv' /\ Faithful
  <1>1. CASE StartTurn
    BY <1>1, StartTurnHolds
  <1>2. CASE PreStep
    BY <1>2, PreStepHolds
  <1>3. CASE Capacity
    BY <1>3, CapacityHolds
  <1>4. CASE Again
    BY <1>4, AgainHolds
  <1>5. CASE Enter
    BY <1>5, EnterHolds
  <1>6. CASE Answer
    BY <1>6, AnswerHolds
  <1>7. CASE RequestFails
    BY <1>7, RequestFailsHolds
  <1>8. CASE Overflow
    BY <1>8, OverflowHolds
  <1>9. CASE Recover
    BY <1>9, RecoverHolds
  <1>10. CASE ToolResult
    BY <1>10, ToolResultHolds
  <1>11. CASE EndTurn
    BY <1>11, EndTurnHolds
  <1>12. CASE Flush
    BY <1>12, FlushHolds
  <1>13. CASE \E w \in Actors : Settle(w)
    BY <1>13, SettleHolds
  <1>14. CASE BatchFails
    BY <1>14, BatchFailsHolds
  <1>15. CASE Abort
    BY <1>15, AbortHolds
  <1>16. CASE CompactNow
    BY <1>16, CompactNowHolds
  <1>17. CASE Beside
    BY <1>17, BesideHolds
  <1>18. CASE CompactRegion
    BY <1>18, CompactRegionHolds
  <1>19. CASE Crash
    BY <1>19, CrashHolds
  <1>20. CASE NextTurn
    BY <1>20, NextTurnHolds
  <1> QED
    BY <1>1, <1>2, <1>3, <1>4, <1>5, <1>6, <1>7, <1>8, <1>9, <1>10, <1>11, <1>12, <1>13, <1>14,
       <1>15, <1>16, <1>17, <1>18, <1>19, <1>20 DEF Next, Alone, Driver

(* A step that changes nothing keeps it.                                   *)
LEMMA StutterHolds ==
  ASSUME IInv, UNCHANGED vars
  PROVE  IInv'
  <1>1. /\ log' = log /\ nodes' = nodes /\ phase' = phase /\ tx' = tx /\ cache' = cache
        /\ retries' = retries /\ asked' = asked /\ aborted' = aborted /\ durable' = durable
        /\ reported' = reported /\ others' = others /\ fails' = fails /\ lives' = lives
    BY DEF vars, session, turn, bounds
  <1>2. Types' /\ TypeOK' /\ RetryIsLeft'
    BY <1>1 DEF IInv, Types, TypeOK, RetryIsLeft
  <1>3. LockIsOwned' /\ ReportedIsStored' /\ OneBracket' /\ SurfaceIsFold'
    BY <1>1 DEF IInv, LockIsOwned, ReportedIsStored, OneBracket, SurfaceIsFold
  <1> QED
    BY <1>2, <1>3 DEF IInv

(* The inductive invariant: the surface is the one the log folds to, the   *)
(* lock is a running transaction's or a failed close's, no bracket opens   *)
(* inside another, what was reported is stored, and an overflow that is    *)
(* being recovered has a retry left (region.ts, index.ts).                 *)
THEOREM CompactionInvariant == Spec => []IInv
  <1>1. IInv /\ [Next]_vars => IInv'
    BY StepHolds, StutterHolds
  <1> QED
    BY InitHolds, <1>1, PTL DEF Spec

(* What the log says of compactions is true in every state: the types, the *)
(* owner of the lock, what a command reported, one bracket at a time, and  *)
(* the surface beside the log (region.ts:90, surface.ts:387).              *)
THEOREM CompactionsStaySound == Spec => []CompactionsAreSound
  <1>1. IInv => CompactionsAreSound
    BY DEF IInv, CompactionsAreSound
  <1> QED
    BY <1>1, CompactionInvariant, PTL

(* A checkpoint replaces exactly what its summary was made from, by less,  *)
(* and no turn starts or ends inside the driver's transactions             *)
(* (region.ts:398, invariant.ts:94).                                       *)
THEOREM ReplacementsStaySound == Spec => ReplacementsAreSound
  <1>1. IInv /\ [Next]_vars => [ReplacesRecorded /\ KeepsTurnsApart]_vars
    BY StepHolds DEF Faithful
  <1> QED
    BY <1>1, CompactionInvariant, PTL DEF Spec, ReplacementsAreSound
=============================================================================
