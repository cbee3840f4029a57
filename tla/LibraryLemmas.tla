--------------------------- MODULE LibraryLemmas ---------------------------
(***************************************************************************)
(* What Min() and FlattenSeq() of the community modules return.  The       *)
(* numbers the kernel gives in Cgi and the servers and locations of        *)
(* Dispatch are chosen by the one; the files of ConfigFile and the         *)
(* requests of RequestGrammar are put together by the other.               *)
(***************************************************************************)
EXTENDS Integers, FiniteSetsExt, SequencesExt, TLAPS, FiniteSetTheorems, SequenceTheorems,
        WellFoundedInduction

\* A finite set of natural numbers that is not empty has a least member: of the
\* sets "what S has up to x" none is smaller than that of the least.
LEMMA LeastIsMember ==
  ASSUME NEW S \in SUBSET Nat, IsFiniteSet(S), S # {}
  PROVE  Min(S) \in S /\ \A y \in S : Min(S) <= y
<1> DEFINE UpTo(x) == {y \in S : y <= x}
<1>1. {UpTo(x) : x \in S} \subseteq FiniteSubsetsOf(S) /\ {UpTo(x) : x \in S} # {}
  <2>1. \A x \in S : UpTo(x) \in SUBSET S /\ IsFiniteSet(UpTo(x))
    BY FS_Subset
  <2> QED
    BY <2>1 DEF FiniteSubsetsOf
<1>2. PICK x \in S : \A y \in S : <<UpTo(y), UpTo(x)>> \notin StrictSubsetOrdering(S)
  <2> DEFINE T == {UpTo(x) : x \in S}
  <2>1. PICK X \in T : \A Y \in T : <<Y, X>> \notin StrictSubsetOrdering(S)
    <3> HIDE DEF T
    <3> QED
      BY <1>1, FS_StrictSubsetOrderingWellFounded, WFMin DEF T
  <2> QED
    BY <2>1
<1>3. \A y \in S : x <= y
  <2> SUFFICES ASSUME NEW y \in S, y < x PROVE FALSE
    OBVIOUS
  <2>0. x \in Nat /\ y \in Nat /\ \A z \in S : z \in Nat
    OBVIOUS
  <2>1. UpTo(y) \subseteq UpTo(x) /\ x \in UpTo(x) /\ x \notin UpTo(y)
    <3>1. (\A z \in S : z <= y => z <= x) /\ x <= x /\ ~(x <= y)
      BY <2>0
    <3>2. x \in S
      OBVIOUS
    <3> QED
      BY <3>1, <3>2, Zenon
  <2>2. <<UpTo(y), UpTo(x)>> \in StrictSubsetOrdering(S)
    BY <2>1 DEF StrictSubsetOrdering
  <2> QED
    BY <1>2, <2>2
<1> QED
  BY <1>3 DEF Min

----------------------------------------------------------------------------
(* Sequences and what is computed along them.                              *)

\* Induction, for sets instead of predicates.
LEMMA Reaches ==
  ASSUME NEW S, 0 \in S, \A n \in Nat : n \in S => n + 1 \in S
  PROVE  Nat \subseteq S
<1> SUFFICES ASSUME NEW n \in Nat, n \notin S PROVE FALSE
  OBVIOUS
<1> DEFINE T == {k \in 0..n : k \notin S}
<1>1. T \in SUBSET Nat /\ n \in T
  OBVIOUS
<1>2. IsFiniteSet(T)
  <2>1. IsFiniteSet(0..n)
    BY FS_Interval
  <2> QED
    BY <2>1, FS_Subset
<1>3. PICK m \in T : \A y \in T : m <= y
  <2> HIDE DEF T
  <2> QED
    BY <1>1, <1>2, LeastIsMember
<1>4. m \in 0..n /\ m \notin S /\ m # 0
  BY <1>3
<1>5. m - 1 \in 0..n /\ m - 1 \in Nat /\ ~(m <= m - 1) /\ (m - 1) + 1 = m
  BY <1>4
<1>6. m - 1 \in S
  BY <1>3, <1>5
<1> QED
  BY <1>4, <1>5, <1>6

\* The concatenations of the first members of e.
Concats(e, n, g) == g = [i \in 1..n |-> IF i = 1 THEN e[i] ELSE g[i - 1] \o e[i]]

LEMMA ConcatsExist ==
  ASSUME NEW e, NEW n \in Nat
  PROVE  \E g : Concats(e, n, g)
<1> DEFINE S == {m \in Nat : \E g : Concats(e, m, g)}
<1>1. 0 \in S
  <2>1. Concats(e, 0, [i \in 1..0 |-> e[i]])
    BY DEF Concats
  <2> QED
    BY <2>1
<1>2. ASSUME NEW m \in Nat, m \in S PROVE m + 1 \in S
  <2>1. PICK g : Concats(e, m, g)
    BY <1>2
  <2> DEFINE h == [i \in 1..(m + 1) |-> IF i = 1 THEN e[i] ELSE g[i - 1] \o e[i]]
  <2>2. \A i \in 1..m : h[i] = g[i]
    <3>1. \A i \in 1..m : i \in 1..(m + 1)
      OBVIOUS
    <3>2. \A i \in 1..m : g[i] = IF i = 1 THEN e[i] ELSE g[i - 1] \o e[i]
      BY <2>1, Zenon DEF Concats
    <3> QED
      BY <3>1, <3>2
  <2>3. \A i \in 1..(m + 1) : i # 1 => i - 1 \in 1..m
    OBVIOUS
  <2>4. h = [i \in 1..(m + 1) |-> IF i = 1 THEN e[i] ELSE h[i - 1] \o e[i]]
    BY <2>2, <2>3
  <2> HIDE DEF h
  <2>5. Concats(e, m + 1, h)
    BY <2>4 DEF Concats
  <2> QED
    BY <2>5
<1> HIDE DEF S
<1>3. n \in S
  BY <1>1, <1>2, Reaches
<1> QED
  BY <1>3 DEF S

LEMMA FlattenIsConcat ==
  ASSUME NEW e, Len(e) \in Nat \ {0}
  PROVE  \E g : Concats(e, Len(e), g) /\ FlattenSeq(e) = g[Len(e)]
<1> DEFINE g == CHOOSE g : Concats(e, Len(e), g)
<1>1. Concats(e, Len(e), g)
  BY ConcatsExist
<1>2. FlattenSeq(e) = g[Len(e)]
  BY Zenon DEF FlattenSeq, Concats
<1> QED
  BY <1>1, <1>2

LEMMA ShortSeqs ==
  ASSUME NEW S, NEW x \in S, NEW y \in S, NEW z \in S
  PROVE  <<x>> \in Seq(S) /\ <<x, y>> \in Seq(S) /\ <<x, y, z>> \in Seq(S)
  OBVIOUS

LEMMA FcnIsSeq ==
  ASSUME NEW S, NEW n \in Nat, NEW s \in [1..n -> S]
  PROVE  s \in Seq(S) /\ Len(s) = n
<1>1. s \in Seq(S)
  BY SeqDef
<1>2. Len(s) \in Nat /\ DOMAIN s = 1..Len(s)
  BY <1>1, LenProperties
<1> QED
  BY <1>1, <1>2

\* Where each member of e stands in t, their concatenation: behind o[k] others.
PlacesIn(e, t, o) ==
  /\ o \in [1..(Len(e) + 1) -> Nat]
  /\ o[1] = 0 /\ Len(t) = o[Len(e) + 1]
  /\ \A k \in 1..Len(e) :
       o[k + 1] = o[k] + Len(e[k]) /\ \A j \in 1..Len(e[k]) : t[o[k] + j] = e[k][j]

LEMMA TwoJoined ==
  ASSUME NEW X, NEW s \in Seq(X), NEW u \in Seq(X)
  PROVE  /\ s \o u \in Seq(X) /\ Len(s) \in Nat /\ Len(u) \in Nat /\ Len(s \o u) = Len(s) + Len(u)
         /\ \A j \in 1..Len(s) : (s \o u)[j] = s[j]
         /\ \A j \in 1..Len(u) : (s \o u)[Len(s) + j] = u[j]
<1>1. PICK a \in Nat, b \in Nat : a = Len(s) /\ b = Len(u)
  BY LenProperties
<1>2. /\ s \o u \in Seq(X) /\ Len(s \o u) = a + b
      /\ \A j \in 1..(a + b) : (s \o u)[j] = IF j <= a THEN s[j] ELSE u[j - a]
  BY <1>1, ConcatProperties
<1>3. \A j \in 1..a : j \in 1..(a + b) /\ j <= a
  OBVIOUS
<1>4. \A j \in 1..b : a + j \in 1..(a + b) /\ ~(a + j <= a) /\ (a + j) - a = j
  OBVIOUS
<1> QED
  BY <1>1, <1>2, <1>3, <1>4

\* t holds the first i members of e at the places o.
Holds(X, e, t, o, i) ==
  /\ t \in Seq(X)
  /\ \A k \in 1..i : /\ o[k] + Len(e[k]) <= Len(t)
                     /\ \A j \in 1..Len(e[k]) : t[o[k] + j] = e[k][j]

LEMMA HoldsMore ==
  ASSUME NEW X, NEW e, NEW o, NEW i \in Nat, NEW t, Holds(X, e, t, o, i), NEW u \in Seq(X),
         \A k \in 1..(i + 1) : o[k] \in Nat /\ Len(e[k]) \in Nat,
         e[i + 1] = u, o[i + 1] = Len(t)
  PROVE  Holds(X, e, t \o u, o, i + 1)
<1>1. /\ t \o u \in Seq(X) /\ Len(t) \in Nat /\ Len(u) \in Nat /\ Len(t \o u) = Len(t) + Len(u)
      /\ \A j \in 1..Len(t) : (t \o u)[j] = t[j]
      /\ \A j \in 1..Len(u) : (t \o u)[Len(t) + j] = u[j]
  BY TwoJoined DEF Holds
<1>2. ASSUME NEW k \in 1..(i + 1)
      PROVE  /\ o[k] + Len(e[k]) <= Len(t \o u)
             /\ \A j \in 1..Len(e[k]) : (t \o u)[o[k] + j] = e[k][j]
  <2>1. CASE k = i + 1
    <3>1. o[k] = Len(t) /\ e[k] = u
      BY <2>1
    <3>2. Len(t) + Len(u) <= Len(t \o u)
      BY <1>1
    <3> QED
      BY <1>1, <3>1, <3>2
  <2>2. CASE k # i + 1
    <3>1. k \in 1..i /\ o[k] \in Nat /\ Len(e[k]) \in Nat
      BY <1>2, <2>2
    <3>2. o[k] + Len(e[k]) <= Len(t) /\ \A j \in 1..Len(e[k]) : t[o[k] + j] = e[k][j]
      BY <3>1 DEF Holds
    <3>3. \A j \in 1..Len(e[k]) : o[k] + j \in 1..Len(t)
      BY <1>1, <3>1, <3>2
    <3>4. o[k] + Len(e[k]) <= Len(t \o u)
      BY <1>1, <3>1, <3>2
    <3> QED
      BY <1>1, <3>2, <3>3, <3>4
  <2> QED
    BY <2>1, <2>2
<1> QED
  BY <1>1, <1>2 DEF Holds

LEMMA FlattenPlaces ==
  ASSUME NEW X, NEW e \in Seq(Seq(X))
  PROVE  FlattenSeq(e) \in Seq(X) /\ \E o : PlacesIn(e, FlattenSeq(e), o)
<1>1. Len(e) \in Nat /\ \A k \in 1..Len(e) : e[k] \in Seq(X) /\ Len(e[k]) \in Nat
  BY LenProperties, ElementOfSeq
<1>2. CASE Len(e) = 0
  <2>1. FlattenSeq(e) = e /\ e = <<>>
    BY <1>2, EmptySeq DEF FlattenSeq
  <2>2. FlattenSeq(e) \in Seq(X) /\ Len(FlattenSeq(e)) = 0
    BY <1>2, <2>1, EmptySeq
  <2>3. PlacesIn(e, FlattenSeq(e), [k \in 1..1 |-> 0])
    BY <1>2, <2>2 DEF PlacesIn
  <2> QED
    BY <2>2, <2>3
<1>3. CASE Len(e) # 0
  <2>0. PICK n \in Nat \ {0} : n = Len(e)
    BY <1>1, <1>3
  <2>1. PICK g : Concats(e, n, g) /\ FlattenSeq(e) = g[n]
    BY <2>0, FlattenIsConcat
  <2>2. \A i \in 1..n : g[i] = IF i = 1 THEN e[i] ELSE g[i - 1] \o e[i]
    BY <2>1, Zenon DEF Concats
  <2> DEFINE o == [k \in 1..(n + 1) |-> IF k = 1 THEN 0 ELSE Len(g[k - 1])]
             S == {i \in Nat : i \in 1..n =>
                                 Holds(X, e, g[i], o, i) /\ \A k \in 1..(i + 1) : o[k] \in Nat}
  <2>3. o[1] = 0 /\ \A i \in 1..n : o[i + 1] = Len(g[i])
    OBVIOUS
  <2>4. DOMAIN o = 1..(n + 1)
    OBVIOUS
  <2> HIDE DEF o
  <2>5. 0 \in S
    OBVIOUS
  <2>6. ASSUME NEW i \in Nat, i \in S PROVE i + 1 \in S
    <3> SUFFICES ASSUME i + 1 \in 1..n
                 PROVE  Holds(X, e, g[i + 1], o, i + 1) /\ \A k \in 1..(i + 2) : o[k] \in Nat
      OBVIOUS
    <3>1. e[i + 1] \in Seq(X) /\ Len(e[i + 1]) \in Nat
      BY <1>1, <2>0
    <3>2. CASE i = 0
      <4>1. g[1] = e[1] /\ 1 \in 1..n
        <5>1. 1 \in 1..n
          OBVIOUS
        <5>2. g[1] = IF 1 = 1 THEN e[1] ELSE g[1 - 1] \o e[1]
          BY <2>2, <5>1, Zenon
        <5> QED
          BY <5>1, <5>2, Zenon
      <4>2. \A k \in 1..1 : k = 1
        OBVIOUS
      <4>3. Holds(X, e, e[1], o, 1)
        <5>1. \A j \in 1..Len(e[1]) : o[1] + j = j
          BY <2>3
        <5>2. o[1] + Len(e[1]) <= Len(e[1]) /\ e[1] \in Seq(X)
          BY <2>3, <3>1, <3>2
        <5> QED
          BY <4>2, <5>1, <5>2 DEF Holds
      <4>4. o[1] \in Nat /\ o[2] \in Nat
        BY <2>3, <3>1, <3>2, <4>1
      <4>5. \A k \in 1..2 : k = 1 \/ k = 2
        OBVIOUS
      <4> QED
        BY <3>2, <4>1, <4>3, <4>4, <4>5
    <3>3. CASE i # 0
      <4>1. i \in 1..n
        BY <3>3
      <4>2. Holds(X, e, g[i], o, i) /\ \A k \in 1..(i + 1) : o[k] \in Nat
        BY <2>6, <4>1
      <4>3. g[i + 1] = g[i] \o e[i + 1]
        <5>1. i + 1 # 1 /\ (i + 1) - 1 = i
          BY <3>3
        <5>2. g[i + 1] = IF i + 1 = 1 THEN e[i + 1] ELSE g[(i + 1) - 1] \o e[i + 1]
          BY <2>2
        <5> QED
          BY <5>1, <5>2
      <4>4. \A k \in 1..(i + 1) : o[k] \in Nat /\ Len(e[k]) \in Nat
        BY <1>1, <2>0, <4>2
      <4>5. o[i + 1] = Len(g[i])
        BY <2>3, <4>1
      <4>6. Holds(X, e, g[i] \o e[i + 1], o, i + 1)
        BY <3>1, <4>2, <4>4, <4>5, HoldsMore
      <4>7. o[i + 2] = Len(g[i + 1]) /\ Len(g[i + 1]) \in Nat
        <5>1. (i + 1) + 1 = i + 2
          OBVIOUS
        <5>2. g[i + 1] \in Seq(X)
          BY <4>3, <4>6 DEF Holds
        <5> QED
          BY <2>3, <5>1, <5>2, LenProperties
      <4>8. \A k \in 1..(i + 2) : k \in 1..(i + 1) \/ k = i + 2
        OBVIOUS
      <4> QED
        BY <4>2, <4>3, <4>6, <4>7, <4>8
    <3> QED
      BY <3>2, <3>3
  <2> HIDE DEF S
  <2>7. \A i \in Nat : i \in S
    BY <2>5, <2>6, Reaches
  <2>8. \A i \in 1..n : Holds(X, e, g[i], o, i)
    BY <2>7 DEF S
  <2>9. o \in [1..(n + 1) -> Nat]
    <3>1. \A k \in 1..(n + 1) : o[k] \in Nat
      <4>1. n \in S /\ n \in 1..n
        BY <2>7
      <4> QED
        BY <4>1 DEF S
    <3>2. o = [k \in 1..(n + 1) |-> o[k]]
      BY DEF o
    <3> QED
      BY <3>1, <3>2
  <2>10. Holds(X, e, g[n], o, n) /\ g[n] \in Seq(X) /\ o[n + 1] = Len(g[n])
    BY <2>3, <2>8 DEF Holds
  <2>11. ASSUME NEW k \in 1..n PROVE o[k + 1] = o[k] + Len(e[k])
    <3>1. g[k] = (IF k = 1 THEN e[k] ELSE g[k - 1] \o e[k]) /\ o[k + 1] = Len(g[k])
      BY <2>2, <2>3
    <3>2. CASE k = 1
      BY <1>1, <2>0, <2>3, <3>1, <3>2
    <3>3. CASE k # 1
      <4>1. k - 1 \in 1..n /\ (k - 1) + 1 = k
        BY <3>3
      <4>2. g[k - 1] \in Seq(X) /\ e[k] \in Seq(X) /\ o[k] = Len(g[k - 1])
        <5>1. g[k - 1] \in Seq(X)
          BY <2>8, <4>1 DEF Holds
        <5> QED
          BY <1>1, <2>0, <2>3, <4>1, <5>1
      <4>3. Len(g[k - 1] \o e[k]) = Len(g[k - 1]) + Len(e[k])
        BY <4>2, TwoJoined
      <4> QED
        BY <3>1, <3>3, <4>2, <4>3
    <3> QED
      BY <3>2, <3>3
  <2>12. PlacesIn(e, FlattenSeq(e), o)
    BY <2>0, <2>1, <2>3, <2>9, <2>10, <2>11 DEF PlacesIn, Holds
  <2> QED
    BY <2>1, <2>10, <2>12
<1> QED
  BY <1>2, <1>3
=============================================================================
