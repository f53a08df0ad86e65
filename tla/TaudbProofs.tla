----------------------------- MODULE TaudbProofs -----------------------------
(***************************************************************************)
(* Proofs about the sequential parts of taudb, for any base of a byte, any *)
(* sizes and any contents:                                                 *)
(*   - internal keys (module InternalKey): KeysRoundTrip;                  *)
(*   - batches (module Batch): BatchesRecord and BatchesLoad;              *)
(*   - Buffer (module ByteBuffer): QueueImplemented.                       *)
(*                                                                         *)
(* The codecs are recursive functions.  That such a function exists and    *)
(* meets its equation is proved once, for a function with one recursive    *)
(* call for an argument of smaller measure (Recursion), and what it        *)
(* computes is proved by induction over sets (MeasureInduction, NatSets,   *)
(* NatStrong): to show P(x) for every x of S, show that the set of the     *)
(* x \in S with P(x) has x if it has the smaller ones.                     *)
(*                                                                         *)
(* Lemmas that are used with arguments that are not variables take these   *)
(* as parameters with an equation, and name what they show of all of their *)
(* parameters by a definition (Joined, IsAt, Prefix, TurnAt...).           *)
(***************************************************************************)
EXTENDS Batch, ByteBuffer, SequenceTheorems, WellFoundedInduction, TLAPS

\* A set of numbers that is not empty has a least one.
LEMMA LeastOf ==
    ASSUME NEW S \in SUBSET Nat, S # {}
    PROVE  \E i \in S : \A j \in S : i <= j
<1>1. \E i \in S : \A j \in S : ~(<<j, i>> \in OpToRel(<, Nat))
  BY NatLessThanWellFounded, WFMin, Zenon
<1>2. PICK i \in S : \A j \in S : ~(j < i)
  BY <1>1 DEF OpToRel
<1>3. \A j \in S : i <= j
  BY <1>2
<1> QED
  BY <1>3

(***************************************************************************)
(* Induction along a measure, over sets: T has every element of S if it    *)
(* has each whose smaller ones it has.                                     *)
(***************************************************************************)
LEMMA MeasureInduction ==
    ASSUME NEW S, NEW T, NEW m \in [S -> Nat],
           \A x \in S : (\A y \in S : m[y] < m[x] => y \in T) => x \in T
    PROVE  S \subseteq T
<1> DEFINE M == {m[x] : x \in S \ T}
<1>1. SUFFICES ASSUME S \ T # {} PROVE FALSE
  OBVIOUS
<1>2. M \subseteq Nat /\ M # {}
  BY <1>1
<1>3. PICK i \in M : \A j \in M : i <= j
  <2> HIDE DEF M
  <2> QED  BY <1>2, LeastOf
<1>4. PICK x \in S \ T : i = m[x]
  BY <1>3
<1>5. \A y \in S : m[y] < m[x] => y \in T
  <2> SUFFICES ASSUME NEW y \in S, m[y] < m[x], y \notin T PROVE FALSE
    OBVIOUS
  <2>1. m[y] \in M
    OBVIOUS
  <2>2. m[y] \in Nat /\ m[x] \in Nat /\ m[x] <= m[y]
    BY <1>3, <1>4, <2>1
  <2> QED  BY <2>2
<1> QED
  BY <1>4, <1>5

(***************************************************************************)
(* Induction over the natural numbers.                                     *)
(***************************************************************************)
LEMMA NatSets ==
    ASSUME NEW T, 0 \in T, \A n \in Nat : n \in T => n + 1 \in T
    PROVE  Nat \subseteq T
<1> DEFINE M == Nat \ T
<1>1. SUFFICES ASSUME M # {} PROVE FALSE
  OBVIOUS
<1>2. PICK i \in M : \A j \in M : i <= j
  <2>1. M \in SUBSET Nat
    OBVIOUS
  <2> HIDE DEF M
  <2> QED  BY <1>1, <2>1, LeastOf
<1>3. i # 0 /\ i \in Nat
  OBVIOUS
<1>4. i - 1 \in Nat /\ i - 1 \notin M
  BY <1>2, <1>3
<1>5. i - 1 + 1 \in T
  BY <1>4
<1> QED
  BY <1>5, <1>3, <1>2

\* Induction over the natural numbers, from all smaller ones.
LEMMA NatStrong ==
    ASSUME NEW T, \A x \in Nat : (\A y \in Nat : y < x => y \in T) => x \in T
    PROVE  Nat \subseteq T
<1> DEFINE M == Nat \ T
<1>1. SUFFICES ASSUME M # {} PROVE FALSE
  OBVIOUS
<1>2. PICK i \in M : \A j \in M : i <= j
  <2>1. M \in SUBSET Nat
    OBVIOUS
  <2> HIDE DEF M
  <2> QED  BY <1>1, <2>1, LeastOf
<1>3. \A y \in Nat : y < i => y \in T
  BY <1>2
<1> QED
  BY <1>2, <1>3

(***************************************************************************)
(* Induction over sequences, by their tails.                               *)
(***************************************************************************)
LEMMA SeqSets ==
    ASSUME NEW A, NEW T, << >> \in T,
           \A s \in Seq(A) : s # << >> /\ Tail(s) \in T => s \in T
    PROVE  Seq(A) \subseteq T
<1> DEFINE S == Seq(A)
           m == [s \in S |-> Len(s)]
<1>1. m \in [S -> Nat]
  BY LenProperties
<1>2. ASSUME NEW s \in S, \A y \in S : m[y] < m[s] => y \in T
      PROVE  s \in T
  <2>1. CASE s # << >>
    <3>1. Tail(s) \in S /\ Len(Tail(s)) = Len(s) - 1 /\ Len(s) \in Nat
      BY <2>1, HeadTailProperties, LenProperties
    <3>2. m[Tail(s)] < m[s]
      BY <3>1
    <3> QED  BY <1>2, <2>1, <3>1, <3>2
  <2> QED  BY <2>1
<1>3. S \subseteq T
  <2> HIDE DEF S, m
  <2> QED  BY <1>1, <1>2, MeasureInduction
<1> QED
  BY <1>3

(***************************************************************************)
(* f meets the equation of a recursive function at x.  The function takes  *)
(* base on the elements of Stop, and has one recursive call elsewhere, for *)
(* p[x], whose value F makes the value at x.                               *)
(***************************************************************************)
Meets(f, x, Stop, base, p, F) ==
    f[x] = IF x \in Stop THEN base[x] ELSE F[<<x, f[p[x]]>>]

(***************************************************************************)
(* A function whose recursive calls are for smaller arguments exists.      *)
(***************************************************************************)
LEMMA Recursion ==
    ASSUME NEW S, NEW V, NEW Stop, NEW base \in [S -> V], NEW p, NEW F \in [S \X V -> V],
           NEW m \in [S -> Nat],
           \A x \in S : x \notin Stop => p[x] \in S /\ m[p[x]] < m[x]
    PROVE  \E f \in [S -> V] : \A x \in S : Meets(f, x, Stop, base, p, F)
<1> DEFINE Upto(n, g) == /\ g \in [S -> V]
                         /\ \A x \in S : m[x] < n => Meets(g, x, Stop, base, p, F)
           N == {n \in Nat : \E g : Upto(n, g)}
<1>1. 0 \in N
  <2>1. Upto(0, base)
    OBVIOUS
  <2> QED  BY <2>1
<1>2. ASSUME NEW n \in Nat, n \in N
      PROVE  n + 1 \in N
  <2>1. PICK g : Upto(n, g)
    BY <1>2
  <2> DEFINE h == [x \in S |-> IF x \in Stop THEN base[x] ELSE F[<<x, g[p[x]]>>]]
  <2>2. h \in [S -> V]
    <3> SUFFICES ASSUME NEW x \in S PROVE (IF x \in Stop THEN base[x] ELSE F[<<x, g[p[x]]>>]) \in V
      OBVIOUS
    <3>1. CASE x \in Stop
      BY <3>1
    <3>2. CASE x \notin Stop
      <4>1. <<x, g[p[x]]>> \in S \X V
        BY <2>1, <3>2
      <4> QED  BY <4>1, <3>2
    <3> QED  BY <3>1, <3>2
  <2>3. ASSUME NEW x \in S, m[x] < n
        PROVE  h[x] = g[x]
    BY <2>1, <2>3 DEF Meets
  <2>4. ASSUME NEW x \in S, m[x] < n + 1
        PROVE  Meets(h, x, Stop, base, p, F)
    <3>1. CASE x \in Stop
      BY <3>1 DEF Meets
    <3>2. CASE x \notin Stop
      <4>1. p[x] \in S /\ m[p[x]] \in Nat /\ m[x] \in Nat /\ m[p[x]] < m[x]
        BY <3>2
      <4>2. m[p[x]] < n
        BY <4>1, <2>4
      <4>3. h[p[x]] = g[p[x]]
        BY <2>3, <4>1, <4>2
      <4>4. h[x] = F[<<x, g[p[x]]>>]
        BY <3>2
      <4> HIDE DEF h
      <4> QED  BY <3>2, <4>3, <4>4 DEF Meets
    <3> QED  BY <3>1, <3>2
  <2>5. Upto(n + 1, h)
    <3> HIDE DEF h
    <3> QED  BY <2>2, <2>4
  <2>6. \E g0 : Upto(n + 1, g0)
    <3> HIDE DEF h, Upto
    <3> QED  BY <2>5
  <2> QED  BY <2>6
<1>3. \A n \in Nat : \E g : Upto(n, g)
  <2>1. Nat \subseteq N
    <3> HIDE DEF N
    <3> QED  BY <1>1, <1>2, NatSets
  <2> QED  BY <2>1
<1>4. ASSUME NEW n \in Nat, NEW k \in Nat, NEW g, NEW h, Upto(n, g), Upto(k, h)
      PROVE  \A x \in S : m[x] < n /\ m[x] < k => g[x] = h[x]
  <2> DEFINE T == {x \in S : m[x] < n /\ m[x] < k => g[x] = h[x]}
  <2>1. ASSUME NEW x \in S, \A y \in S : m[y] < m[x] => y \in T
        PROVE  x \in T
    <3> SUFFICES ASSUME m[x] < n, m[x] < k PROVE g[x] = h[x]
      OBVIOUS
    <3>1. Meets(g, x, Stop, base, p, F) /\ Meets(h, x, Stop, base, p, F)
      BY <1>4
    <3>2. CASE x \in Stop
      BY <3>1, <3>2 DEF Meets
    <3>3. CASE x \notin Stop
      <4>1. p[x] \in S /\ m[p[x]] \in Nat /\ m[x] \in Nat /\ m[p[x]] < m[x]
        BY <3>3
      <4>2. g[p[x]] = h[p[x]]
        BY <2>1, <4>1
      <4> QED  BY <3>1, <3>3, <4>2 DEF Meets
    <3> QED  BY <3>2, <3>3
  <2>2. S \subseteq T
    <3> HIDE DEF T
    <3> QED  BY <2>1, MeasureInduction
  <2> QED  BY <2>2
<1> DEFINE G(n) == CHOOSE g : Upto(n, g)
           f == [x \in S |-> G(m[x] + 1)[x]]
<1>5. \A n \in Nat : Upto(n, G(n))
  <2> HIDE DEF Upto
  <2> QED  BY <1>3
<1> HIDE DEF G
<1>6. f \in [S -> V]
  BY <1>5
<1>7. ASSUME NEW x \in S
      PROVE  Meets(f, x, Stop, base, p, F)
  <2>1. m[x] \in Nat /\ m[x] + 1 \in Nat /\ m[x] < m[x] + 1
    OBVIOUS
  <2>2. Meets(G(m[x] + 1), x, Stop, base, p, F)
    BY <2>1, <1>5
  <2>3. CASE x \in Stop
    BY <2>2, <2>3 DEF Meets
  <2>4. CASE x \notin Stop
    <3>1. p[x] \in S /\ m[p[x]] \in Nat /\ m[p[x]] < m[x] /\ m[p[x]] + 1 \in Nat
      BY <2>4
    <3>2. G(m[p[x]] + 1)[p[x]] = G(m[x] + 1)[p[x]]
      <4>1. Upto(m[p[x]] + 1, G(m[p[x]] + 1)) /\ Upto(m[x] + 1, G(m[x] + 1))
        BY <1>5, <2>1, <3>1
      <4>2. m[p[x]] < m[p[x]] + 1 /\ m[p[x]] < m[x] + 1
        BY <2>1, <3>1
      <4> HIDE DEF Upto
      <4> QED  BY <1>4, <2>1, <3>1, <4>1, <4>2
    <3>3. f[p[x]] = G(m[x] + 1)[p[x]] /\ f[x] = G(m[x] + 1)[x]
      BY <3>1, <3>2
    <3> HIDE DEF f
    <3> QED  BY <2>2, <2>4, <3>3 DEF Meets
  <2> QED  BY <2>3, <2>4
<1> QED
  <2> HIDE DEF f
  <2> QED  BY <1>6, <1>7

-----------------------------------------------------------------------------
(* Sequences *)

(***************************************************************************)
(* A part of a sequence, element by element.                               *)
(***************************************************************************)
PartOf(S, s, j, k) ==
    /\ SubSeq(s, j + 1, k) \in Seq(S) /\ Len(SubSeq(s, j + 1, k)) = k - j
    /\ \A i \in 1..(k - j) : SubSeq(s, j + 1, k)[i] = s[j + i]

\* SubSeq is such a part.
LEMMA Part ==
    ASSUME NEW S, NEW s \in Seq(S), NEW j \in Nat, NEW k \in Nat, j <= k, k <= Len(s)
    PROVE  PartOf(S, s, j, k)
<1>1. \A i \in (j + 1)..k : s[i] \in S
  <2> TAKE i \in (j + 1)..k
  <2>1. i \in 1..Len(s)
    BY LenProperties
  <2> QED  BY <2>1, ElementOfSeq
<1>2. j + 1 \in Int /\ k \in Int
  OBVIOUS
<1>3. /\ SubSeq(s, j + 1, k) \in Seq(S)
      /\ Len(SubSeq(s, j + 1, k)) = IF j + 1 <= k THEN k - (j + 1) + 1 ELSE 0
      /\ \A i \in 1..(k - (j + 1) + 1) : SubSeq(s, j + 1, k)[i] = s[j + 1 + i - 1]
  BY <1>1, <1>2, SubSeqProperties
<1>4. /\ SubSeq(s, j + 1, k) \in Seq(S) /\ Len(SubSeq(s, j + 1, k)) = k - j
      /\ \A i \in 1..(k - j) : SubSeq(s, j + 1, k)[i] = s[j + i]
  BY <1>3
<1> QED
  BY <1>4, Zenon DEF PartOf

\* The first k elements of a sequence.
LEMMA First ==
    ASSUME NEW S, NEW s \in Seq(S), NEW k \in 0..Len(s)
    PROVE  /\ SubSeq(s, 1, k) \in Seq(S)
           /\ Len(SubSeq(s, 1, k)) = k
           /\ \A i \in 1..k : SubSeq(s, 1, k)[i] = s[i]
<1>0. Len(s) \in Nat
  BY LenProperties
<1>1. \A i \in 1..k : s[i] \in S
  BY <1>0, ElementOfSeq
<1>2. /\ SubSeq(s, 1, k) \in Seq(S)
      /\ Len(SubSeq(s, 1, k)) = IF 1 <= k THEN k - 1 + 1 ELSE 0
      /\ \A i \in 1..(k - 1 + 1) : SubSeq(s, 1, k)[i] = s[1 + i - 1]
  BY <1>0, <1>1, SubSeqProperties
<1> QED
  BY <1>0, <1>2

(***************************************************************************)
(* Where the elements of s \o t are.                                       *)
(***************************************************************************)
LEMMA Cat ==
    ASSUME NEW S, NEW s \in Seq(S), NEW t \in Seq(S)
    PROVE  /\ s \o t \in Seq(S) /\ Len(s) \in Nat /\ Len(t) \in Nat
           /\ Len(s \o t) = Len(s) + Len(t)
           /\ \A i \in 1..Len(s) : (s \o t)[i] = s[i]
           /\ \A i \in 1..Len(t) : (s \o t)[Len(s) + i] = t[i]
<1>1. Len(s) \in Nat /\ Len(t) \in Nat
  BY LenProperties
<1>2. /\ s \o t \in Seq(S) /\ Len(s \o t) = Len(s) + Len(t)
      /\ \A i \in 1 .. Len(s) + Len(t) : (s \o t)[i] =
                     IF i <= Len(s) THEN s[i] ELSE t[i - Len(s)]
  BY ConcatProperties
<1>3. ASSUME NEW i \in 1..Len(s) PROVE (s \o t)[i] = s[i]
  BY <1>1, <1>2
<1>4. ASSUME NEW i \in 1..Len(t) PROVE (s \o t)[Len(s) + i] = t[i]
  <2>1. PICK j \in Nat : j = Len(s) + i
    BY <1>1
  <2>2. j \in 1..(Len(s) + Len(t)) /\ ~(j <= Len(s)) /\ j - Len(s) = i
    BY <1>1, <2>1
  <2>3. (s \o t)[j] = t[j - Len(s)]
    BY <1>2, <2>2
  <2> QED  BY <2>1, <2>2, <2>3
<1> QED
  BY <1>1, <1>2, <1>3, <1>4

\* u has the elements of s and then those of t, f the first k of s.
Joined(S, u, s, t) ==
    /\ u \in Seq(S) /\ Len(s) \in Nat /\ Len(t) \in Nat /\ Len(u) = Len(s) + Len(t)
    /\ \A i \in 1..Len(s) : u[i] = s[i]
    /\ \A i \in 1..Len(t) : u[Len(s) + i] = t[i]

Begins(S, f, s, k) ==
    f \in Seq(S) /\ Len(f) = k /\ \A i \in 1..k : f[i] = s[i]

\* s \o t joins s and t.
LEMMA JoinedCat ==
    ASSUME NEW S, NEW s \in Seq(S), NEW t \in Seq(S), NEW u, u = s \o t
    PROVE  Joined(S, u, s, t)
  BY Cat DEF Joined

\* SubSeq(s, 1, k) is how s begins.
LEMMA BeginsFirst ==
    ASSUME NEW S, NEW s \in Seq(S), NEW k \in 0..Len(s), NEW f, f = SubSeq(s, 1, k)
    PROVE  Begins(S, f, s, k)
  BY First DEF Begins

(***************************************************************************)
(* The first part of s \o t, as far as s goes, and beyond.                 *)
(***************************************************************************)
LEMMA FirstOf ==
    ASSUME NEW S, NEW s \in Seq(S), NEW t \in Seq(S), NEW k \in 0..Len(s)
    PROVE  SubSeq(s \o t, 1, k) = SubSeq(s, 1, k)
<1>1. PICK u \in Seq(S) : u = s \o t
  BY Cat
<1>2. /\ Len(s) \in Nat /\ Len(t) \in Nat /\ Len(u) = Len(s) + Len(t)
      /\ \A i \in 1..Len(s) : u[i] = s[i]
  BY <1>1, Cat
<1>3. PICK a : a = SubSeq(u, 1, k) /\ a \in Seq(S) /\ Len(a) = k /\ \A i \in 1..k : a[i] = u[i]
  <2>1. k \in 0..Len(u)
    BY <1>2
  <2> QED  BY <2>1, First, Zenon
<1>4. PICK b : b = SubSeq(s, 1, k) /\ b \in Seq(S) /\ Len(b) = k /\ \A i \in 1..k : b[i] = s[i]
  BY First, Zenon
<1>5. \A i \in 1..Len(a) : a[i] = b[i]
  BY <1>2, <1>3, <1>4
<1>6. a = b
  BY <1>3, <1>4, <1>5, SeqEqual
<1> QED
  BY <1>1, <1>3, <1>4, <1>6

\* What is behind s in s \o t.
LEMMA Behind ==
    ASSUME NEW S, NEW s \in Seq(S), NEW t \in Seq(S)
    PROVE  SubSeq(s \o t, Len(s) + 1, Len(s \o t)) = t
<1>1. PICK u \in Seq(S) : u = s \o t
  BY Cat
<1>0. /\ Len(s) \in Nat /\ Len(t) \in Nat /\ Len(u) = Len(s) + Len(t)
      /\ \A i \in 1..Len(t) : u[Len(s) + i] = t[i]
  BY <1>1, Cat
<1>2. PICK j \in Nat, n \in Nat, k \in Nat :
         j = Len(s) /\ n = Len(t) /\ k = j + n /\ Len(u) = k
  BY <1>0
<1>3. k <= Len(u) /\ j <= k /\ k - j = n
  BY <1>2
<1>4. PICK a : a = SubSeq(u, j + 1, k) /\ a \in Seq(S) /\ Len(a) = k - j /\ \A i \in 1..(k - j) : a[i] = u[j + i]
  <2>1. PartOf(S, u, j, k)
    BY <1>3, Part, Zenon
  <2> QED  BY <2>1, Zenon DEF PartOf
<1>5. Len(a) = Len(t) /\ \A i \in 1..Len(a) : a[i] = t[i]
  BY <1>0, <1>2, <1>3, <1>4
<1>6. a = t
  BY <1>4, <1>5, SeqEqual
<1> QED
  BY <1>1, <1>2, <1>4, <1>6

\* What is before t in s \o t.
LEMMA FirstAll ==
    ASSUME NEW S, NEW s \in Seq(S), NEW t \in Seq(S)
    PROVE  SubSeq(s \o t, 1, Len(s)) = s
<1>1. Len(s) \in 0..Len(s)
  BY LenProperties
<1> QED
  BY <1>1, FirstOf, SubSeqFull

(***************************************************************************)
(* s \o t, cut off behind s.                                               *)
(***************************************************************************)
LEMMA FirstBeyond ==
    ASSUME NEW S, NEW s \in Seq(S), NEW t \in Seq(S), NEW k \in 0..Len(t)
    PROVE  SubSeq(s \o t, 1, Len(s) + k) = s \o SubSeq(t, 1, k)
<1>0. Len(s) \in Nat /\ Len(t) \in Nat
  BY LenProperties
<1>1. PICK u : u = s \o t
  OBVIOUS
<1>2. PICK f : f = SubSeq(t, 1, k)
  OBVIOUS
<1>3. PICK v : v = s \o f
  OBVIOUS
<1>4. PICK n : n = Len(s) + k
  OBVIOUS
<1>5. PICK a : a = SubSeq(u, 1, n)
  OBVIOUS
<1>6. Joined(S, u, s, t) /\ Begins(S, f, t, k)
  BY <1>1, <1>2, JoinedCat, BeginsFirst, Zenon
<1>7. u \in Seq(S) /\ f \in Seq(S) /\ n \in 0..Len(u)
  BY <1>0, <1>4, <1>6 DEF Joined, Begins
<1>8. Joined(S, v, s, f) /\ Begins(S, a, u, n)
  BY <1>3, <1>5, <1>7, JoinedCat, BeginsFirst, Zenon
<1>9. ASSUME NEW i \in 1..n
      PROVE  a[i] = v[i]
  <2>1. CASE i <= Len(s)
    BY <1>0, <1>4, <1>6, <1>8, <2>1 DEF Joined, Begins
  <2>2. CASE ~(i <= Len(s))
    <3>1. PICK j \in 1..k : i = Len(s) + j
      <4>1. i - Len(s) \in 1..k /\ i = Len(s) + (i - Len(s))
        BY <1>0, <1>4, <2>2
      <4> QED  BY <4>1
    <3>2. j \in 1..Len(t) /\ j \in 1..Len(f)
      BY <1>0, <1>6, <3>1 DEF Begins
    <3>3. a[i] = u[i]
      BY <1>8 DEF Begins
    <3>4. u[i] = t[j]
      BY <1>6, <3>1, <3>2 DEF Joined
    <3>5. f[j] = t[j]
      BY <1>6 DEF Begins
    <3>6. v[i] = f[j]
      BY <1>8, <3>1, <3>2 DEF Joined
    <3> QED  BY <3>3, <3>4, <3>5, <3>6
  <2> QED  BY <2>1, <2>2
<1>10. a = v
  <2>1. a \in Seq(S) /\ v \in Seq(S) /\ Len(a) = n /\ Len(v) = n
    BY <1>4, <1>6, <1>8 DEF Joined, Begins
  <2> QED  BY <1>9, <2>1, SeqEqual
<1> QED
  BY <1>1, <1>2, <1>3, <1>4, <1>5, <1>10, Zenon

-----------------------------------------------------------------------------
(* Numbers *)

\* Division with remainder.
LEMMA DivMod ==
    ASSUME NEW a \in Nat, NEW d \in Nat \ {0}
    PROVE  /\ a \div d \in Nat /\ a % d \in Nat /\ a % d < d
           /\ a = d * (a \div d) + (a % d)
<1>1. a \div d \in Int /\ a % d \in Int
  OBVIOUS
<1>2. a % d >= 0 /\ a % d < d
  OBVIOUS
<1>3. a = d * (a \div d) + (a % d)
  OBVIOUS
<1>4. a \div d >= 0
  <2>1. PICK q \in Int : q = a \div d
    BY <1>1
  <2>2. q < 0 => d * q <= -d
    OBVIOUS
  <2>3. d * q \in Int
    OBVIOUS
  <2> QED  BY <1>1, <1>2, <1>3, <2>1, <2>2, <2>3
<1> QED  BY <1>1, <1>2, <1>3, <1>4

\* Quotient and remainder are the only ones.
LEMMA DivModIs ==
    ASSUME NEW q \in Nat, NEW d \in Nat \ {0}, NEW r \in 0..(d - 1)
    PROVE  (d * q + r) \div d = q /\ (d * q + r) % d = r
  OBVIOUS

\* Multiplication is monotonic.
LEMMA TimesMore ==
    ASSUME NEW d \in Nat, NEW a \in Nat, NEW b \in Nat, a <= b
    PROVE  d * a <= d * b /\ d * a \in Nat /\ d * b \in Nat
  OBVIOUS

\* Dividing by a product is dividing twice.
LEMMA DivDiv ==
    ASSUME NEW a \in Nat, NEW b \in Nat \ {0}, NEW c \in Nat \ {0}
    PROVE  a \div (b * c) = (a \div b) \div c
<1>1. PICK x \in Nat, y \in Nat : x = a \div b /\ y = a % b /\ y < b /\ a = b * x + y
  BY DivMod
<1>2. PICK u \in Nat, v \in Nat : u = x \div c /\ v = x % c /\ v < c /\ x = c * u + v
  BY DivMod
<1>3. b * c \in Nat \ {0}
  OBVIOUS
<1>4. b * v + y \in 0..(b * c - 1)
  <2>1. b * (v + 1) <= b * c
    BY <1>2, TimesMore
  <2>2. b * (v + 1) = b * v + b
    OBVIOUS
  <2>3. b * v \in Nat /\ b * c \in Nat
    OBVIOUS
  <2> QED  BY <2>1, <2>2, <2>3, <1>1
<1>5. a = (b * c) * u + (b * v + y)
  <2>1. b * (c * u) = (b * c) * u
    OBVIOUS
  <2>2. b * (c * u + v) = b * (c * u) + b * v
    OBVIOUS
  <2>3. b * x = b * (c * u + v)
    BY <1>2
  <2>4. (b * c) * u \in Nat /\ b * v \in Nat
    OBVIOUS
  <2>5. b * x = (b * c) * u + b * v
    BY <2>1, <2>2, <2>3
  <2> QED  BY <1>1, <2>4, <2>5
<1>6. a \div (b * c) = u
  BY <1>3, <1>4, <1>5, DivModIs
<1> QED  BY <1>1, <1>2, <1>6

-----------------------------------------------------------------------------
(* Keys *)

\* What KeyAssumption says of the constants.
LEMMA BaseIs == ByteBase \in Nat \ {0} /\ ByteBase >= 2 /\ NumLen \in Nat /\ NumLen >= 1
  BY KeyAssumption

(***************************************************************************)
(* Weight is what its definition says it is.                               *)
(***************************************************************************)
LEMMA WeightIs ==
    /\ Weight \in [Nat -> Nat \ {0}]
    /\ Weight[0] = 1
    /\ \A n \in Nat : Weight[n + 1] = ByteBase * Weight[n]
<1> DEFINE P == Nat \ {0}
           base == [n \in Nat |-> 1]
           p == [n \in Nat |-> n - 1]
           F == [x \in Nat \X P |-> ByteBase * x[2]]
           m == [n \in Nat |-> n]
<1>1. base \in [Nat -> P] /\ m \in [Nat -> Nat]
  OBVIOUS
<1>2. F \in [Nat \X P -> P]
  <2> SUFFICES ASSUME NEW x \in P PROVE ByteBase * x \in P
    OBVIOUS
  <2> QED  BY BaseIs
<1>3. \A n \in Nat : n \notin {0} => p[n] \in Nat /\ m[p[n]] < m[n]
  OBVIOUS
<1>4. PICK f \in [Nat -> P] : \A n \in Nat : Meets(f, n, {0}, base, p, F)
  <2> HIDE DEF base, p, F, m, P
  <2> QED  BY <1>1, <1>2, <1>3, Recursion, Zenon
<1>5. \A n \in Nat : f[n] = IF n = 0 THEN 1 ELSE ByteBase * f[n - 1]
  <2> SUFFICES ASSUME NEW n \in Nat
               PROVE  f[n] = IF n = 0 THEN 1 ELSE ByteBase * f[n - 1]
    OBVIOUS
  <2>1. CASE n = 0
    BY <1>4, <2>1 DEF Meets
  <2>2. CASE n # 0
    <3>1. n - 1 \in Nat
      BY <2>2
    <3>2. <<n, f[n - 1]>> \in Nat \X P
      BY <3>1
    <3>3. F[<<n, f[n - 1]>>] = ByteBase * f[n - 1]
      BY <3>2
    <3>4. f[n] = F[<<n, f[n - 1]>>]
      BY <1>4, <2>2 DEF Meets
    <3> QED  BY <2>2, <3>3, <3>4
  <2> QED  BY <2>1, <2>2
<1>6. f = [n \in Nat |-> IF n = 0 THEN 1 ELSE ByteBase * f[n - 1]]
  BY <1>5
<1>7. Weight = [n \in Nat |-> IF n = 0 THEN 1 ELSE ByteBase * Weight[n - 1]]
  BY <1>6, Zenon DEF Weight
<1> HIDE DEF P
<1>8. \A n \in Nat : Weight[n] \in P
  <2> DEFINE T == {n \in Nat : Weight[n] \in P}
  <2>1. 0 \in T
    BY <1>7 DEF P
  <2>2. \A n \in Nat : n \in T => n + 1 \in T
    <3> SUFFICES ASSUME NEW n \in Nat, Weight[n] \in P PROVE Weight[n + 1] \in P
      OBVIOUS
    <3>1. Weight[n + 1] = ByteBase * Weight[n]
      BY <1>7
    <3> QED  BY <3>1, BaseIs DEF P
  <2>3. Nat \subseteq T
    <3> HIDE DEF T
    <3> QED  BY <2>1, <2>2, NatSets
  <2> QED  BY <2>3
<1>9. \A n \in Nat : Weight[n + 1] = ByteBase * Weight[n]
  BY <1>7
<1>10. Weight \in [Nat -> P]
  <2>1. Weight = [n \in Nat |-> Weight[n]]
    BY <1>7, Zenon
  <2> QED  BY <1>8, <2>1, Zenon
<1> QED
  BY <1>7, <1>9, <1>10 DEF P

(***************************************************************************)
(* And so is UintFrom.                                                     *)
(***************************************************************************)
LEMMA UintFromIs ==
    /\ UintFrom \in [Seq(Byte) -> Nat]
    /\ UintFrom[<< >>] = 0
    /\ \A s \in Seq(Byte) : s # << >> => UintFrom[s] = Head(s) + ByteBase * UintFrom[Tail(s)]
<1> DEFINE S == Seq(Byte)
           base == [s \in S |-> 0]
           p == [s \in S |-> Tail(s)]
           F == [x \in S \X Nat |-> IF x[1] = << >> THEN 0 ELSE Head(x[1]) + ByteBase * x[2]]
           m == [s \in S |-> Len(s)]
<1>0. \A s \in S : s # << >> => Head(s) \in Nat /\ Tail(s) \in S /\ Len(Tail(s)) = Len(s) - 1
  BY HeadTailProperties, BaseIs DEF Byte
<1>1. base \in [S -> Nat] /\ m \in [S -> Nat]
  BY LenProperties
<1>2. F \in [S \X Nat -> Nat]
  <2> SUFFICES ASSUME NEW s \in S, NEW x \in Nat, s # << >> PROVE Head(s) + ByteBase * x \in Nat
    OBVIOUS
  <2>1. ByteBase * x \in Nat
    BY BaseIs
  <2> QED  BY <1>0, <2>1
<1>3. \A s \in S : s \notin {<< >>} => p[s] \in S /\ m[p[s]] < m[s]
  BY <1>0, LenProperties
<1>4. PICK f \in [S -> Nat] : \A s \in S : Meets(f, s, {<< >>}, base, p, F)
  <2> HIDE DEF base, p, F, m, S
  <2> QED  BY <1>1, <1>2, <1>3, Recursion, Zenon
<1>5. \A s \in S : f[s] = IF s = << >> THEN 0 ELSE Head(s) + ByteBase * f[Tail(s)]
  <2> SUFFICES ASSUME NEW s \in S
               PROVE  f[s] = IF s = << >> THEN 0 ELSE Head(s) + ByteBase * f[Tail(s)]
    OBVIOUS
  <2>1. CASE s = << >>
    BY <1>4, <2>1 DEF Meets
  <2>2. CASE s # << >>
    <3>1. <<s, f[Tail(s)]>> \in S \X Nat
      BY <1>0, <2>2
    <3>2. F[<<s, f[Tail(s)]>>] = Head(s) + ByteBase * f[Tail(s)]
      BY <3>1, <2>2
    <3>3. f[s] = F[<<s, f[Tail(s)]>>]
      BY <1>4, <2>2 DEF Meets
    <3> QED  BY <2>2, <3>2, <3>3
  <2> QED  BY <2>1, <2>2
<1>6. f = [s \in Seq(Byte) |-> IF s = << >> THEN 0 ELSE Head(s) + ByteBase * f[Tail(s)]]
  BY <1>5
<1>7. UintFrom = [s \in Seq(Byte) |-> IF s = << >> THEN 0 ELSE Head(s) + ByteBase * UintFrom[Tail(s)]]
  BY <1>6, Zenon DEF UintFrom
<1>8. \A s \in S : UintFrom[s] \in Nat
  <2> DEFINE T == {s \in S : UintFrom[s] \in Nat}
  <2>1. << >> \in T
    BY <1>7, EmptySeq
  <2>2. ASSUME NEW s \in S, s # << >>, Tail(s) \in T
        PROVE  s \in T
    <3>1. UintFrom[s] = Head(s) + ByteBase * UintFrom[Tail(s)]
      BY <1>7, <2>2
    <3>2. ByteBase * UintFrom[Tail(s)] \in Nat
      BY <2>2, BaseIs
    <3> QED  BY <1>0, <2>2, <3>1, <3>2
  <2>3. S \subseteq T
    <3> HIDE DEF T
    <3> QED  BY <2>1, <2>2, SeqSets
  <2> QED  BY <2>3
<1>9. UintFrom[<< >>] = 0
  BY <1>7, EmptySeq
<1>10. \A s \in Seq(Byte) : s # << >> => UintFrom[s] = Head(s) + ByteBase * UintFrom[Tail(s)]
  BY <1>7
<1>11. UintFrom \in [Seq(Byte) -> Nat]
  BY <1>7, <1>8
<1> QED
  BY <1>9, <1>10, <1>11

(***************************************************************************)
(* The bytes of a number, and the number of bytes, by their length.        *)
(***************************************************************************)
Digits(n, num) == [i \in 1..n |-> (num \div Weight[i - 1]) % ByteBase]

\* Digits(n, num) are n bytes.
LEMMA DigitsAre ==
    ASSUME NEW n \in Nat, NEW num \in Nat
    PROVE  /\ Digits(n, num) \in Seq(Byte) /\ Len(Digits(n, num)) = n
           /\ \A i \in 1..n : Digits(n, num)[i] = (num \div Weight[i - 1]) % ByteBase
<1>1. ASSUME NEW i \in 1..n
      PROVE  (num \div Weight[i - 1]) % ByteBase \in Byte
  <2>1. PICK w \in Nat \ {0} : w = Weight[i - 1]
    BY WeightIs
  <2>2. num \div w \in Nat
    BY DivMod
  <2>3. (num \div w) % ByteBase \in Nat /\ (num \div w) % ByteBase < ByteBase
    BY <2>2, BaseIs, DivMod
  <2> QED  BY <2>1, <2>3, BaseIs DEF Byte
<1>2. Digits(n, num) \in [1..n -> Byte]
  BY <1>1 DEF Digits
<1>3. Digits(n, num) \in Seq(Byte)
  BY <1>2, SeqDef
<1>4. DOMAIN Digits(n, num) = 1..n
  BY DEF Digits
<1>5. Len(Digits(n, num)) = n
  BY <1>3, <1>4, LenProperties
<1> QED
  BY <1>3, <1>5 DEF Digits

\* The first byte is the remainder, the others are those of the quotient.
LEMMA DigitsStep ==
    ASSUME NEW n \in Nat, NEW num \in Nat
    PROVE  /\ num \div ByteBase \in Nat
           /\ Digits(n + 1, num) # << >>
           /\ Head(Digits(n + 1, num)) = num % ByteBase
           /\ Tail(Digits(n + 1, num)) = Digits(n, num \div ByteBase)
<1>0. num \div ByteBase \in Nat
  BY BaseIs, DivMod
<1>1. PICK d \in Seq(Byte) : /\ d = Digits(n + 1, num) /\ Len(d) = n + 1
                            /\ \A i \in 1..(n + 1) : d[i] = (num \div Weight[i - 1]) % ByteBase
  BY DigitsAre
<1>2. PICK t \in Seq(Byte) : /\ t = Digits(n, num \div ByteBase) /\ Len(t) = n
                            /\ \A i \in 1..n : t[i] = ((num \div ByteBase) \div Weight[i - 1]) % ByteBase
  BY <1>0, DigitsAre
<1>3. d # << >>
  BY <1>1, EmptySeq
<1>4. Head(d) = num % ByteBase
  <2>1. Head(d) = d[1]
    BY <1>3
  <2>2. d[1] = (num \div 1) % ByteBase
    BY <1>1, WeightIs
  <2>3. num \div 1 = num
    OBVIOUS
  <2> QED  BY <2>1, <2>2, <2>3
<1>5. Tail(d) \in Seq(Byte) /\ Len(Tail(d)) = n /\ \A i \in 1..n : Tail(d)[i] = d[i + 1]
  BY <1>1, <1>3, HeadTailProperties
<1>6. ASSUME NEW i \in 1..n
      PROVE  Tail(d)[i] = t[i]
  <2>1. PICK w \in Nat \ {0} : w = Weight[i - 1]
    BY WeightIs
  <2>2. Weight[i] = ByteBase * w
    <3>1. i - 1 \in Nat /\ (i - 1) + 1 = i
      OBVIOUS
    <3> QED  BY <2>1, <3>1, WeightIs
  <2>3. num \div (ByteBase * w) = (num \div ByteBase) \div w
    BY BaseIs, DivDiv
  <2>4. Tail(d)[i] = (num \div Weight[i]) % ByteBase
    <3>1. i + 1 \in 1..(n + 1) /\ (i + 1) - 1 = i
      OBVIOUS
    <3> QED  BY <1>1, <1>5, <3>1
  <2> QED  BY <1>2, <2>1, <2>2, <2>3, <2>4
<1>7. Tail(d) = t
  BY <1>2, <1>5, <1>6, SeqEqual
<1> QED
  BY <1>0, <1>1, <1>2, <1>3, <1>4, <1>7

(***************************************************************************)
(* A sequence is its head and its tail.                                    *)
(***************************************************************************)
LEMMA SameHeadTail ==
    ASSUME NEW S, NEW s \in Seq(S), NEW t \in Seq(S), s # << >>, t # << >>,
           Head(s) = Head(t), Tail(s) = Tail(t)
    PROVE  s = t
<1>1. PICK u : u = Tail(s) /\ u = Tail(t)
  BY Zenon
<1>2. /\ Len(u) = Len(s) - 1 /\ \A i \in 1..Len(u) : u[i] = s[i + 1]
  BY <1>1, HeadTailProperties, Zenon
<1>3. /\ Len(u) = Len(t) - 1 /\ \A i \in 1..Len(u) : u[i] = t[i + 1]
  BY <1>1, HeadTailProperties, Zenon
<1>4. s[1] = t[1]
  <2>1. Head(s) = s[1] /\ Head(t) = t[1]
    OBVIOUS
  <2> QED  BY <2>1, Zenon
<1>5. Len(s) \in Nat /\ Len(t) \in Nat
  BY LenProperties
<1>6. Len(s) = Len(t)
  BY <1>2, <1>3, <1>5
<1>7. ASSUME NEW i \in 1..Len(s)
      PROVE  s[i] = t[i]
  <2>1. CASE i = 1
    BY <2>1, <1>4
  <2>2. CASE i # 1
    <3>1. i - 1 \in 1..Len(u) /\ (i - 1) + 1 = i
      BY <1>2, <1>5, <2>2
    <3> QED  BY <1>2, <1>3, <3>1
  <2> QED  BY <2>1, <2>2
<1> QED
  BY <1>6, <1>7, SeqEqual

(***************************************************************************)
(* A number below the weight of n bytes is read back from its n bytes.     *)
(***************************************************************************)
LEMMA NumberBack ==
    ASSUME NEW n \in Nat, NEW num \in Nat, num < Weight[n]
    PROVE  UintFrom[Digits(n, num)] = num
<1> DEFINE T == {k \in Nat : \A x \in Nat : x < Weight[k] => UintFrom[Digits(k, x)] = x}
<1>1. 0 \in T
  <2> SUFFICES ASSUME NEW x \in Nat, x < 1 PROVE UintFrom[Digits(0, x)] = x
    BY WeightIs
  <2>1. Digits(0, x) = << >>
    BY DigitsAre, EmptySeq
  <2>2. x = 0
    OBVIOUS
  <2>3. UintFrom[<< >>] = 0
    BY UintFromIs
  <2> QED  BY <2>1, <2>2, <2>3
<1>2. ASSUME NEW k \in Nat, k \in T
      PROVE  k + 1 \in T
  <2> SUFFICES ASSUME NEW x \in Nat, x < Weight[k + 1] PROVE UintFrom[Digits(k + 1, x)] = x
    OBVIOUS
  <2>1. PICK q \in Nat, r \in Nat : q = x \div ByteBase /\ r = x % ByteBase /\ x = ByteBase * q + r
    BY BaseIs, DivMod
  <2>2. PICK w \in Nat : w = Weight[k] /\ x < ByteBase * w
    BY WeightIs
  <2>3. q < w
    <3>1. ~(q < w) => ByteBase * w <= ByteBase * q /\ ByteBase * w \in Nat /\ ByteBase * q \in Nat
      BY BaseIs, TimesMore
    <3> QED  BY <2>1, <2>2, <3>1
  <2>4. UintFrom[Digits(k, q)] = q
    BY <1>2, <2>2, <2>3
  <2>5. PICK d \in Seq(Byte) : d = Digits(k + 1, x)
    BY DigitsAre
  <2>6. d # << >> /\ Head(d) = r /\ Tail(d) = Digits(k, q)
    BY <2>1, <2>5, DigitsStep
  <2>7. UintFrom[d] = r + ByteBase * q
    BY <2>4, <2>6, UintFromIs
  <2>8. ByteBase * q \in Nat
    BY BaseIs
  <2>9. r + ByteBase * q = x
    BY <2>1, <2>8
  <2> QED  BY <2>5, <2>7, <2>9
<1>3. n \in T
  <2> HIDE DEF T
  <2> QED  BY <1>1, <1>2, NatSets
<1> QED
  BY <1>3

(***************************************************************************)
(* Bytes are what their number is written as, and it is below the weight   *)
(* of their length.                                                        *)
(***************************************************************************)
LEMMA BytesBack ==
    ASSUME NEW s \in Seq(Byte)
    PROVE  UintFrom[s] < Weight[Len(s)] /\ Digits(Len(s), UintFrom[s]) = s
<1> DEFINE T == {x \in Seq(Byte) : UintFrom[x] < Weight[Len(x)] /\ Digits(Len(x), UintFrom[x]) = x}
<1>1. << >> \in T
  <2>1. Len(<< >>) = 0 /\ UintFrom[<< >>] = 0 /\ Weight[0] = 1
    BY UintFromIs, WeightIs
  <2>2. Digits(0, 0) = << >>
    BY DigitsAre, EmptySeq
  <2>3. << >> \in Seq(Byte) /\ UintFrom[<< >>] < Weight[Len(<< >>)]
    BY <2>1, EmptySeq
  <2> QED  BY <2>1, <2>2, <2>3
<1>2. ASSUME NEW x \in Seq(Byte), x # << >>, Tail(x) \in T
    PROVE  UintFrom[x] < Weight[Len(x)] /\ Digits(Len(x), UintFrom[x]) = x
  <2>1. Head(x) \in Byte
    BY <1>2, HeadTailProperties
  <2>2. PICK h \in 0..(ByteBase - 1) : h = Head(x)
    BY <2>1 DEF Byte
  <2>3. PICK t \in Seq(Byte) : t = Tail(x)
    BY <1>2, HeadTailProperties, Zenon
  <2>15. Len(t) = Len(x) - 1
    BY <1>2, <2>3, HeadTailProperties, Zenon
  <2>4. PICK k \in Nat : k = Len(t) /\ Len(x) = k + 1
    <3>1. Len(t) \in Nat /\ Len(x) \in Nat
      BY LenProperties
    <3> QED  BY <2>15, <3>1
  <2>5. t \in T
    BY <1>2, <2>3
  <2>6. PICK u \in Nat, w \in Nat : u = UintFrom[t] /\ w = Weight[k] /\ u < w /\ Digits(k, u) = t
    BY <2>4, <2>5, UintFromIs, WeightIs
  <2>7. ByteBase * u \in Nat /\ h \in Nat /\ h < ByteBase /\ ByteBase \in Nat
    BY BaseIs
  <2>8. PICK v \in Nat : v = UintFrom[x] /\ v = ByteBase * u + h
    <3>1. UintFrom[x] = h + ByteBase * u
      BY <1>2, <2>2, <2>3, <2>6, UintFromIs
    <3> QED  BY <3>1, <2>7
  <2>9. v < Weight[k + 1]
    <3>1. Weight[k + 1] = ByteBase * w
      BY <2>6, WeightIs
    <3>2. PICK u1 \in Nat : u1 = u + 1 /\ u1 <= w
      BY <2>6
    <3>3. ByteBase * u1 <= ByteBase * w /\ ByteBase * w \in Nat
      BY <2>7, <3>2, TimesMore
    <3>4. ByteBase * u1 = ByteBase * u + ByteBase
      BY <2>7, <3>2
    <3>5. v < ByteBase * w
      BY <2>7, <2>8, <3>3, <3>4
    <3> QED  BY <3>1, <3>5
  <2>10. v \div ByteBase = u /\ v % ByteBase = h
    <3>1. (ByteBase * u + h) \div ByteBase = u /\ (ByteBase * u + h) % ByteBase = h
      BY BaseIs, DivModIs, Zenon
    <3> QED  BY <2>8, <3>1
  <2>11. PICK d \in Seq(Byte) : d = Digits(k + 1, v)
    BY DigitsAre
  <2>12. d # << >> /\ Head(d) = h /\ Tail(d) = t
    <3>1. Head(Digits(k + 1, v)) = v % ByteBase /\ Tail(Digits(k + 1, v)) = Digits(k, v \div ByteBase)
          /\ Digits(k + 1, v) # << >>
      BY DigitsStep
    <3> QED  BY <2>6, <2>10, <2>11, <3>1
  <2>13. d = x
    BY <1>2, <2>2, <2>3, <2>12, SameHeadTail
  <2> QED  BY <2>4, <2>8, <2>9, <2>11, <2>13
<1>3. Seq(Byte) \subseteq T
  <2>1. \A x \in Seq(Byte) : x # << >> /\ Tail(x) \in T => x \in T
    BY <1>2
  <2> HIDE DEF T
  <2> QED  BY <1>1, <2>1, SeqSets
<1> QED
  BY <1>3

(***************************************************************************)
(* One client's keys.                                                      *)
(***************************************************************************)
KeySafety == KeyInit /\ [][KeyNext]_<<ikey, made>>

(***************************************************************************)
(* The bytes at hand are bytes, and what they were made of is known.       *)
(***************************************************************************)
KeyKnown ==
    /\ ikey \in Seq(Byte)
    /\ \/ made = << >>
       \/ \E ukey \in Seq(Byte), seq \in Nat, kt \in Byte :
             /\ Makeable(seq, kt) /\ made = <<ukey, seq, kt>>
             /\ ikey = makeInternalKey(ukey, seq, kt)

\* The key types are bytes.
LEMMA TypesAre == keyTypeDel = 0 /\ keyTypeVal = 1 /\ 0 \in Byte /\ 1 \in Byte
  BY BaseIs DEF keyTypeDel, keyTypeVal, Byte

\* PutUint writes the low NumLen bytes of a number.
LEMMA PutUintIs ==
    ASSUME NEW num \in Nat
    PROVE  /\ PutUint(num) = Digits(NumLen, num)
           /\ PutUint(num) \in Seq(Byte) /\ Len(PutUint(num)) = NumLen
<1>1. PutUint(num) = Digits(NumLen, num)
  BY DEF PutUint, Digits
<1> QED
  BY <1>1, BaseIs, DigitsAre

(***************************************************************************)
(* Number and type fit into NumLen bytes.                                  *)
(***************************************************************************)
LEMMA PackFits ==
    ASSUME NEW seq \in Nat, NEW kt \in Byte
    PROVE  /\ pack(seq, kt) \in Nat
           /\ pack(seq, kt) \div ByteBase = seq /\ pack(seq, kt) % ByteBase = kt
           /\ Makeable(seq, kt) => pack(seq, kt) < Weight[NumLen]
<1>0. kt \in 0..(ByteBase - 1) /\ kt \in Nat /\ kt < ByteBase
  BY BaseIs DEF Byte
<1>1. PICK p \in Nat : p = ByteBase * seq /\ p = seq * ByteBase
  BY BaseIs
<1>2. pack(seq, kt) = ByteBase * seq + kt
  BY <1>1 DEF pack
<1>3. pack(seq, kt) \in Nat
  BY <1>0, <1>1, <1>2
<1>4. pack(seq, kt) \div ByteBase = seq /\ pack(seq, kt) % ByteBase = kt
  <2>1. (ByteBase * seq + kt) \div ByteBase = seq /\ (ByteBase * seq + kt) % ByteBase = kt
    BY <1>0, BaseIs, DivModIs, Zenon
  <2> QED  BY <1>2, <2>1
<1>5. ASSUME Makeable(seq, kt)
      PROVE  pack(seq, kt) < Weight[NumLen]
  <2>1. PICK n \in Nat : n = NumLen - 1 /\ n + 1 = NumLen
    BY BaseIs
  <2>2. PICK w \in Nat : w = Weight[n] /\ Weight[NumLen] = ByteBase * w
    BY <2>1, WeightIs
  <2>3. PICK s1 \in Nat : s1 = seq + 1 /\ s1 <= w
    BY <1>5, <2>1, <2>2 DEF Makeable, keyMaxSeq
  <2>4. ByteBase * s1 <= ByteBase * w /\ ByteBase * w \in Nat
    BY <2>3, BaseIs, TimesMore
  <2>5. ByteBase * s1 = p + ByteBase
    BY <1>1, <2>3, BaseIs
  <2>6. pack(seq, kt) < ByteBase * w
    BY <1>0, <1>1, <1>2, <2>4, <2>5, BaseIs
  <2> QED  BY <2>2, <2>6
<1> QED
  BY <1>3, <1>4, <1>5

(***************************************************************************)
(* What is behind a user key is taken off it.                              *)
(***************************************************************************)
LEMMA KeyParts ==
    ASSUME NEW u \in Seq(Byte), NEW t \in Seq(Byte), Len(t) = NumLen, NEW ik, ik = u \o t
    PROVE  ik \in Seq(Byte) /\ Len(ik) >= NumLen /\ ukeyOf(ik) = u /\ numOf(ik) = UintFrom[t]
<1>1. ik \in Seq(Byte) /\ Len(u) \in Nat /\ NumLen \in Nat /\ Len(ik) = Len(u) + NumLen
  BY Cat, BaseIs
<1>2. Len(ik) >= NumLen /\ Len(ik) - NumLen = Len(u)
  BY <1>1
<1>3. SubSeq(ik, 1, Len(u)) = u /\ SubSeq(ik, Len(u) + 1, Len(ik)) = t
  BY FirstAll, Behind, Zenon
<1> QED
  BY <1>1, <1>2, <1>3, Zenon DEF ukeyOf, numOf

\* The three parts of a key that makeInternalKey made are its arguments.
LEMMA MadeBack ==
    ASSUME NEW ukey \in Seq(Byte), NEW seq \in Nat, NEW kt \in Byte, Makeable(seq, kt),
           NEW ik, ik = makeInternalKey(ukey, seq, kt)
    PROVE  /\ ik \in Seq(Byte) /\ validInternalKey(ik)
           /\ ukeyOf(ik) = ukey /\ seqOf(ik) = seq /\ typeOf(ik) = kt
<1>1. PICK num \in Nat : num = pack(seq, kt)
  BY PackFits
<1>2. num < Weight[NumLen] /\ num \div ByteBase = seq /\ num % ByteBase = kt
  BY <1>1, PackFits
<1>3. PICK t \in Seq(Byte) : t = PutUint(num)
  BY PutUintIs
<1>4. Len(t) = NumLen /\ UintFrom[t] = num
  BY <1>2, <1>3, PutUintIs, BaseIs, NumberBack
<1>5. ik = ukey \o t
  BY <1>1, <1>3 DEF makeInternalKey
<1>6. ik \in Seq(Byte) /\ Len(ik) >= NumLen /\ ukeyOf(ik) = ukey /\ numOf(ik) = num
  BY <1>4, <1>5, KeyParts
<1>7. seqOf(ik) = seq /\ typeOf(ik) = kt
  BY <1>2, <1>6 DEF seqOf, typeOf
<1>8. kt <= keyTypeVal
  BY DEF Makeable
<1> QED
  BY <1>6, <1>7, <1>8 DEF validInternalKey

(***************************************************************************)
(* Valid bytes are those of a key that can be made.                        *)
(***************************************************************************)
LEMMA ValidBack ==
    ASSUME NEW ik \in Seq(Byte), validInternalKey(ik)
    PROVE  /\ Makeable(seqOf(ik), typeOf(ik))
           /\ ik = makeInternalKey(ukeyOf(ik), seqOf(ik), typeOf(ik))
<1>1. PICK j \in Nat : Len(ik) \in Nat /\ j = Len(ik) - NumLen /\ j <= Len(ik) /\ Len(ik) - j = NumLen
  BY BaseIs, LenProperties DEF validInternalKey
<1>2. PICK t : t = SubSeq(ik, j + 1, Len(ik))
  OBVIOUS
<1>3. t \in Seq(Byte) /\ Len(t) = NumLen
  <2>1. Len(ik) <= Len(ik)
    BY <1>1
  <2>2. PartOf(Byte, ik, j, Len(ik))
    BY <1>1, <2>1, Part, Zenon
  <2> QED  BY <1>1, <1>2, <2>2, Zenon DEF PartOf
<1>4. PICK num \in Nat : num = UintFrom[t] /\ numOf(ik) = num
  <2>1. numOf(ik) = UintFrom[t]
    BY <1>1, <1>2, Zenon DEF numOf
  <2>2. UintFrom[t] \in Nat
    BY <1>3, UintFromIs
  <2> QED  BY <2>1, <2>2
<1>5. num < Weight[NumLen] /\ PutUint(num) = t
  BY <1>3, <1>4, BytesBack, PutUintIs
<1>6. PICK q \in Nat, r \in Nat : q = num \div ByteBase /\ r = num % ByteBase /\ num = ByteBase * q + r /\ r < ByteBase
  BY BaseIs, DivMod
<1>7. seqOf(ik) = q /\ typeOf(ik) = r
  BY <1>4, <1>6 DEF seqOf, typeOf
<1>8. Makeable(q, r)
  <2>1. PICK n \in Nat : n = NumLen - 1 /\ n + 1 = NumLen
    BY BaseIs
  <2>2. PICK w \in Nat : w = Weight[n] /\ Weight[NumLen] = ByteBase * w
    BY <2>1, WeightIs
  <2>3. ~(q < w) => ByteBase * w <= ByteBase * q /\ ByteBase * w \in Nat /\ ByteBase * q \in Nat
    BY BaseIs, TimesMore
  <2>4. q < w
    BY <1>5, <1>6, <2>2, <2>3
  <2>5. q <= keyMaxSeq
    BY <2>1, <2>2, <2>4 DEF keyMaxSeq
  <2>6. r <= keyTypeVal
    BY <1>7 DEF validInternalKey
  <2> QED  BY <2>5, <2>6 DEF Makeable
<1>9. pack(q, r) = num
  <2>1. q * ByteBase = ByteBase * q /\ ByteBase * q \in Nat
    BY BaseIs
  <2> QED  BY <1>6, <2>1 DEF pack
<1>10. ik = ukeyOf(ik) \o t
  <2>1. SubSeq(ik, 1, j) \o SubSeq(ik, j + 1, Len(ik)) = SubSeq(ik, 1, Len(ik))
    <3>1. 1 \in 1..(Len(ik) + 1) /\ j \in (1 - 1)..Len(ik) /\ Len(ik) \in j..Len(ik)
      BY <1>1
    <3> QED  BY <3>1, ConcatAdjacentSubSeq
  <2>2. SubSeq(ik, 1, Len(ik)) = ik
    BY SubSeqFull
  <2>3. ukeyOf(ik) = SubSeq(ik, 1, j)
    BY <1>1, Zenon DEF ukeyOf
  <2> QED  BY <1>2, <2>1, <2>2, <2>3, Zenon
<1>11. makeInternalKey(ukeyOf(ik), q, r) = ukeyOf(ik) \o t
  BY <1>5, <1>9 DEF makeInternalKey
<1> QED
  BY <1>7, <1>8, <1>10, <1>11

(***************************************************************************)
(* Keys give back what they were made of, and valid bytes are keys.        *)
(***************************************************************************)
THEOREM KeysRoundTrip == KeySafety => []KeyRoundTrip
<1>1. KeyInit => KeyKnown
  BY EmptySeq DEF KeyInit, KeyKnown
<1>2. KeyKnown /\ [KeyNext]_<<ikey, made>> => KeyKnown'
  <2> SUFFICES ASSUME KeyKnown, [KeyNext]_<<ikey, made>> PROVE KeyKnown'
    OBVIOUS
  <2>1. ASSUME NEW lens \in SUBSET Nat, NEW s \in Strings(lens)
        PROVE  s \in Seq(Byte)
    <3>1. PICK n \in lens : s \in [1..n -> Byte]
      BY DEF Strings
    <3> QED  BY <3>1, SeqDef
  <2>2. ASSUME NEW ukey \in Strings(KeyLens), NEW seq \in Seqs, NEW kt \in Byte, MakeKey(ukey, seq, kt)
        PROVE  KeyKnown'
    <3>1. ukey \in Seq(Byte) /\ seq \in Nat
      BY <2>1, KeyAssumption
    <3>2. Makeable(seq, kt) /\ ikey' = makeInternalKey(ukey, seq, kt) /\ made' = <<ukey, seq, kt>>
      BY <2>2 DEF MakeKey
    <3>3. ikey' \in Seq(Byte)
      BY <3>1, <3>2, MadeBack
    <3> QED  BY <3>1, <3>2, <3>3 DEF KeyKnown
  <2>3. ASSUME NEW n \in KeyLens, NEW bytes \in Strings({n, n + NumLen}), Receive(bytes)
        PROVE  KeyKnown'
    <3>1. {n, n + NumLen} \in SUBSET Nat
      BY KeyAssumption
    <3>2. bytes \in Seq(Byte)
      BY <2>1, <3>1
    <3> QED  BY <2>3, <3>2 DEF Receive, KeyKnown
  <2>4. CASE UNCHANGED <<ikey, made>>
    BY <2>4 DEF KeyKnown
  <2> QED  BY <2>2, <2>3, <2>4 DEF KeyNext
<1>3. KeyKnown => KeyRoundTrip
  <2> SUFFICES ASSUME KeyKnown PROVE KeyRoundTrip
    OBVIOUS
  <2>1. ASSUME made # << >>
        PROVE  validInternalKey(ikey) /\ <<ukeyOf(ikey), seqOf(ikey), typeOf(ikey)>> = made
    BY <2>1, MadeBack DEF KeyKnown
  <2>2. ASSUME validInternalKey(ikey)
        PROVE  /\ Makeable(seqOf(ikey), typeOf(ikey))
               /\ ikey = makeInternalKey(ukeyOf(ikey), seqOf(ikey), typeOf(ikey))
    BY <2>2, ValidBack DEF KeyKnown
  <2> QED  BY <2>1, <2>2 DEF KeyRoundTrip
<1> QED
  BY <1>1, <1>2, <1>3, PTL DEF KeySafety

-----------------------------------------------------------------------------
(* Lengths *)

\* What BatchAssumption says of a varint's base.
LEMMA VarBaseIs == /\ VarBase \in Nat \ {0} /\ VarBase >= 2 /\ ByteBase = VarBase + VarBase
                   /\ VarBase \in Nat
<1>1. ByteBase \in Nat /\ ByteBase >= 4 /\ ByteBase % 2 = 0
  BY BaseIs, BatchAssumption
<1> QED
  BY <1>1 DEF VarBase

\* A number and its digits: the low one is marked, and the rest is smaller.
LEMMA VarDigit ==
    ASSUME NEW x \in Nat
    PROVE  /\ x < VarBase => <<x>> \in Seq(Byte)
           /\ x % VarBase \in Nat /\ x % VarBase < VarBase
           /\ (x % VarBase) + VarBase \in Byte /\ <<(x % VarBase) + VarBase>> \in Seq(Byte)
           /\ x \div VarBase \in Nat
           /\ x = VarBase * (x \div VarBase) + (x % VarBase)
           /\ ~(x < VarBase) => x \div VarBase < x
<1>1. PICK q \in Nat, r \in Nat : q = x \div VarBase /\ r = x % VarBase /\ r < VarBase
                                  /\ x = VarBase * q + r
  BY VarBaseIs, DivMod
<1>2. r + VarBase \in Byte /\ (x < VarBase => x \in Byte)
  BY <1>1, VarBaseIs, BaseIs DEF Byte
<1>3. ~(x < VarBase) => q < x
  <2>1. VarBase * q >= q + q /\ VarBase * q \in Nat
    <3>1. q * 2 <= q * VarBase /\ q * VarBase = VarBase * q /\ q * 2 = q + q /\ q * VarBase \in Nat
      BY VarBaseIs, TimesMore
    <3> QED  BY <3>1
  <2> QED  BY <1>1, <2>1, VarBaseIs
<1> QED
  BY <1>1, <1>2, <1>3

(***************************************************************************)
(* uvarint is what its definition says it is.                              *)
(***************************************************************************)
LEMMA uvarintIs ==
    /\ uvarint \in [Nat -> Seq(Byte)]
    /\ \A x \in Nat : uvarint[x] = IF x < VarBase THEN <<x>>
                                   ELSE <<(x % VarBase) + VarBase>> \o uvarint[x \div VarBase]
<1> DEFINE V == Seq(Byte)
           Stop == {x \in Nat : x < VarBase}
           base == [x \in Nat |-> IF x < VarBase THEN <<x>> ELSE << >>]
           p == [x \in Nat |-> x \div VarBase]
           F == [y \in Nat \X V |-> <<(y[1] % VarBase) + VarBase>> \o y[2]]
           m == [x \in Nat |-> x]
<1>1. base \in [Nat -> V] /\ m \in [Nat -> Nat]
  BY VarDigit, EmptySeq
<1>2. F \in [Nat \X V -> V]
  <2> SUFFICES ASSUME NEW x \in Nat, NEW v \in V PROVE <<(x % VarBase) + VarBase>> \o v \in V
    OBVIOUS
  <2> QED  BY VarDigit, ConcatProperties
<1>3. \A x \in Nat : x \notin Stop => p[x] \in Nat /\ m[p[x]] < m[x]
  BY VarDigit
<1>4. PICK f \in [Nat -> V] : \A x \in Nat : Meets(f, x, Stop, base, p, F)
  <2> HIDE DEF base, p, F, m, V, Stop
  <2> QED  BY <1>1, <1>2, <1>3, Recursion, Zenon
<1>5. ASSUME NEW x \in Nat
      PROVE  f[x] = IF x < VarBase THEN <<x>> ELSE <<(x % VarBase) + VarBase>> \o f[x \div VarBase]
  <2>1. CASE x < VarBase
    BY <1>4, <2>1 DEF Meets
  <2>2. CASE ~(x < VarBase)
    <3>1. <<x, f[x \div VarBase]>> \in Nat \X V
      BY VarDigit
    <3>2. F[<<x, f[x \div VarBase]>>] = <<(x % VarBase) + VarBase>> \o f[x \div VarBase]
      BY <3>1
    <3>3. f[x] = F[<<x, f[x \div VarBase]>>]
      BY <1>4, <2>2 DEF Meets
    <3> QED  BY <2>2, <3>2, <3>3
  <2> QED  BY <2>1, <2>2
<1>6. f = [x \in Nat |-> IF x < VarBase THEN <<x>> ELSE <<(x % VarBase) + VarBase>> \o f[x \div VarBase]]
  BY <1>5
<1>7. uvarint = [x \in Nat |-> IF x < VarBase THEN <<x>>
                               ELSE <<(x % VarBase) + VarBase>> \o uvarint[x \div VarBase]]
  BY <1>6, Zenon DEF uvarint
<1>8. \A x \in Nat : uvarint[x] = IF x < VarBase THEN <<x>>
                                  ELSE <<(x % VarBase) + VarBase>> \o uvarint[x \div VarBase]
  BY <1>7, Zenon
<1>9. \A x \in Nat : uvarint[x] \in Seq(Byte)
  <2> DEFINE T == {x \in Nat : uvarint[x] \in Seq(Byte)}
  <2>1. ASSUME NEW x \in Nat, \A y \in Nat : m[y] < m[x] => y \in T
        PROVE  x \in T
    <3>1. CASE x < VarBase
      BY <1>8, <3>1, VarDigit
    <3>2. CASE ~(x < VarBase)
      <4>1. x \div VarBase \in Nat /\ x \div VarBase < x
        BY <3>2, VarDigit
      <4>2. uvarint[x \div VarBase] \in Seq(Byte)
        BY <2>1, <4>1
      <4>3. <<(x % VarBase) + VarBase>> \o uvarint[x \div VarBase] \in Seq(Byte)
        BY <4>2, VarDigit, ConcatProperties
      <4> QED  BY <1>8, <3>2, <4>3
    <3> QED  BY <3>1, <3>2
  <2>2. Nat \subseteq T
    <3> HIDE DEF T, m
    <3> QED  BY <1>1, <2>1, MeasureInduction
  <2> QED  BY <2>2
<1>10. uvarint \in [Nat -> Seq(Byte)]
  <2>1. uvarint = [x \in Nat |-> uvarint[x]]
    BY <1>7, Zenon
  <2> QED  BY <1>9, <2>1, Zenon
<1> QED
  BY <1>8, <1>10

\* what Uvarint makes of the first digit of s and of r, the rest
VarMore(s, r) == IF r.n = 0 THEN r
                 ELSE [n |-> r.n + 1, x |-> (Head(s) % VarBase) + VarBase * r.x]

VarRead == [n: Nat, x: Nat]

\* A varint read on by one byte is a varint read.
LEMMA VarMoreIs ==
    ASSUME NEW s \in Seq(Byte), s # << >>, NEW r \in VarRead
    PROVE  VarMore(s, r) \in VarRead
<1>1. Head(s) \in Nat
  BY HeadTailProperties, BaseIs DEF Byte
<1>2. Head(s) % VarBase \in Nat
  BY <1>1, VarDigit
<1>3. VarBase * r.x \in Nat
  BY VarBaseIs DEF VarRead
<1> QED
  BY <1>2, <1>3 DEF VarMore, VarRead

(***************************************************************************)
(* And so is Uvarint.                                                      *)
(***************************************************************************)
LEMMA UvarintIs ==
    /\ \A s \in Seq(Byte) : Uvarint[s] \in VarRead
    /\ \A s \in Seq(Byte) : Uvarint[s] = IF s = << >> THEN [n |-> 0, x |-> 0]
                                         ELSE IF Head(s) < VarBase THEN [n |-> 1, x |-> Head(s)]
                                         ELSE VarMore(s, Uvarint[Tail(s)])
<1> DEFINE S == Seq(Byte)
           Stop == {s \in S : s = << >> \/ Head(s) < VarBase}
           base == [s \in S |-> IF s = << >> \/ ~(Head(s) < VarBase) THEN [n |-> 0, x |-> 0]
                                ELSE [n |-> 1, x |-> Head(s)]]
           p == [s \in S |-> Tail(s)]
           F == [y \in S \X VarRead |-> IF y[1] = << >> THEN y[2] ELSE VarMore(y[1], y[2])]
           m == [s \in S |-> Len(s)]
<1>0. \A s \in S : s # << >> => Head(s) \in Nat /\ Tail(s) \in S /\ Len(Tail(s)) = Len(s) - 1
  BY HeadTailProperties, BaseIs DEF Byte
<1>1. base \in [S -> VarRead] /\ m \in [S -> Nat]
  BY <1>0, LenProperties DEF VarRead
<1>2. F \in [S \X VarRead -> VarRead]
  BY VarMoreIs
<1>3. \A s \in S : s \notin Stop => p[s] \in S /\ m[p[s]] < m[s]
  BY <1>0, LenProperties
<1>4. PICK f \in [S -> VarRead] : \A s \in S : Meets(f, s, Stop, base, p, F)
  <2> HIDE DEF base, p, F, m, S, Stop
  <2> QED  BY <1>1, <1>2, <1>3, Recursion, Zenon
<1> DEFINE eq(g, s) == IF s = << >> THEN [n |-> 0, x |-> 0]
                       ELSE IF Head(s) < VarBase THEN [n |-> 1, x |-> Head(s)]
                       ELSE VarMore(s, g[Tail(s)])
<1>5. ASSUME NEW s \in S
      PROVE  f[s] = eq(f, s)
  <2>1. CASE s \in Stop
    <3>1. f[s] = base[s]
      BY <1>4, <2>1, Zenon DEF Meets
    <3> QED  BY <2>1, <3>1
  <2>2. CASE s \notin Stop
    <3>1. <<s, f[Tail(s)]>> \in S \X VarRead
      BY <1>0, <2>2
    <3>2. F[<<s, f[Tail(s)]>>] = VarMore(s, f[Tail(s)])
      BY <2>2, <3>1
    <3>3. f[s] = F[<<s, f[Tail(s)]>>]
      BY <1>4, <2>2 DEF Meets
    <3> QED  BY <2>2, <3>2, <3>3
  <2> QED  BY <2>1, <2>2
<1>6. f = [s \in Seq(Byte) |-> eq(f, s)]
  <2> HIDE DEF eq
  <2> QED  BY <1>5
<1>7. Uvarint = [s \in Seq(Byte) |-> eq(Uvarint, s)]
  BY <1>6, Zenon DEF Uvarint, VarMore
<1>8. \A s \in S : Uvarint[s] = eq(Uvarint, s)
  <2> HIDE DEF eq
  <2> QED  BY <1>7, Zenon
<1>9. \A s \in S : Uvarint[s] \in VarRead
  <2> DEFINE T == {s \in S : Uvarint[s] \in VarRead}
  <2>1. << >> \in T
    <3>1. << >> \in S /\ [n |-> 0, x |-> 0] \in VarRead
      BY EmptySeq DEF VarRead
    <3>2. Uvarint[<< >>] = [n |-> 0, x |-> 0]
      BY <1>8, <3>1, Zenon
    <3> QED  BY <3>1, <3>2
  <2>2. ASSUME NEW s \in S, s # << >>, Tail(s) \in T
        PROVE  s \in T
    <3>1. CASE Head(s) < VarBase
      <4>1. Uvarint[s] = [n |-> 1, x |-> Head(s)]
        BY <1>8, <2>2, <3>1, Zenon
      <4>2. Head(s) \in Nat
        BY <1>0, <2>2
      <4> QED  BY <4>1, <4>2 DEF VarRead
    <3>2. CASE ~(Head(s) < VarBase)
      <4>1. Uvarint[s] = VarMore(s, Uvarint[Tail(s)])
        BY <1>8, <2>2, <3>2, Zenon
      <4>2. Uvarint[Tail(s)] \in VarRead
        BY <2>2
      <4>3. VarMore(s, Uvarint[Tail(s)]) \in VarRead
        BY <2>2, <4>2, VarMoreIs
      <4> QED  BY <4>1, <4>3
    <3> QED  BY <3>1, <3>2
  <2>3. S \subseteq T
    <3> HIDE DEF T
    <3> QED  BY <2>1, <2>2, SeqSets
  <2> QED  BY <2>3
<1> QED
  BY <1>8, <1>9

(***************************************************************************)
(* The first element of <<a>> \o s, and the others.                        *)
(***************************************************************************)
LEMMA OneThen ==
    ASSUME NEW S, NEW a \in S, NEW s \in Seq(S), NEW u, u = <<a>> \o s
    PROVE  u \in Seq(S) /\ u # << >> /\ Head(u) = a /\ Tail(u) = s /\ Len(u) = Len(s) + 1
<1>0. <<a>> \in Seq(S) /\ Len(<<a>>) = 1 /\ <<a>>[1] = a
  OBVIOUS
<1>1. Joined(S, u, <<a>>, s)
  BY <1>0, JoinedCat, Zenon
<1>2. u \in Seq(S) /\ Len(u) = Len(s) + 1 /\ Len(s) \in Nat /\ u[1] = a
      /\ \A i \in 1..Len(s) : u[1 + i] = s[i]
  BY <1>0, <1>1 DEF Joined
<1>3. u # << >>
  BY <1>2, EmptySeq
<1>4. Head(u) = a
  <2>1. Head(u) = u[1]
    BY <1>2, <1>3
  <2> QED  BY <1>2, <2>1
<1>5. PICK t : t = Tail(u)
  OBVIOUS
<1>6. t \in Seq(S) /\ Len(t) = Len(u) - 1 /\ \A i \in 1..Len(t) : t[i] = u[i + 1]
  BY <1>2, <1>3, <1>5, HeadTailProperties, Zenon
<1>7. Len(t) = Len(s) /\ \A i \in 1..Len(t) : t[i] = s[i]
  <2>1. Len(t) = Len(s)
    BY <1>2, <1>6
  <2>2. ASSUME NEW i \in 1..Len(t) PROVE t[i] = s[i]
    <3>1. i + 1 = 1 + i
      OBVIOUS
    <3> QED  BY <1>2, <1>6, <2>1, <3>1
  <2> QED  BY <2>1, <2>2
<1>8. t = s
  BY <1>6, <1>7, SeqEqual
<1> QED
  BY <1>2, <1>3, <1>4, <1>5, <1>8

(***************************************************************************)
(* A number is read back, whatever follows it.                             *)
(***************************************************************************)
LEMMA VarBack ==
    ASSUME NEW x \in Nat, NEW t \in Seq(Byte), NEW s, s = uvarint[x] \o t
    PROVE  Uvarint[s] = [n |-> Len(uvarint[x]), x |-> x]
<1> DEFINE T == {y \in Nat : /\ Len(uvarint[y]) >= 1
                             /\ Uvarint[uvarint[y] \o t] = [n |-> Len(uvarint[y]), x |-> y]}
<1>2. ASSUME NEW y \in Nat, \A z \in Nat : z < y => z \in T
      PROVE  y \in T
  <2>1. CASE y < VarBase
    <3>0. y \in Byte /\ Len(<<y>>) = 1 /\ 1 >= 1
      BY <2>1, VarBaseIs DEF Byte
    <3>1. uvarint[y] = <<y>>
      BY <2>1, uvarintIs, Zenon
    <3>2. PICK u : u = <<y>> \o t
      OBVIOUS
    <3>3. u \in Seq(Byte) /\ u # << >> /\ Head(u) = y
      BY <3>0, <3>2, OneThen
    <3>4. Uvarint[u] = [n |-> 1, x |-> y]
      BY <2>1, <3>3, UvarintIs, Zenon
    <3>5. Uvarint[uvarint[y] \o t] = [n |-> Len(uvarint[y]), x |-> y]
      BY <3>0, <3>1, <3>2, <3>4, Zenon
    <3>6. Len(uvarint[y]) >= 1
      BY <3>0, <3>1, Zenon
    <3> QED  BY <3>5, <3>6, Zenon
  <2>2. CASE ~(y < VarBase)
    <3>1. PICK q \in Nat, r \in Nat : q = y \div VarBase /\ r = y % VarBase
      BY VarDigit
    <3>2. /\ r < VarBase /\ r + VarBase \in Byte /\ <<r + VarBase>> \in Seq(Byte)
          /\ y = VarBase * q + r /\ q < y
      BY <2>2, <3>1, VarDigit
    <3>3. PICK v \in Seq(Byte) : v = uvarint[q]
      BY uvarintIs
    <3>4. Len(v) >= 1 /\ Uvarint[v \o t] = [n |-> Len(v), x |-> q]
      BY <1>2, <3>2, <3>3
    <3>5. uvarint[y] = <<r + VarBase>> \o v
      BY <2>2, <3>1, <3>3, uvarintIs
    <3>6. PICK w \in Seq(Byte) : w = v \o t
      BY ConcatProperties
    <3>7. PICK u : u = <<r + VarBase>> \o w
      OBVIOUS
    <3>8. u \in Seq(Byte) /\ u # << >> /\ Head(u) = r + VarBase /\ Tail(u) = w
      BY <3>2, <3>7, OneThen
    <3>9. u = uvarint[y] \o t
      <4>1. (<<r + VarBase>> \o v) \o t = <<r + VarBase>> \o (v \o t)
        BY <3>2, ConcatAssociative
      <4> QED  BY <3>5, <3>6, <3>7, <4>1, Zenon
    <3>10. ~(Head(u) < VarBase)
      BY <3>8, VarBaseIs
    <3>11. Uvarint[u] = VarMore(u, Uvarint[w])
      BY <3>8, <3>10, UvarintIs, Zenon
    <3>12. PICK k \in Nat : k = Len(v) /\ k >= 1
      BY <3>4, LenProperties
    <3>13. Uvarint[w] = [n |-> k, x |-> q]
      BY <3>4, <3>6, <3>12, Zenon
    <3>14. (r + VarBase) % VarBase = r
      <4>1. r \in 0..(VarBase - 1) /\ 1 \in Nat /\ VarBase * 1 + r = r + VarBase
        BY <3>2, VarBaseIs
      <4>2. (VarBase * 1 + r) % VarBase = r
        BY <4>1, VarBaseIs, DivModIs
      <4> QED  BY <4>1, <4>2
    <3>15. VarMore(u, [n |-> k, x |-> q]) = [n |-> k + 1, x |-> y]
      <4>1. r + VarBase * q = y
        <5>1. VarBase * q \in Nat
          BY VarBaseIs
        <5> QED  BY <3>2, <5>1
      <4>2. VarMore(u, [n |-> k, x |-> q]) = [n |-> k + 1, x |-> (Head(u) % VarBase) + VarBase * q]
        BY <3>12 DEF VarMore
      <4>3. (Head(u) % VarBase) + VarBase * q = y
        BY <3>8, <3>14, <4>1
      <4> QED  BY <4>2, <4>3
    <3>16. Len(uvarint[y]) = k + 1
      BY <3>2, <3>5, <3>12, OneThen
    <3>17. Uvarint[u] = [n |-> Len(uvarint[y]), x |-> y]
      BY <3>11, <3>13, <3>15, <3>16
    <3>18. Len(uvarint[y]) >= 1
      BY <3>16
    <3> QED  BY <3>9, <3>17, <3>18
  <2> QED  BY <2>1, <2>2
<1>3. Nat \subseteq T
  <2> HIDE DEF T
  <2> QED  BY <1>2, NatStrong
<1>4. Uvarint[uvarint[x] \o t] = [n |-> Len(uvarint[x]), x |-> x]
  BY <1>3, Zenon
<1> QED
  BY <1>4, Zenon

\* A length has a digit.
LEMMA VarLen ==
    ASSUME NEW x \in Nat
    PROVE  uvarint[x] \in Seq(Byte) /\ Len(uvarint[x]) \in Nat /\ Len(uvarint[x]) >= 1
<1>1. uvarint[x] \in Seq(Byte)
  BY uvarintIs
<1>2. CASE x < VarBase
  <2>1. uvarint[x] = <<x>>
    BY <1>2, uvarintIs, Zenon
  <2>2. Len(<<x>>) = 1
    OBVIOUS
  <2>3. Len(uvarint[x]) = 1
    BY <2>1, <2>2, Zenon
  <2> QED  BY <1>1, <2>3
<1>3. CASE ~(x < VarBase)
  <2>1. PICK a \in Byte, v \in Seq(Byte) : uvarint[x] = <<a>> \o v
    <3>1. uvarint[x] = <<(x % VarBase) + VarBase>> \o uvarint[x \div VarBase]
      BY <1>3, uvarintIs, Zenon
    <3>2. (x % VarBase) + VarBase \in Byte /\ uvarint[x \div VarBase] \in Seq(Byte)
      BY VarDigit, uvarintIs
    <3> QED  BY <3>1, <3>2, Zenon
  <2>2. Len(uvarint[x]) = Len(v) + 1 /\ Len(v) \in Nat
    BY <2>1, OneThen, LenProperties
  <2> QED  BY <1>1, <2>2
<1> QED
  BY <1>2, <1>3

(***************************************************************************)
(* A number that is cut off is not read.                                   *)
(***************************************************************************)
LEMMA VarTorn ==
    ASSUME NEW x \in Nat, NEW k \in Nat, k < Len(uvarint[x])
    PROVE  Uvarint[SubSeq(uvarint[x], 1, k)] = [n |-> 0, x |-> 0]
<1> DEFINE none == [n |-> 0, x |-> 0]
           T == {y \in Nat : \A c \in Nat : c < Len(uvarint[y]) =>
                                Uvarint[SubSeq(uvarint[y], 1, c)] = none}
<1>0. Uvarint[<< >>] = none
  BY UvarintIs, EmptySeq, Zenon
<1>1. ASSUME NEW y \in Nat, \A z \in Nat : z < y => z \in T, NEW c \in Nat, c < Len(uvarint[y])
      PROVE  Uvarint[SubSeq(uvarint[y], 1, c)] = none
  <2>1. CASE c = 0
    <3>1. SubSeq(uvarint[y], 1, 0) = << >>
      BY SubSeqEmpty
    <3> QED  BY <1>0, <2>1, <3>1, Zenon
  <2>2. CASE c # 0
    <3>1. ~(y < VarBase)
      <4> SUFFICES ASSUME y < VarBase PROVE FALSE
        OBVIOUS
      <4>1. uvarint[y] = <<y>>
        BY uvarintIs, Zenon
      <4>2. Len(<<y>>) = 1
        OBVIOUS
      <4>3. Len(uvarint[y]) = 1
        BY <4>1, <4>2, Zenon
      <4> QED  BY <1>1, <2>2, <4>3
    <3>2. PICK a \in Byte, q \in Nat, v \in Seq(Byte) :
             a >= VarBase /\ q < y /\ v = uvarint[q] /\ uvarint[y] = <<a>> \o v
      <4>1. uvarint[y] = <<(y % VarBase) + VarBase>> \o uvarint[y \div VarBase]
        BY <3>1, uvarintIs, Zenon
      <4>2. /\ (y % VarBase) + VarBase \in Byte /\ (y % VarBase) + VarBase >= VarBase
            /\ y \div VarBase \in Nat /\ y \div VarBase < y
        <5>1. PICK r \in Nat : r = y % VarBase
          BY VarDigit
        <5>2. r + VarBase >= VarBase
          BY VarBaseIs
        <5>3. (y % VarBase) + VarBase \in Byte /\ y \div VarBase \in Nat /\ y \div VarBase < y
          BY <3>1, VarDigit
        <5> QED  BY <5>1, <5>2, <5>3
      <4>3. uvarint[y \div VarBase] \in Seq(Byte)
        BY <4>2, uvarintIs
      <4> QED  BY <4>1, <4>2, <4>3, Zenon
    <3>3. PICK j \in Nat : c = 1 + j /\ j < Len(v)
      <4>1. Len(uvarint[y]) = Len(v) + 1 /\ Len(v) \in Nat
        BY <3>2, OneThen, LenProperties
      <4>2. c - 1 \in Nat /\ c = 1 + (c - 1) /\ c - 1 < Len(v)
        BY <1>1, <2>2, <4>1
      <4> QED  BY <4>2
    <3>4. PICK f : f = SubSeq(v, 1, j)
      OBVIOUS
    <3>5. f \in Seq(Byte) /\ Uvarint[f] = none
      <4>1. j \in 0..Len(v) /\ j < Len(uvarint[q])
        BY <3>2, <3>3, LenProperties
      <4>2. Uvarint[SubSeq(uvarint[q], 1, j)] = none
        BY <1>1, <3>2, <4>1
      <4>3. f \in Seq(Byte)
        BY <3>4, <4>1, First
      <4> QED  BY <3>2, <3>4, <4>2, <4>3, Zenon
    <3>6. SubSeq(uvarint[y], 1, c) = <<a>> \o f
      <4>1. <<a>> \in Seq(Byte) /\ Len(<<a>>) = 1 /\ j \in 0..Len(v)
        BY <3>3, LenProperties
      <4>2. SubSeq(<<a>> \o v, 1, Len(<<a>>) + j) = <<a>> \o SubSeq(v, 1, j)
        BY <4>1, FirstBeyond
      <4> QED  BY <3>2, <3>3, <3>4, <4>1, <4>2, Zenon
    <3>7. PICK s : s = <<a>> \o f
      OBVIOUS
    <3>8. s \in Seq(Byte) /\ s # << >> /\ Head(s) = a /\ Tail(s) = f
      BY <3>5, <3>7, OneThen
    <3>9. ~(Head(s) < VarBase)
      BY <3>2, <3>8, VarBaseIs, BaseIs DEF Byte
    <3>10. Uvarint[s] = VarMore(s, none)
      BY <3>5, <3>8, <3>9, UvarintIs, Zenon
    <3>11. VarMore(s, none) = none
      BY DEF VarMore
    <3> QED  BY <3>6, <3>7, <3>10, <3>11, Zenon
  <2> QED  BY <2>1, <2>2
<1>2. Nat \subseteq T
  <2>1. \A y \in Nat : (\A z \in Nat : z < y => z \in T) => y \in T
    BY <1>1
  <2> HIDE DEF T
  <2> QED  BY <2>1, NatStrong
<1> QED
  BY <1>2

-----------------------------------------------------------------------------
(* Records *)

\* what a record at o is encoded as, and the entry that describes it
Op == {r \in Byte \X Seq(Byte) \X Seq(Byte) :
          r[1] <= keyTypeVal /\ (r[1] = keyTypeDel => r[3] = << >>)}
Entry == [keyType: Nat, keyPos: Nat, keyLen: Nat, valuePos: Nat, valueLen: Nat]

\* the bytes of d from offset o on
LEMMA SuffixAt ==
    ASSUME NEW p \in Seq(Byte), NEW w \in Seq(Byte), NEW d, d = p \o w, NEW o, o = Len(p)
    PROVE  SubSeq(d, o + 1, Len(d)) = w /\ d \in Seq(Byte) /\ Len(d) = o + Len(w) /\ o \in Nat /\ Len(w) \in Nat
<1>1. SubSeq(p \o w, Len(p) + 1, Len(p \o w)) = w
  BY Behind
<1>2. SubSeq(d, o + 1, Len(d)) = w
  BY <1>1, Zenon
<1>3. d \in Seq(Byte) /\ Len(d) = o + Len(w) /\ o \in Nat /\ Len(w) \in Nat
  BY Cat
<1> QED
  BY <1>2, <1>3

\* s is at offset o of d, which has p before it and w behind it.
IsAt(d, o, p, s, w) == Slice(d, o, Len(s)) = s /\ o + Len(s) <= Len(d)

\* In p \o s \o w, s is at the offset Len(p).
LEMMA MiddleAt ==
    ASSUME NEW p \in Seq(Byte), NEW s \in Seq(Byte), NEW w \in Seq(Byte),
           NEW d, d = p \o (s \o w), NEW o, o = Len(p)
    PROVE  IsAt(d, o, p, s, w)
<1>1. PICK v : v = s \o w
  OBVIOUS
<1>2. Joined(Byte, v, s, w)
  BY <1>1, JoinedCat, Zenon
<1>3. v \in Seq(Byte) /\ d = p \o v
  BY <1>1, <1>2 DEF Joined
<1>4. Joined(Byte, d, p, v)
  BY <1>3, JoinedCat, Zenon
<1>5. PICK k \in Nat : k = o + Len(s)
  BY <1>2, <1>4 DEF Joined
<1>6. d \in Seq(Byte) /\ o \in Nat /\ o <= k /\ k <= Len(d) /\ k - o = Len(s) /\ Len(s) \in Nat
  BY <1>2, <1>4, <1>5 DEF Joined
<1>7. PICK a : a = SubSeq(d, o + 1, k)
  OBVIOUS
<1>8. a \in Seq(Byte) /\ Len(a) = Len(s) /\ \A i \in 1..Len(s) : a[i] = d[o + i]
  <2>1. PartOf(Byte, d, o, k)
    BY <1>6, Part, Zenon
  <2> QED  BY <1>6, <1>7, <2>1, Zenon DEF PartOf
<1>9. ASSUME NEW i \in 1..Len(s)
      PROVE  a[i] = s[i]
  <2>1. i \in 1..Len(v)
    BY <1>2 DEF Joined
  <2>2. d[o + i] = v[i]
    BY <1>4, <2>1 DEF Joined
  <2>3. v[i] = s[i]
    BY <1>2 DEF Joined
  <2> QED  BY <1>8, <2>2, <2>3
<1>10. a = s
  BY <1>8, <1>9, SeqEqual
<1>11. Slice(d, o, Len(s)) = s
  BY <1>5, <1>7, <1>10, Zenon DEF Slice
<1> QED
  BY <1>5, <1>6, <1>11, Zenon DEF IsAt

(***************************************************************************)
(* A record at offset o of d begins with its type; p is what is before w,  *)
(* and ku is read from w.                                                  *)
(***************************************************************************)
AtRec(d, o, p, kt, w, ku) ==
    /\ d \in Seq(Byte) /\ o \in Nat /\ Len(w) \in Nat /\ Len(d) = o + 1 + Len(w)
    /\ d[o + 1] = kt
    /\ d = p \o w /\ p \in Seq(Byte) /\ Len(p) = o + 1
    /\ decodeRec(d, o) = decodeKey(d, o, ku, o + 1 + ku.n + ku.x)

\* A type byte and what is behind it are at the offset Len(pre).
LEMMA RecAt ==
    ASSUME NEW pre \in Seq(Byte), NEW kt \in Byte, NEW w \in Seq(Byte),
           NEW d, d = pre \o (<<kt>> \o w), NEW o, o = Len(pre), NEW p, p = pre \o <<kt>>,
           NEW ku, ku = Uvarint[w]
    PROVE  AtRec(d, o, p, kt, w, ku)
<1>1. <<kt>> \in Seq(Byte) /\ Len(<<kt>>) = 1 /\ <<kt>>[1] = kt
  OBVIOUS
<1>3. Joined(Byte, p, pre, <<kt>>)
  BY <1>1, JoinedCat, Zenon
<1>4. p \in Seq(Byte) /\ o \in Nat /\ Len(p) = o + 1 /\ p[o + 1] = kt
  BY <1>1, <1>3 DEF Joined
<1>5. d = p \o w
  <2>1. (pre \o <<kt>>) \o w = pre \o (<<kt>> \o w)
    BY <1>1, ConcatAssociative
  <2> QED  BY <2>1, Zenon
<1>6. Joined(Byte, d, p, w)
  BY <1>4, <1>5, JoinedCat, Zenon
<1>7. d \in Seq(Byte) /\ Len(w) \in Nat /\ Len(d) = o + 1 + Len(w) /\ d[o + 1] = kt
  BY <1>4, <1>6 DEF Joined
<1>8. SubSeq(d, o + 2, Len(d)) = w
  <2>1. SubSeq(d, Len(p) + 1, Len(d)) = w
    BY <1>4, <1>5, SuffixAt
  <2>2. Len(p) + 1 = o + 2
    BY <1>4
  <2> QED  BY <2>1, <2>2, Zenon
<1>9. decodeRec(d, o) = decodeKey(d, o, ku, o + 1 + ku.n + ku.x)
  BY <1>8, Zenon DEF decodeRec
<1> QED
  BY <1>4, <1>5, <1>7, <1>9, Zenon DEF AtRec

\* The length of the key is cut off.
LEMMA NoKeyLen ==
    ASSUME NEW pre \in Seq(Byte), NEW kt \in Byte, NEW w \in Seq(Byte),
           Uvarint[w] = [n |-> 0, x |-> 0], NEW d, d = pre \o (<<kt>> \o w)
    PROVE  decodeRec(d, Len(pre)) = Bad
<1>1. PICK o, p, ku : o = Len(pre) /\ p = pre \o <<kt>> /\ ku = Uvarint[w]
  OBVIOUS
<1>2. AtRec(d, o, p, kt, w, ku)
  BY <1>1, RecAt, Zenon
<1>3. ~Fits(ku, o + 1, d)
  BY <1>1 DEF Fits
<1>4. decodeKey(d, o, ku, o + 1 + ku.n + ku.x) = Bad
  BY <1>3, Zenon DEF decodeKey
<1> QED
  BY <1>1, <1>2, <1>4, Zenon DEF AtRec

\* x is read from s, where w follows it.
LEMMA ReadAt ==
    ASSUME NEW x \in Nat, NEW w \in Seq(Byte), NEW s, s = uvarint[x] \o w
    PROVE  /\ Uvarint[s] = [n |-> Len(uvarint[x]), x |-> x]
           /\ s \in Seq(Byte) /\ Len(s) = Len(uvarint[x]) + Len(w)
           /\ Len(uvarint[x]) \in Nat /\ Len(uvarint[x]) >= 1 /\ Len(w) \in Nat
<1>1. Uvarint[s] = [n |-> Len(uvarint[x]), x |-> x]
  BY VarBack, Zenon
<1>2. PICK u \in Seq(Byte) : u = uvarint[x] /\ Len(u) \in Nat /\ Len(u) >= 1
  BY VarLen
<1>3. s \in Seq(Byte) /\ Len(s) = Len(u) + Len(w) /\ Len(w) \in Nat
  BY <1>2, Cat
<1> QED
  BY <1>1, <1>2, <1>3, Zenon

\* The record behind pre, with a key of which w is left, is bad.
BadKey(d, pre, kt, key, w, v) == decodeRec(d, Len(pre)) = Bad

\* The key is cut off.
LEMMA NoKey ==
    ASSUME NEW pre \in Seq(Byte), NEW kt \in Byte, NEW key \in Seq(Byte), NEW w \in Seq(Byte),
           Len(w) < Len(key), NEW v, v = uvarint[Len(key)] \o w, NEW d, d = pre \o (<<kt>> \o v)
    PROVE  BadKey(d, pre, kt, key, w, v)
<1>0. PICK x \in Nat : x = Len(key)
  BY LenProperties
<1>1. PICK n \in Nat : n = Len(uvarint[x])
  BY VarLen
<1>2. /\ Uvarint[v] = [n |-> n, x |-> x]
      /\ v \in Seq(Byte) /\ Len(v) = n + Len(w) /\ n >= 1 /\ Len(w) \in Nat
  BY <1>0, <1>1, ReadAt, Zenon
<1>3. PICK o, p, ku : o = Len(pre) /\ p = pre \o <<kt>> /\ ku = Uvarint[v]
  OBVIOUS
<1>4. AtRec(d, o, p, kt, v, ku)
  BY <1>2, <1>3, RecAt, Zenon
<1>5. ~Fits(ku, o + 1, d)
  <2>1. ku.n = n /\ ku.x = x
    BY <1>2, <1>3
  <2>2. o \in Nat /\ Len(d) = o + 1 + Len(v)
    BY <1>4 DEF AtRec
  <2> QED  BY <1>0, <1>2, <2>1, <2>2 DEF Fits
<1>6. decodeKey(d, o, ku, o + 1 + ku.n + ku.x) = Bad
  BY <1>5, Zenon DEF decodeKey
<1> QED
  BY <1>3, <1>4, <1>6, Zenon DEF AtRec, BadKey

\* d has p, then s, then w; q is p and s.
Moved(d, p, s, w, q) ==
    /\ d \in Seq(Byte) /\ q \in Seq(Byte) /\ d = q \o w
    /\ Len(p) \in Nat /\ Len(s) \in Nat /\ Len(w) \in Nat
    /\ Len(q) = Len(p) + Len(s) /\ Len(d) = Len(q) + Len(w)
    /\ Slice(d, Len(p), Len(s)) = s
    /\ SubSeq(d, Len(q) + 1, Len(d)) = w

\* p \o s is what is before w.
LEMMA MovedCat ==
    ASSUME NEW p \in Seq(Byte), NEW s \in Seq(Byte), NEW w \in Seq(Byte),
           NEW d, d = p \o (s \o w), NEW q, q = p \o s
    PROVE  Moved(d, p, s, w, q)
<1>1. Joined(Byte, q, p, s)
  BY JoinedCat, Zenon
<1>2. q \in Seq(Byte) /\ Len(q) = Len(p) + Len(s) /\ Len(p) \in Nat /\ Len(s) \in Nat
  BY <1>1 DEF Joined
<1>3. d = q \o w
  <2>1. (p \o s) \o w = p \o (s \o w)
    BY ConcatAssociative
  <2> QED  BY <2>1, Zenon
<1>4. Joined(Byte, d, q, w)
  BY <1>2, <1>3, JoinedCat, Zenon
<1>5. d \in Seq(Byte) /\ Len(d) = Len(q) + Len(w) /\ Len(w) \in Nat
  BY <1>4 DEF Joined
<1>6. Slice(d, Len(p), Len(s)) = s
  <2>1. PICK o : o = Len(p)
    OBVIOUS
  <2>2. IsAt(d, o, p, s, w)
    BY <2>1, MiddleAt, Zenon
  <2> QED  BY <2>1, <2>2, Zenon DEF IsAt
<1>7. SubSeq(d, Len(q) + 1, Len(d)) = w
  <2>1. PICK o : o = Len(q)
    OBVIOUS
  <2>2. SubSeq(d, o + 1, Len(d)) = w
    BY <1>2, <1>3, <2>1, SuffixAt
  <2> QED  BY <2>1, <2>2, Zenon
<1> QED
  BY <1>2, <1>3, <1>5, <1>6, <1>7, Zenon DEF Moved

\* s begins with u, the number x, and w follows it.
NumberAt(s, u, x, w) ==
    /\ u \in Seq(Byte) /\ Len(u) \in Nat /\ Len(u) >= 1
    /\ s \in Seq(Byte) /\ s = u \o w /\ Len(w) \in Nat /\ Len(s) = Len(u) + Len(w)
    /\ Uvarint[s] = [n |-> Len(u), x |-> x]

\* A written length is read back in front of w, with its own size.
LEMMA NumberAtCat ==
    ASSUME NEW x \in Nat, NEW u, u = uvarint[x], NEW w \in Seq(Byte), NEW s, s = u \o w
    PROVE  NumberAt(s, u, x, w)
<1>1. u \in Seq(Byte)
  BY VarLen
<1>2. s = uvarint[x] \o w
  BY Zenon
<1>3. /\ Uvarint[s] = [n |-> Len(uvarint[x]), x |-> x]
      /\ s \in Seq(Byte) /\ Len(s) = Len(uvarint[x]) + Len(w)
      /\ Len(uvarint[x]) \in Nat /\ Len(uvarint[x]) >= 1 /\ Len(w) \in Nat
  BY <1>2, ReadAt, Zenon
<1> QED
  BY <1>1, <1>3, Zenon DEF NumberAt

(***************************************************************************)
(* The record at o of d has a complete key, at kp; p is what is before vo  *)
(* and w what is behind it.                                                *)
(***************************************************************************)
KeyRead(d, o, kt, key, kp, vo, p, w) ==
    /\ o \in Nat /\ kp \in Nat /\ vo \in Nat /\ Len(key) \in Nat /\ Len(w) \in Nat
    /\ kp = o + 1 + Len(uvarint[Len(key)]) /\ kp >= o + 2 /\ vo = kp + Len(key)
    /\ d \in Seq(Byte) /\ Len(d) = vo + Len(w)
    /\ d = p \o w /\ p \in Seq(Byte) /\ Len(p) = vo
    /\ Slice(d, kp, Len(key)) = key
    /\ d[o + 1] = kt
    /\ decodeRec(d, o) =
         IF kt = keyTypeVal
         THEN decodeValue(d, o, [n |-> Len(uvarint[Len(key)]), x |-> Len(key)], vo, Uvarint[w])
         ELSE [e |-> [keyType |-> kt, keyPos |-> kp, keyLen |-> Len(key),
                      valuePos |-> 0, valueLen |-> 0],
               o |-> vo]

\* decodeRec finds the key that encode wrote.
LEMMA KeyThere ==
    ASSUME NEW pre \in Seq(Byte), NEW kt \in Byte, kt <= keyTypeVal, NEW key \in Seq(Byte),
           NEW w \in Seq(Byte), NEW v, v = uvarint[Len(key)] \o (key \o w),
           NEW d, d = pre \o (<<kt>> \o v), NEW o, o = Len(pre)
    PROVE  \E kp, vo, p : KeyRead(d, o, kt, key, kp, vo, p, w)
<1>0. PICK x \in Nat : x = Len(key)
  BY LenProperties
<1>1. PICK u : u = uvarint[x]
  OBVIOUS
<1>3. PICK kw : kw = key \o w
  OBVIOUS
<1>4. Joined(Byte, kw, key, w)
  BY <1>3, JoinedCat, Zenon
<1>41. kw \in Seq(Byte)
  BY <1>4 DEF Joined
<1>5. v = u \o kw
  BY <1>0, <1>1, <1>3, Zenon
<1>6. NumberAt(v, u, x, kw)
  BY <1>1, <1>41, <1>5, NumberAtCat, Zenon
<1>61. v \in Seq(Byte)
  BY <1>6, Zenon DEF NumberAt
<1>62. u \in Seq(Byte)
  BY <1>6, Zenon DEF NumberAt
<1>7. PICK ku : ku = Uvarint[v]
  OBVIOUS
<1>71. PICK p1 : p1 = pre \o <<kt>>
  OBVIOUS
<1>8. AtRec(d, o, p1, kt, v, ku)
  BY <1>61, <1>7, <1>71, RecAt, Zenon
<1>81. p1 \in Seq(Byte)
  BY <1>8, Zenon DEF AtRec
<1>82. d = p1 \o (u \o kw)
  BY <1>5, <1>8, Zenon DEF AtRec
<1>9. PICK p2 : p2 = p1 \o u
  OBVIOUS
<1>10. Moved(d, p1, u, kw, p2)
  BY <1>41, <1>62, <1>81, <1>82, <1>9, MovedCat, Zenon
<1>11. p2 \in Seq(Byte)
  BY <1>10, Zenon DEF Moved
<1>12. d = p2 \o (key \o w)
  BY <1>3, <1>10, Zenon DEF Moved
<1>13. PICK p3 : p3 = p2 \o key
  OBVIOUS
<1>14. Moved(d, p2, key, w, p3)
  BY <1>11, <1>12, <1>13, MovedCat, Zenon
<1>150. PICK n : n = Len(u)
  OBVIOUS
<1>151. PICK kp : kp = Len(p2)
  OBVIOUS
<1>152. PICK vo : vo = Len(p3)
  OBVIOUS
<1>153. PICK k : k = Len(d)
  OBVIOUS
<1>154. PICK l : l = Len(w)
  OBVIOUS
<1>15. /\ o \in Nat /\ kp \in Nat /\ vo \in Nat /\ n \in Nat /\ l \in Nat /\ n >= 1
       /\ kp = o + 1 + n /\ kp >= o + 2 /\ vo = kp + x /\ k = vo + l
  <2>1. o \in Nat /\ Len(p1) = o + 1
    BY <1>8, Zenon DEF AtRec
  <2>2. n \in Nat /\ n >= 1
    BY <1>6, <1>150, Zenon DEF NumberAt
  <2>3. kp = o + 1 + n
    BY <1>10, <1>150, <1>151, <2>1, Zenon DEF Moved
  <2>4. vo = kp + x /\ k = vo + l /\ l \in Nat
    BY <1>0, <1>14, <1>151, <1>152, <1>153, <1>154, Zenon DEF Moved
  <2>5. kp \in Nat /\ vo \in Nat /\ kp >= o + 2
    BY <2>1, <2>2, <2>3, <2>4
  <2> QED  BY <2>1, <2>2, <2>3, <2>4, <2>5
<1>17. ku = [n |-> n, x |-> x]
  BY <1>6, <1>7, <1>150, Zenon DEF NumberAt
<1>16. ku.n = n /\ ku.x = x
  BY <1>17
<1>20. Fits(ku, o + 1, d)
  <2>1. o + 1 + n + x <= k /\ n > 0
    BY <1>15
  <2> QED  BY <1>153, <1>16, <2>1, Zenon DEF Fits
<1>21. o + 1 + ku.n + ku.x = vo /\ o + 1 + ku.n = kp
  BY <1>15, <1>16
<1>22. decodeRec(d, o) = decodeKey(d, o, ku, vo)
  BY <1>8, <1>21, Zenon DEF AtRec
<1>19. SubSeq(d, vo + 1, Len(d)) = w
  BY <1>14, <1>152, Zenon DEF Moved
<1>230. d[o + 1] = kt
  BY <1>8, Zenon DEF AtRec
<1>23. ~(kt > keyTypeVal)
  BY TypesAre, BaseIs DEF Byte
<1>24. decodeRec(d, o) = IF kt = keyTypeVal THEN decodeValue(d, o, ku, vo, Uvarint[w])
                         ELSE [e |-> [keyType |-> kt, keyPos |-> kp, keyLen |-> x,
                                      valuePos |-> 0, valueLen |-> 0],
                               o |-> vo]
  BY <1>16, <1>19, <1>20, <1>21, <1>22, <1>23, <1>230, Zenon DEF decodeKey
<1>25. KeyRead(d, o, kt, key, kp, vo, p3, w)
  <2>1. n = Len(uvarint[Len(key)])
    BY <1>0, <1>1, <1>150, Zenon
  <2>2. d \in Seq(Byte) /\ d = p3 \o w /\ p3 \in Seq(Byte) /\ Len(p3) = vo
    BY <1>14, <1>152, Zenon DEF Moved
  <2>3. Slice(d, kp, Len(key)) = key
    BY <1>14, <1>151, Zenon DEF Moved
  <2>4. decodeRec(d, o) =
         IF kt = keyTypeVal
         THEN decodeValue(d, o, [n |-> Len(uvarint[Len(key)]), x |-> Len(key)], vo, Uvarint[w])
         ELSE [e |-> [keyType |-> kt, keyPos |-> kp, keyLen |-> Len(key),
                      valuePos |-> 0, valueLen |-> 0],
               o |-> vo]
    BY <1>0, <1>17, <1>24, <2>1, Zenon
  <2>5. Len(w) \in Nat /\ Len(d) = vo + Len(w)
    BY <1>15, <1>153, <1>154, Zenon
  <2> QED  BY <1>0, <1>15, <1>230, <2>1, <2>2, <2>3, <2>4, <2>5, Zenon DEF KeyRead
<1> QED
  BY <1>25, Zenon

\* The length of the value is cut off.
LEMMA NoValueLen ==
    ASSUME NEW d, NEW o, NEW key, NEW kp, NEW vo, NEW p, NEW w,
           KeyRead(d, o, keyTypeVal, key, kp, vo, p, w), Uvarint[w] = [n |-> 0, x |-> 0]
    PROVE  decodeRec(d, o) = Bad
<1>1. ~Fits(Uvarint[w], vo, d)
  BY DEF Fits
<1> QED
  BY <1>1, Zenon DEF KeyRead, decodeValue

\* The value is cut off.
LEMMA NoValue ==
    ASSUME NEW d, NEW o, NEW key, NEW kp, NEW vo, NEW p, NEW w, NEW value \in Seq(Byte), NEW v \in Seq(Byte),
           KeyRead(d, o, keyTypeVal, key, kp, vo, p, w),
           w = uvarint[Len(value)] \o v, Len(v) < Len(value)
    PROVE  decodeRec(d, o) = Bad
<1>0. PICK x \in Nat : x = Len(value)
  BY LenProperties
<1>1. PICK n \in Nat : n = Len(uvarint[x])
  BY VarLen
<1>2. Uvarint[w] = [n |-> n, x |-> x] /\ Len(w) = n + Len(v) /\ n >= 1 /\ Len(v) \in Nat
  BY <1>0, <1>1, ReadAt, Zenon
<1>3. vo \in Nat /\ Len(d) = vo + Len(w)
  BY DEF KeyRead
<1>4. ~Fits(Uvarint[w], vo, d)
  BY <1>0, <1>2, <1>3 DEF Fits
<1> QED
  BY <1>4, Zenon DEF KeyRead, decodeValue

(***************************************************************************)
(* Both are there, the value at vp.                                        *)
(***************************************************************************)
ValueRead(d, o, key, kp, value, vp) ==
    /\ vp \in Nat /\ vp = kp + Len(key) + Len(uvarint[Len(value)])
    /\ Len(value) \in Nat /\ vp + Len(value) <= Len(d)
    /\ Slice(d, vp, Len(value)) = value
    /\ decodeRec(d, o) = [e |-> [keyType |-> keyTypeVal, keyPos |-> kp, keyLen |-> Len(key),
                                 valuePos |-> vp, valueLen |-> Len(value)],
                          o |-> vp + Len(value)]

\* decodeRec finds the value that encode wrote behind the key.
LEMMA ValueThere ==
    ASSUME NEW d, NEW o, NEW key, NEW kp, NEW vo, NEW p, NEW w, NEW value \in Seq(Byte), NEW v \in Seq(Byte),
           KeyRead(d, o, keyTypeVal, key, kp, vo, p, w),
           w = uvarint[Len(value)] \o (value \o v)
    PROVE  \E vp : ValueRead(d, o, key, kp, value, vp)
<1>0. PICK x \in Nat : x = Len(value)
  BY LenProperties
<1>1. PICK u : u = uvarint[x]
  OBVIOUS
<1>3. PICK z : z = value \o v
  OBVIOUS
<1>4. Joined(Byte, z, value, v)
  BY <1>3, JoinedCat, Zenon
<1>41. z \in Seq(Byte)
  BY <1>4 DEF Joined
<1>5. w = u \o z
  BY <1>0, <1>1, <1>3, Zenon
<1>6. NumberAt(w, u, x, z)
  BY <1>1, <1>41, <1>5, NumberAtCat, Zenon
<1>62. u \in Seq(Byte)
  BY <1>6, Zenon DEF NumberAt
<1>7. p \in Seq(Byte)
  BY Zenon DEF KeyRead
<1>71. d = p \o (u \o z)
  BY <1>5, Zenon DEF KeyRead
<1>8. PICK p4 : p4 = p \o u
  OBVIOUS
<1>9. Moved(d, p, u, z, p4)
  BY <1>41, <1>62, <1>7, <1>71, <1>8, MovedCat, Zenon
<1>10. p4 \in Seq(Byte)
  BY <1>9, Zenon DEF Moved
<1>11. d = p4 \o (value \o v)
  BY <1>3, <1>9, Zenon DEF Moved
<1>12. PICK p5 : p5 = p4 \o value
  OBVIOUS
<1>13. Moved(d, p4, value, v, p5)
  BY <1>10, <1>11, <1>12, MovedCat, Zenon
<1>14. PICK vp : vp = Len(p4)
  OBVIOUS
<1>15. PICK n : n = Len(u)
  OBVIOUS
<1>16. PICK k : k = Len(uvarint[Len(key)])
  OBVIOUS
<1>17. PICK y : y = Len(key)
  OBVIOUS
<1>180. PICK m : m = Len(d)
  OBVIOUS
<1>181. PICK l : l = Len(v)
  OBVIOUS
<1>18. /\ o \in Nat /\ kp \in Nat /\ vo \in Nat /\ y \in Nat /\ vo = kp + y
       /\ kp = o + 1 + k /\ vp = vo + n /\ n \in Nat /\ n >= 1 /\ vp \in Nat /\ vp = kp + y + n
       /\ vp + x <= m
  <2>1. /\ o \in Nat /\ kp \in Nat /\ vo \in Nat /\ y \in Nat /\ vo = kp + y
        /\ kp = o + 1 + k /\ Len(p) = vo
    BY <1>16, <1>17, Zenon DEF KeyRead
  <2>2. n \in Nat /\ n >= 1
    BY <1>6, <1>15, Zenon DEF NumberAt
  <2>3. vp = vo + n
    BY <1>9, <1>14, <1>15, <2>1, Zenon DEF Moved
  <2>4. m = (vp + x) + l /\ l \in Nat
    BY <1>0, <1>13, <1>14, <1>180, <1>181, Zenon DEF Moved
  <2>5. vp \in Nat /\ vp = kp + y + n
    BY <2>1, <2>2, <2>3
  <2>6. vp + x <= m
    BY <2>4, <2>5
  <2> QED  BY <2>1, <2>2, <2>3, <2>5, <2>6
<1>19. PICK vu : vu = [n |-> n, x |-> x]
  OBVIOUS
<1>20. PICK ku : ku = [n |-> k, x |-> y]
  OBVIOUS
<1>21. Uvarint[w] = vu
  BY <1>6, <1>15, <1>19, Zenon DEF NumberAt
<1>22. vu.n = n /\ vu.x = x /\ ku.n = k /\ ku.x = y
  BY <1>19, <1>20
<1>23. Fits(vu, vo, d)
  <2>1. vo + n + x <= m /\ n > 0
    BY <1>18
  <2> QED  BY <1>180, <1>22, <2>1, Zenon DEF Fits
<1>24. decodeRec(d, o) = decodeValue(d, o, ku, vo, vu)
  BY <1>16, <1>17, <1>20, <1>21, Zenon DEF KeyRead
<1>25. vo + vu.n = vp /\ o + 1 + ku.n = kp
  BY <1>18, <1>22
<1>26. d[o + 1] = keyTypeVal
  BY Zenon DEF KeyRead
<1>27. decodeRec(d, o) = [e |-> [keyType |-> keyTypeVal, keyPos |-> kp, keyLen |-> y,
                                 valuePos |-> vp, valueLen |-> x],
                          o |-> vp + x]
  BY <1>22, <1>23, <1>24, <1>25, <1>26, Zenon DEF decodeValue
<1>28. Slice(d, vp, x) = value
  BY <1>0, <1>13, <1>14, Zenon DEF Moved
<1>29. vp = kp + Len(key) + Len(uvarint[Len(value)])
  BY <1>0, <1>1, <1>15, <1>17, <1>18, Zenon
<1>30. vp \in Nat /\ Len(value) \in Nat /\ vp + Len(value) <= Len(d)
  BY <1>0, <1>18, <1>180, Zenon
<1>31. ValueRead(d, o, key, kp, value, vp)
  BY <1>0, <1>17, <1>27, <1>28, <1>29, <1>30, Zenon DEF ValueRead
<1> QED
  BY <1>31, Zenon
-----------------------------------------------------------------------------
(* Decoding one record *)

\* a record, as its bytes and as its entry in an index; ValuePart is what is
\* encoded behind the key
Enc(r) == encode(r[1], r[2], r[3])
Ent(o, r) == batchIndex(o, r[1], r[2], r[3])
ValuePart(r) == IF r[1] = keyTypeVal THEN uvarint[Len(r[3])] \o r[3] ELSE << >>

Assoc(s, t, u) == (s \o t) \o u = s \o (t \o u)

\* Concatenation is associative.
LEMMA AssocIs ==
    ASSUME NEW s \in Seq(Byte), NEW t \in Seq(Byte), NEW u \in Seq(Byte)
    PROVE  Assoc(s, t, u)
  BY ConcatAssociative DEF Assoc

\* r is an operation kt on key; the parts of it that are encoded
Parts(r, kt, key, value, u, rest) ==
    /\ r = <<kt, key, value>> /\ kt \in Byte /\ kt <= keyTypeVal
    /\ key \in Seq(Byte) /\ value \in Seq(Byte) /\ u \in Seq(Byte) /\ rest \in Seq(Byte)
    /\ u = uvarint[Len(key)]
    /\ \/ kt = keyTypeVal /\ rest = uvarint[Len(value)] \o value
       \/ kt = keyTypeDel /\ kt # keyTypeVal /\ value = << >> /\ rest = << >>
    /\ Enc(r) = <<kt>> \o (u \o (key \o rest))
    /\ Enc(r) \in Seq(Byte) /\ u \o (key \o rest) \in Seq(Byte) /\ key \o rest \in Seq(Byte)
    /\ Len(Enc(r)) = 1 + Len(u) + Len(key) + Len(rest)
    /\ Len(u) \in Nat /\ Len(key) \in Nat /\ Len(rest) \in Nat

\* The bytes of an operation have the parts that encode gives them.
LEMMA PartsOf ==
    ASSUME NEW r \in Op
    PROVE  \E kt, key, value, u, rest : Parts(r, kt, key, value, u, rest)
<1>1. PICK kt \in Byte, key \in Seq(Byte), value \in Seq(Byte) : r = <<kt, key, value>>
  BY DEF Op
<1>2. r[1] = kt /\ r[2] = key /\ r[3] = value
  BY <1>1
<1>3. kt <= keyTypeVal /\ (kt = keyTypeDel => value = << >>)
  BY <1>2 DEF Op
<1>4. kt = keyTypeVal \/ (kt = keyTypeDel /\ kt # keyTypeVal)
  <2>1. kt \in Nat /\ kt <= 1
    BY <1>3, TypesAre, BaseIs DEF Byte
  <2>2. kt = 0 \/ kt = 1
    BY <2>1
  <2> QED  BY <2>2, TypesAre
<1>5. PICK u \in Seq(Byte) : u = uvarint[Len(key)]
  BY VarLen, LenProperties
<1>6. PICK v \in Seq(Byte) : v = uvarint[Len(value)]
  BY VarLen, LenProperties
<1>7. v \o value \in Seq(Byte) /\ << >> \in Seq(Byte)
  BY ConcatProperties, EmptySeq
<1>8. PICK rest \in Seq(Byte) :
          rest = IF kt = keyTypeVal THEN uvarint[Len(value)] \o value ELSE << >>
  BY <1>6, <1>7, Zenon
<1>9. PICK a : a = <<kt>> /\ a \in Seq(Byte) /\ Len(a) = 1
  <2>1. <<kt>> \in Seq(Byte) /\ Len(<<kt>>) = 1
    BY <1>1
  <2> QED  BY <2>1, Zenon
<1>10. Enc(r) = ((a \o u) \o key) \o rest
  BY <1>2, <1>5, <1>8, <1>9, Zenon DEF Enc, encode
<1>11. PICK b : b = key \o rest
  OBVIOUS
<1>12. Joined(Byte, b, key, rest)
  BY <1>11, JoinedCat, Zenon
<1>13. b \in Seq(Byte)
  BY <1>12, Zenon DEF Joined
<1>14. PICK c : c = u \o b
  OBVIOUS
<1>15. Joined(Byte, c, u, b)
  BY <1>13, <1>14, JoinedCat, Zenon
<1>16. c \in Seq(Byte)
  BY <1>15, Zenon DEF Joined
<1>17. PICK e : e = a \o c
  OBVIOUS
<1>18. Joined(Byte, e, a, c)
  BY <1>9, <1>16, <1>17, JoinedCat, Zenon
<1>19. Enc(r) = e
  <2>1. PICK g : g = a \o u
    OBVIOUS
  <2>2. Joined(Byte, g, a, u)
    BY <1>9, <2>1, JoinedCat, Zenon
  <2>3. g \in Seq(Byte)
    BY <2>2, Zenon DEF Joined
  <2>4. Assoc(g, key, rest)
    BY <2>3, AssocIs, Zenon
  <2>5. Assoc(a, u, b)
    BY <1>9, <1>13, AssocIs, Zenon
  <2> QED  BY <1>10, <1>11, <1>14, <1>17, <2>1, <2>4, <2>5, Zenon DEF Assoc
<1>20. Len(e) = 1 + Len(u) + Len(key) + Len(rest) /\ Len(u) \in Nat /\ Len(key) \in Nat /\ Len(rest) \in Nat
  BY <1>9, <1>12, <1>15, <1>18 DEF Joined
<1>21. e \in Seq(Byte) /\ e = <<kt>> \o (u \o (key \o rest))
  BY <1>9, <1>11, <1>14, <1>17, <1>18, Zenon DEF Joined
<1>22. \/ kt = keyTypeVal /\ rest = uvarint[Len(value)] \o value
       \/ kt = keyTypeDel /\ kt # keyTypeVal /\ value = << >> /\ rest = << >>
  BY <1>3, <1>4, <1>8, Zenon
<1>23. u \o (key \o rest) \in Seq(Byte) /\ key \o rest \in Seq(Byte)
  BY <1>11, <1>13, <1>14, <1>16, Zenon
<1>24. Parts(r, kt, key, value, u, rest)
  BY <1>1, <1>3, <1>5, <1>19, <1>20, <1>21, <1>22, <1>23, Zenon DEF Parts
<1> QED
  BY <1>24, Zenon

\* f is the first c elements of s and t, which are not all.
CutIn(f, s, t, c) ==
    \/ c < Len(s) /\ f = SubSeq(s, 1, c)
    \/ \E j \in Nat : c = Len(s) + j /\ j < Len(t) /\ f = s \o SubSeq(t, 1, j)

\* A cut of s \o t is in s or in t.
LEMMA CutsIn ==
    ASSUME NEW s \in Seq(Byte), NEW t \in Seq(Byte), NEW z, z = s \o t,
           NEW c \in Nat, c < Len(z), NEW f, f = SubSeq(z, 1, c)
    PROVE  CutIn(f, s, t, c)
<1>1. Len(s) \in Nat /\ Len(t) \in Nat /\ Len(s \o t) = Len(s) + Len(t)
  BY Cat
<1>2. c \in 0..Len(s \o t) /\ c < Len(s) + Len(t)
  BY <1>1
<1>3. CASE c < Len(s)
  <2>1. c \in 0..Len(s)
    BY <1>1, <1>3
  <2>2. SubSeq(s \o t, 1, c) = SubSeq(s, 1, c)
    BY <2>1, FirstOf, Zenon
  <2> QED  BY <1>3, <2>2, Zenon DEF CutIn
<1>4. CASE ~(c < Len(s))
  <2>1. PICK j \in Nat : c = Len(s) + j /\ j < Len(t) /\ j \in 0..Len(t)
    <3>1. c - Len(s) \in 0..Len(t) /\ c - Len(s) \in Nat /\ c = Len(s) + (c - Len(s)) /\ c - Len(s) < Len(t)
      BY <1>1, <1>2, <1>4
    <3> QED  BY <3>1
  <2>2. SubSeq(s \o t, 1, Len(s) + j) = s \o SubSeq(t, 1, j)
    BY <2>1, FirstBeyond, Zenon
  <2>3. f = s \o SubSeq(t, 1, j)
    BY <2>1, <2>2, Zenon
  <2> QED  BY <2>1, <2>3, Zenon DEF CutIn
<1> QED
  BY <1>3, <1>4, Zenon

\* A part that is cut off is as long as the cut says.
LEMMA FirstLess ==
    ASSUME NEW s \in Seq(Byte), NEW c \in Nat, c < Len(s)
    PROVE  SubSeq(s, 1, c) \in Seq(Byte) /\ Len(SubSeq(s, 1, c)) = c
<1>1. c \in 0..Len(s)
  BY LenProperties
<1> QED
  BY <1>1, First

(***************************************************************************)
(* A record that is cut off is not decoded (decodeRec).                    *)
(***************************************************************************)
LEMMA TornRecord ==
    ASSUME NEW r \in Op, NEW pre \in Seq(Byte), NEW c \in Nat, c # 0, c < Len(Enc(r)),
           NEW f, f = SubSeq(Enc(r), 1, c), NEW d, d = pre \o f
    PROVE  decodeRec(d, Len(pre)) = Bad
<1>1. PICK kt, key, value, u, rest : Parts(r, kt, key, value, u, rest)
  BY PartsOf, Zenon
<1>2. /\ kt \in Byte /\ kt <= keyTypeVal /\ key \in Seq(Byte) /\ value \in Seq(Byte)
      /\ u \in Seq(Byte) /\ rest \in Seq(Byte) /\ u = uvarint[Len(key)]
      /\ Len(key) \in Nat /\ Len(u) \in Nat /\ Len(rest) \in Nat
  BY <1>1, Zenon DEF Parts
<1>3. PICK b \in Seq(Byte) : b = key \o rest
  BY <1>1, Zenon DEF Parts
<1>4. PICK g \in Seq(Byte) : g = u \o b
  BY <1>1, <1>3, Zenon DEF Parts
<1>50. kt \in Byte /\ key \in Seq(Byte)
  BY <1>2
<1>5. PICK a : a = <<kt>> /\ a \in Seq(Byte) /\ Len(a) = 1
  <2>1. <<kt>> \in Seq(Byte) /\ Len(<<kt>>) = 1
    BY <1>50
  <2> QED  BY <2>1, Zenon
<1>6. PICK z : z = Enc(r)
  OBVIOUS
<1>7. z = a \o g
  BY <1>1, <1>3, <1>4, <1>5, <1>6, Zenon DEF Parts
<1>8. c < Len(z) /\ f = SubSeq(z, 1, c)
  BY <1>6, Zenon
<1>9. CutIn(f, a, g, c)
  BY <1>5, <1>7, <1>8, CutsIn, Zenon
<1>10. ~(c < Len(a))
  BY <1>5
<1>11. PICK j \in Nat : j < Len(g) /\ f = a \o SubSeq(g, 1, j)
  BY <1>9, <1>10, Zenon DEF CutIn
<1>12. PICK v : v = SubSeq(g, 1, j)
  OBVIOUS
<1>13. v \in Seq(Byte)
  BY <1>11, <1>12, FirstLess
<1>14. d = pre \o (<<kt>> \o v)
  BY <1>5, <1>11, <1>12, Zenon
<1>15. CutIn(v, u, b, j)
  BY <1>2, <1>4, <1>11, <1>12, CutsIn, Zenon
<1>16. CASE j < Len(u) /\ v = SubSeq(u, 1, j)
  <2>1. Uvarint[v] = [n |-> 0, x |-> 0]
    BY <1>2, <1>16, VarTorn, Zenon
  <2> QED  BY <1>2, <1>13, <1>14, <2>1, NoKeyLen, Zenon
<1>17. ASSUME NEW j2 \in Nat, j2 < Len(b), v = u \o SubSeq(b, 1, j2)
       PROVE  decodeRec(d, Len(pre)) = Bad
  <2>1. PICK w : w = SubSeq(b, 1, j2)
    OBVIOUS
  <2>2. w \in Seq(Byte)
    BY <1>17, <2>1, FirstLess
  <2>3. v = uvarint[Len(key)] \o w
    BY <1>2, <1>17, <2>1, Zenon
  <2>4. CutIn(w, key, rest, j2)
    BY <1>2, <1>3, <1>17, <2>1, CutsIn, Zenon
  <2>5. CASE j2 < Len(key) /\ w = SubSeq(key, 1, j2)
    <3>1. Len(w) < Len(key)
      BY <1>2, <2>5, FirstLess
    <3>2. kt \in Byte
      BY <1>50
    <3>3. key \in Seq(Byte)
      BY <1>50
    <3>4. BadKey(d, pre, kt, key, w, v)
      BY <1>14, <2>2, <2>3, <3>1, <3>2, <3>3, NoKey, Zenon
    <3> QED  BY <3>4, Zenon DEF BadKey
  <2>6. ASSUME NEW j3 \in Nat, j3 < Len(rest), w = key \o SubSeq(rest, 1, j3)
        PROVE  decodeRec(d, Len(pre)) = Bad
    <3>1. rest # << >>
      <4>1. Len(<< >>) = 0
        OBVIOUS
      <4>2. Len(rest) # 0
        BY <1>2, <2>6
      <4> QED  BY <4>1, <4>2, Zenon
    <3>2. kt = keyTypeVal /\ rest = uvarint[Len(value)] \o value
      BY <1>1, <3>1, Zenon DEF Parts
    <3>3. PICK y : y = SubSeq(rest, 1, j3)
      OBVIOUS
    <3>4. y \in Seq(Byte)
      BY <1>2, <2>6, <3>3, FirstLess
    <3>5. v = uvarint[Len(key)] \o (key \o y)
      BY <2>3, <2>6, <3>3, Zenon
    <3>6. PICK o : o = Len(pre)
      OBVIOUS
    <3>7. \E kp, vo, p : KeyRead(d, o, kt, key, kp, vo, p, y)
      BY <1>2, <1>14, <3>4, <3>5, <3>6, KeyThere, Zenon
    <3>8. PICK kp, vo, p : KeyRead(d, o, keyTypeVal, key, kp, vo, p, y)
      BY <3>2, <3>7, Zenon
    <3>9. PICK n \in Nat : n = Len(value)
      BY <1>2, LenProperties
    <3>10. PICK t : t = uvarint[n]
      OBVIOUS
    <3>11. t \in Seq(Byte)
      BY <3>10, VarLen
    <3>12. rest = t \o value
      BY <3>2, <3>9, <3>10, Zenon
    <3>13. CutIn(y, t, value, j3)
      BY <1>2, <2>6, <3>3, <3>11, <3>12, CutsIn, Zenon
    <3>14. CASE j3 < Len(t) /\ y = SubSeq(t, 1, j3)
      <4>1. Uvarint[y] = [n |-> 0, x |-> 0]
        BY <3>10, <3>14, VarTorn, Zenon
      <4>2. decodeRec(d, o) = Bad
        BY <3>8, <4>1, NoValueLen, Zenon
      <4> QED  BY <3>6, <4>2, Zenon
    <3>15. ASSUME NEW j4 \in Nat, j4 < Len(value), y = t \o SubSeq(value, 1, j4)
           PROVE  decodeRec(d, Len(pre)) = Bad
      <4>1. PICK q : q = SubSeq(value, 1, j4)
        OBVIOUS
      <4>2. q \in Seq(Byte) /\ Len(q) < Len(value)
        BY <1>2, <3>15, <4>1, FirstLess
      <4>3. y = uvarint[Len(value)] \o q
        BY <3>9, <3>10, <3>15, <4>1, Zenon
      <4>4. decodeRec(d, o) = Bad
        BY <1>2, <3>8, <4>2, <4>3, NoValue, Zenon
      <4> QED  BY <3>6, <4>4, Zenon
    <3> QED  BY <3>13, <3>14, <3>15, Zenon DEF CutIn
  <2> QED  BY <2>4, <2>5, <2>6, Zenon DEF CutIn
<1> QED
  BY <1>15, <1>16, <1>17, Zenon DEF CutIn
\* The entry e of an index over the bytes d describes r, which is in d.
Describes(d, e, r) ==
    /\ e \in Entry /\ kv(d, e) = r
    /\ e.keyPos + e.keyLen <= Len(d)
    /\ e.valueLen # 0 => e.valuePos + e.valueLen <= Len(d)

\* r is decoded at o, where pre ends; post follows it.
Whole(d, o, r, pre, post) ==
    /\ decodeRec(d, o) = [e |-> Ent(o, r), o |-> o + Len(Enc(r))]
    /\ Describes(d, Ent(o, r), r)

\* the entry with these fields
EntryOf(kt, kp, kl, vp, vl) ==
    [keyType |-> kt, keyPos |-> kp, keyLen |-> kl, valuePos |-> vp, valueLen |-> vl]

\* An entry whose two slices are key and value describes them.
LEMMA DescribesIs ==
    ASSUME NEW d, NEW kt \in Byte, NEW kp \in Nat, NEW kl \in Nat, NEW vp \in Nat, NEW vl \in Nat,
           NEW key, NEW value, NEW r, r = <<kt, key, value>>,
           Slice(d, kp, kl) = key, Slice(d, vp, vl) = value,
           kp + kl <= Len(d), vl # 0 => vp + vl <= Len(d),
           NEW e, e = EntryOf(kt, kp, kl, vp, vl)
    PROVE  Describes(d, e, r)
<1>1. e.keyType = kt /\ e.keyPos = kp /\ e.keyLen = kl /\ e.valuePos = vp /\ e.valueLen = vl
  BY DEF EntryOf
<1>2. e \in Entry
  BY BaseIs DEF EntryOf, Entry, Byte
<1>3. kv(d, e) = r
  BY <1>1, Zenon DEF kv
<1> QED
  BY <1>1, <1>2, <1>3, Zenon DEF Describes

\* A slice of length 0 is empty, wherever it is.
LEMMA SliceNone ==
    ASSUME NEW d, NEW p \in Nat
    PROVE  Slice(d, p, 0) = << >>
<1>1. p + 1 > p + 0
  OBVIOUS
<1>2. SubSeq(d, p + 1, p + 0) = << >>
  BY <1>1, SubSeqEmpty
<1> QED
  BY <1>2 DEF Slice

(***************************************************************************)
(* A record is decoded as the entry that appendRec makes of it, which      *)
(* describes it (decodeRec, batchIndex).                                   *)
(***************************************************************************)
LEMMA WholeRecord ==
    ASSUME NEW r \in Op, NEW pre \in Seq(Byte), NEW post \in Seq(Byte),
           NEW d, d = pre \o (Enc(r) \o post), NEW o, o = Len(pre)
    PROVE  Whole(d, o, r, pre, post)
<1>1. PICK kt, key, value, u, rest : Parts(r, kt, key, value, u, rest)
  BY PartsOf, Zenon
<1>2. /\ kt \in Byte /\ kt <= keyTypeVal /\ key \in Seq(Byte) /\ value \in Seq(Byte)
      /\ u \in Seq(Byte) /\ rest \in Seq(Byte) /\ u = uvarint[Len(key)]
      /\ Len(key) \in Nat /\ Len(u) \in Nat /\ Len(rest) \in Nat
  BY <1>1, Zenon DEF Parts
<1>3. PICK b \in Seq(Byte) : b = key \o rest
  BY <1>1, Zenon DEF Parts
<1>4. PICK g \in Seq(Byte) : g = u \o b
  BY <1>1, <1>3, Zenon DEF Parts
<1>5. PICK a : a = <<kt>> /\ a \in Seq(Byte)
  <2>1. <<kt>> \in Seq(Byte)
    BY <1>2
  <2> QED  BY <2>1, Zenon
<1>6. Enc(r) = a \o g
  BY <1>1, <1>3, <1>4, <1>5, Zenon DEF Parts
<1>7. PICK w : w = rest \o post
  OBVIOUS
<1>8. Joined(Byte, w, rest, post)
  BY <1>2, <1>7, JoinedCat, Zenon
<1>9. w \in Seq(Byte)
  BY <1>8, Zenon DEF Joined
<1>10. PICK v : v = uvarint[Len(key)] \o (key \o w)
  OBVIOUS
<1>11. d = pre \o (<<kt>> \o v)
  <2>1. Assoc(a, g, post)
    BY <1>5, AssocIs, Zenon
  <2>2. Assoc(u, b, post)
    BY <1>2, AssocIs, Zenon
  <2>3. Assoc(key, rest, post)
    BY <1>2, AssocIs, Zenon
  <2>4. g \o post = v
    BY <1>2, <1>3, <1>4, <1>7, <1>10, <2>2, <2>3, Zenon DEF Assoc
  <2>5. Enc(r) \o post = <<kt>> \o v
    BY <1>5, <1>6, <2>1, <2>4, Zenon DEF Assoc
  <2> QED  BY <2>5, Zenon
<1>12. PICK kp, vo, p : KeyRead(d, o, kt, key, kp, vo, p, w)
  BY <1>2, <1>9, <1>10, <1>11, KeyThere, Zenon
<1>13. PICK y : y = Len(key)
  OBVIOUS
<1>14. PICK n : n = Len(u)
  OBVIOUS
<1>15. /\ o \in Nat /\ kp \in Nat /\ vo \in Nat /\ y \in Nat /\ n \in Nat
       /\ kp = o + 1 + n /\ vo = kp + y
  BY <1>2, <1>12, <1>13, <1>14, Zenon DEF KeyRead
<1>16. Slice(d, kp, y) = key
  BY <1>12, <1>13, Zenon DEF KeyRead
<1>17. kp + y <= Len(d)
  <2>1. Len(d) = vo + Len(w) /\ Len(w) \in Nat
    BY <1>12, Zenon DEF KeyRead
  <2> QED  BY <1>15, <2>1
<1>18. PICK k : k = Len(Enc(r))
  OBVIOUS
<1>19. k = 1 + n + y + Len(rest)
  BY <1>1, <1>13, <1>14, <1>18, Zenon DEF Parts
<1>20. r = <<kt, key, value>> /\ r[1] = kt /\ r[2] = key /\ r[3] = value
  <2>1. r = <<kt, key, value>>
    BY <1>1, Zenon DEF Parts
  <2> QED  BY <2>1
<1>21. CASE kt = keyTypeVal /\ rest = uvarint[Len(value)] \o value
  <2>1. PICK x \in Nat : x = Len(value)
    BY <1>2, LenProperties
  <2>2. PICK t : t = uvarint[Len(value)]
    OBVIOUS
  <2>3. t \in Seq(Byte) /\ Len(t) \in Nat
    BY <2>1, <2>2, VarLen
  <2>4. w = uvarint[Len(value)] \o (value \o post)
    <3>1. Assoc(t, value, post)
      BY <1>2, <2>3, AssocIs, Zenon
    <3> QED  BY <1>7, <1>21, <2>2, <3>1, Zenon DEF Assoc
  <2>5. KeyRead(d, o, keyTypeVal, key, kp, vo, p, w)
    BY <1>12, <1>21, Zenon
  <2>6. PICK vp : ValueRead(d, o, key, kp, value, vp)
    BY <1>2, <2>4, <2>5, ValueThere, Zenon
  <2>7. PICK l : l = Len(t)
    OBVIOUS
  <2>8. vp \in Nat /\ vp = kp + y + l /\ vp + x <= Len(d)
    BY <1>13, <2>1, <2>2, <2>6, <2>7, Zenon DEF ValueRead
  <2>9. Slice(d, vp, x) = value
    BY <2>1, <2>6, Zenon DEF ValueRead
  <2>10. PICK e : e = EntryOf(kt, kp, y, vp, x)
    OBVIOUS
  <2>11. Describes(d, e, r)
    BY <1>2, <1>15, <1>16, <1>17, <1>20, <2>8, <2>9, <2>10, DescribesIs, Zenon
  <2>12. e = Ent(o, r)
    <3>1. o + 1 + Len(uvarint[Len(key)]) = kp
      BY <1>2, <1>14, <1>15, Zenon
    <3>2. kp + Len(key) + Len(uvarint[Len(value)]) = vp
      BY <1>13, <2>2, <2>7, <2>8, Zenon
    <3> QED  BY <1>13, <1>20, <1>21, <2>1, <2>10, <3>1, <3>2, Zenon DEF Ent, batchIndex, EntryOf
  <2>13. decodeRec(d, o) = [e |-> e, o |-> vp + x]
    BY <1>13, <1>21, <2>1, <2>6, <2>10, Zenon DEF ValueRead, EntryOf
  <2>14. Len(rest) = l + x
    <3>1. rest = t \o value
      BY <1>21, <2>2, Zenon
    <3>2. Joined(Byte, rest, t, value)
      BY <1>2, <2>3, <3>1, JoinedCat, Zenon
    <3> QED  BY <2>1, <2>7, <3>2, Zenon DEF Joined
  <2>15. vp + x = o + k
    BY <1>15, <1>19, <2>1, <2>3, <2>7, <2>8, <2>14
  <2> QED  BY <1>18, <2>11, <2>12, <2>13, <2>15, Zenon DEF Whole
<1>22. CASE kt = keyTypeDel /\ kt # keyTypeVal /\ value = << >> /\ rest = << >>
  <2>1. decodeRec(d, o) = [e |-> EntryOf(kt, kp, y, 0, 0), o |-> vo]
    BY <1>12, <1>13, <1>22, Zenon DEF KeyRead, EntryOf
  <2>2. PICK e : e = EntryOf(kt, kp, y, 0, 0)
    OBVIOUS
  <2>3. Slice(d, 0, 0) = value /\ 0 \in Nat
    BY <1>22, SliceNone
  <2>4. Describes(d, e, r)
    BY <1>2, <1>15, <1>16, <1>17, <1>20, <2>2, <2>3, DescribesIs, Zenon
  <2>5. Len(<< >>) = 0
    OBVIOUS
  <2>6. e = Ent(o, r)
    <3>1. o + 1 + Len(uvarint[Len(key)]) = kp
      BY <1>2, <1>14, <1>15, Zenon
    <3>2. Len(r[3]) = 0 /\ r[1] # keyTypeVal
      BY <1>20, <1>22, <2>5, Zenon
    <3>3. r[1] = kt /\ Len(r[2]) = y /\ o + 1 + Len(uvarint[Len(r[2])]) = kp
      BY <1>13, <1>20, <3>1, Zenon
    <3> QED  BY <2>2, <3>2, <3>3 DEF Ent, batchIndex, EntryOf
  <2>7. vo = o + k
    <3>1. Len(rest) = 0
      BY <1>22, <2>5, Zenon
    <3> QED  BY <1>15, <1>19, <3>1
  <2>8. decodeRec(d, o) = [e |-> e, o |-> vo]
    BY <2>1, <2>2, Zenon
  <2> QED  BY <1>18, <2>4, <2>6, <2>7, <2>8, Zenon DEF Whole
<1> QED
  BY <1>1, <1>21, <1>22, Zenon DEF Parts
-----------------------------------------------------------------------------
(* Decoding *)

\* A turn of decodeBatch's loop at o ends it, or gets to p.
Turn(d, o, e, p) ==
    decodeRec(d, o) = [e |-> e, o |-> p] /\ e \in Entry /\ p \in Nat /\ o < p /\ p <= Len(d)

\* A decoded record is not an error.
LEMMA NotBad ==
    ASSUME NEW e, NEW p \in Nat
    PROVE  [e |-> e, o |-> p] # Bad
<1>1. [e |-> e, o |-> p].o # Bad.o
  BY DEF Bad
<1> QED
  BY <1>1

\* Reading a length at an offset gives a varint read.
LEMMA LengthAt ==
    ASSUME NEW d \in Seq(Byte), NEW o \in Nat, o <= Len(d)
    PROVE  Uvarint[SubSeq(d, o + 1, Len(d))] \in VarRead
<1>1. PICK k \in Nat : k = Len(d)
  BY LenProperties
<1>2. SubSeq(d, o + 1, k) \in Seq(Byte)
  <2>1. o <= k /\ k <= Len(d)
    BY <1>1
  <2>2. PartOf(Byte, d, o, k)
    BY <2>1, Part, Zenon
  <2> QED  BY <2>2, Zenon DEF PartOf
<1> QED
  BY <1>1, <1>2, UvarintIs, Zenon

\* A turn of decodeBatch's loop that does not fail gets further.
LEMMA TurnIs ==
    ASSUME NEW d \in Seq(Byte), NEW o \in Nat, o < Len(d), decodeRec(d, o) # Bad
    PROVE  \E e, p : Turn(d, o, e, p)
<1>0. PICK k \in Nat : k = Len(d)
  BY LenProperties
<1>1. PICK kt \in Nat : kt = d[o + 1]
  <2>1. o + 1 \in 1..Len(d)
    BY <1>0
  <2>2. d[o + 1] \in Byte
    BY <2>1, ElementOfSeq
  <2> QED  BY <2>2, BaseIs DEF Byte
<1>2. PICK ku : ku = Uvarint[SubSeq(d, o + 2, Len(d))]
  OBVIOUS
<1>3. ku \in VarRead
  <2>1. PICK j \in Nat : j = o + 1 /\ j + 1 = o + 2 /\ j <= Len(d)
    BY <1>0
  <2>2. Uvarint[SubSeq(d, j + 1, Len(d))] \in VarRead
    BY <2>1, LengthAt
  <2> QED  BY <1>2, <2>1, <2>2, Zenon
<1>4. PICK n \in Nat, x \in Nat : n = ku.n /\ x = ku.x
  BY <1>3 DEF VarRead
<1>5. PICK vo \in Nat : vo = o + 1 + n + x
  OBVIOUS
<1>6. decodeRec(d, o) = decodeKey(d, o, ku, vo)
  BY <1>2, <1>4, <1>5, Zenon DEF decodeRec
<1>7. Fits(ku, o + 1, d)
  BY <1>6, Zenon DEF decodeKey
<1>8. n > 0 /\ vo <= k
  BY <1>0, <1>4, <1>5, <1>7 DEF Fits
<1>9. PICK kp \in Nat : kp = o + 1 + ku.n
  BY <1>4
<1>10. CASE kt = keyTypeVal
  <2>1. PICK vu : vu = Uvarint[SubSeq(d, vo + 1, Len(d))]
    OBVIOUS
  <2>2. vu \in VarRead
    BY <1>0, <1>8, <2>1, LengthAt
  <2>3. PICK m \in Nat, z \in Nat : m = vu.n /\ z = vu.x
    BY <2>2 DEF VarRead
  <2>4. decodeRec(d, o) = decodeValue(d, o, ku, vo, vu)
    BY <1>1, <1>6, <1>10, <2>1, Zenon DEF decodeKey
  <2>5. Fits(vu, vo, d)
    BY <2>4, Zenon DEF decodeValue
  <2>6. PICK vp \in Nat : vp = vo + vu.n
    BY <2>3
  <2>7. PICK p \in Nat : p = vo + vu.n + vu.x
    BY <2>3
  <2>8. PICK e : e = EntryOf(kt, kp, x, vp, z)
    OBVIOUS
  <2>9. decodeRec(d, o) = [e |-> e, o |-> p]
    BY <1>1, <1>4, <1>9, <2>3, <2>4, <2>5, <2>6, <2>7, <2>8, Zenon DEF decodeValue, EntryOf
  <2>10. e \in Entry
    BY <2>8 DEF EntryOf, Entry
  <2>11. o < p /\ p <= Len(d)
    BY <1>5, <2>3, <2>5, <2>7 DEF Fits
  <2>12. Turn(d, o, e, p)
    BY <2>9, <2>10, <2>11, Zenon DEF Turn
  <2> QED  BY <2>12, Zenon
<1>11. CASE kt # keyTypeVal
  <2>1. PICK e : e = EntryOf(kt, kp, x, 0, 0)
    OBVIOUS
  <2>2. decodeRec(d, o) = [e |-> e, o |-> vo]
    BY <1>1, <1>4, <1>6, <1>9, <1>11, <2>1, Zenon DEF decodeKey, EntryOf
  <2>3. e \in Entry
    BY <2>1 DEF EntryOf, Entry
  <2>4. o < vo /\ vo <= Len(d)
    BY <1>0, <1>5, <1>8
  <2>5. Turn(d, o, e, vo)
    BY <2>2, <2>3, <2>4, Zenon DEF Turn
  <2> QED  BY <2>5, Zenon
<1> QED
  BY <1>10, <1>11

\* what decodeBatch's loop has read from o on, f that from the offsets behind o
DecStep(d, f, o) ==
    IF o = Len(d) THEN [ok |-> TRUE, idx |-> << >>]
    ELSE IF decodeRec(d, o) = Bad THEN [ok |-> FALSE, idx |-> << >>]
    ELSE [ok |-> f[decodeRec(d, o).o].ok,
          idx |-> <<decodeRec(d, o).e>> \o f[decodeRec(d, o).o].idx]

Decoder(d, f) == f = [o \in 0..Len(d) |-> DecStep(d, f, o)]

(***************************************************************************)
(* decodeBatch is what its loop says: each turn gets further.              *)
(***************************************************************************)
LEMMA DecodeIs ==
    ASSUME NEW d \in Seq(Byte)
    PROVE  \E f : Decoder(d, f) /\ decodeBatch(d) = f[0]
<1> DEFINE S == 0..Len(d)
           V == [ok: BOOLEAN, idx: Seq(Entry)]
           Stop == {o \in S : o = Len(d) \/ decodeRec(d, o) = Bad}
           base == [o \in S |-> [ok |-> o = Len(d), idx |-> << >>]]
           p == [o \in S |-> decodeRec(d, o).o]
           F == [y \in S \X V |->
                   IF y[1] \in Stop THEN y[2]
                   ELSE [ok |-> y[2].ok, idx |-> <<decodeRec(d, y[1]).e>> \o y[2].idx]]
           m == [o \in S |-> Len(d) - o]
<1>0. Len(d) \in Nat
  BY LenProperties
<1>1. base \in [S -> V] /\ m \in [S -> Nat]
  BY <1>0, EmptySeq
<1>2. ASSUME NEW o \in S, o \notin Stop
      PROVE  decodeRec(d, o).e \in Entry /\ decodeRec(d, o).o \in S /\ Len(d) - decodeRec(d, o).o < Len(d) - o
  <2>1. o \in Nat /\ o < Len(d) /\ decodeRec(d, o) # Bad
    BY <1>0, <1>2
  <2>2. PICK e, q : Turn(d, o, e, q)
    BY <2>1, TurnIs, Zenon
  <2>3. decodeRec(d, o).e = e /\ decodeRec(d, o).o = q
    BY <2>2 DEF Turn
  <2>4. e \in Entry /\ q \in Nat /\ o < q /\ q <= Len(d)
    BY <2>2, Zenon DEF Turn
  <2> QED  BY <1>0, <2>1, <2>3, <2>4
<1>3. F \in [S \X V -> V]
  <2> SUFFICES ASSUME NEW o \in S, NEW v \in V, o \notin Stop
               PROVE  [ok |-> v.ok, idx |-> <<decodeRec(d, o).e>> \o v.idx] \in V
    OBVIOUS
  <2>1. PICK e \in Entry : e = decodeRec(d, o).e
    BY <1>2
  <2>2. v.ok \in BOOLEAN /\ v.idx \in Seq(Entry)
    OBVIOUS
  <2>3. <<e>> \o v.idx \in Seq(Entry)
    BY <2>2, OneThen
  <2> QED  BY <2>1, <2>2, <2>3
<1>4. \A o \in S : o \notin Stop => p[o] \in S /\ m[p[o]] < m[o]
  BY <1>2
<1>5. PICK f \in [S -> V] : \A o \in S : Meets(f, o, Stop, base, p, F)
  <2> HIDE DEF base, p, F, m, S, Stop, V
  <2> QED  BY <1>1, <1>3, <1>4, Recursion, Zenon
<1>6. ASSUME NEW o \in S
      PROVE  f[o] = DecStep(d, f, o)
  <2>1. CASE o \in Stop
    <3>1. f[o] = base[o]
      BY <1>5, <2>1, Zenon DEF Meets
    <3>2. f[o] = [ok |-> o = Len(d), idx |-> << >>]
      BY <3>1
    <3>3. CASE o = Len(d)
      BY <3>2, <3>3 DEF DecStep
    <3>4. CASE o # Len(d)
      BY <2>1, <3>2, <3>4 DEF DecStep
    <3> QED  BY <3>3, <3>4
  <2>2. CASE o \notin Stop
    <3>1. <<o, f[p[o]]>> \in S \X V
      BY <1>4, <2>2
    <3>2. F[<<o, f[p[o]]>>] = [ok |-> f[p[o]].ok, idx |-> <<decodeRec(d, o).e>> \o f[p[o]].idx]
      BY <2>2, <3>1
    <3>3. f[o] = F[<<o, f[p[o]]>>]
      BY <1>5, <2>2 DEF Meets
    <3>4. p[o] = decodeRec(d, o).o /\ o # Len(d) /\ decodeRec(d, o) # Bad
      BY <2>2
    <3> HIDE DEF p, F, Stop, S
    <3> QED  BY <3>2, <3>3, <3>4, Zenon DEF DecStep
  <2> QED  BY <2>1, <2>2
<1>7. f = [o \in 0..Len(d) |-> DecStep(d, f, o)]
  BY <1>6
<1>8. PICK g : g = CHOOSE h : h = [o \in 0..Len(d) |-> DecStep(d, h, o)]
  OBVIOUS
<1>9. g = [o \in 0..Len(d) |-> DecStep(d, g, o)]
  BY <1>7, <1>8, Zenon
<1>10. decodeBatch(d) = g[0]
  BY <1>8, Zenon DEF decodeBatch, DecStep
<1> QED
  BY <1>9, <1>10, Zenon DEF Decoder
-----------------------------------------------------------------------------
(* The bytes of several records *)

\* h has the bytes of each first part of ops.
Laid(h, ops) ==
    /\ h \in [0..Len(ops) -> Seq(Byte)] /\ h[0] = << >>
    /\ \A i \in 1..Len(ops) : h[i] = h[i - 1] \o Enc(ops[i])

\* An operation is encoded in at least one byte.
LEMMA EncIs ==
    ASSUME NEW r \in Op
    PROVE  Enc(r) \in Seq(Byte) /\ Len(Enc(r)) \in Nat /\ Len(Enc(r)) >= 1
<1>1. PICK kt, key, value, u, rest : Parts(r, kt, key, value, u, rest)
  BY PartsOf, Zenon
<1>2. Enc(r) \in Seq(Byte) /\ Len(Enc(r)) = 1 + Len(u) + Len(key) + Len(rest)
      /\ Len(u) \in Nat /\ Len(key) \in Nat /\ Len(rest) \in Nat
  BY <1>1, Zenon DEF Parts
<1> QED
  BY <1>2

\* The record behind those of h[i].
LEMMA LaidNext ==
    ASSUME NEW ops \in Seq(Op), NEW h, Laid(h, ops), NEW i \in Nat, i < Len(ops)
    PROVE  /\ i \in 0..Len(ops) /\ i + 1 \in 0..Len(ops) /\ ops[i + 1] \in Op
           /\ h[i] \in Seq(Byte) /\ h[i + 1] \in Seq(Byte)
           /\ h[i + 1] = h[i] \o Enc(ops[i + 1])
           /\ Len(h[i]) \in Nat /\ Len(h[i + 1]) = Len(h[i]) + Len(Enc(ops[i + 1]))
           /\ Len(h[i]) < Len(h[i + 1])
<1>0. Len(ops) \in Nat
  BY LenProperties
<1>1. PICK j \in 1..Len(ops) : j = i + 1 /\ j - 1 = i
  BY <1>0
<1>2. PICK r \in Op : r = ops[j]
  BY ElementOfSeq
<1>3. h[j] = h[i] \o Enc(r)
  BY <1>1, <1>2 DEF Laid
<1>4. i \in 0..Len(ops) /\ j \in 0..Len(ops)
  BY <1>0
<1>5. PICK s \in Seq(Byte) : s = h[i]
  BY <1>4 DEF Laid
<1>6. PICK e \in Seq(Byte) : e = Enc(r) /\ Len(e) \in Nat /\ Len(e) >= 1
  BY EncIs
<1>7. PICK t : t = h[j]
  OBVIOUS
<1>8. t = s \o e
  BY <1>3, <1>5, <1>6, <1>7, Zenon
<1>9. Joined(Byte, t, s, e)
  BY <1>5, <1>6, <1>8, JoinedCat, Zenon
<1>10. t \in Seq(Byte) /\ Len(s) \in Nat /\ Len(t) = Len(s) + Len(e)
  BY <1>9, Zenon DEF Joined
<1>11. Len(s) < Len(t)
  BY <1>6, <1>10
<1> QED
  BY <1>1, <1>2, <1>3, <1>4, <1>5, <1>6, <1>7, <1>10, <1>11, Zenon

\* More records, more bytes.
LaidUpto(h, i, j) ==
    /\ Len(h[i]) \in Nat /\ Len(h[j]) \in Nat /\ Len(h[i]) <= Len(h[j])
    /\ h[i] \in Seq(Byte) /\ h[j] \in Seq(Byte)
    /\ i # j => Len(h[i]) < Len(h[j])
    /\ \E t \in Seq(Byte) : h[j] = h[i] \o t

\* The bytes of more operations begin with those of fewer.
LEMMA LaidMore ==
    ASSUME NEW ops \in Seq(Op), NEW h, Laid(h, ops), NEW i \in Nat, NEW j \in Nat,
           i <= j, j <= Len(ops)
    PROVE  LaidUpto(h, i, j)
<1>0. Len(ops) \in Nat
  BY LenProperties
<1> DEFINE T == {k \in Nat : i + k <= Len(ops) => LaidUpto(h, i, i + k)}
<1>1. 0 \in T
  <2>1. i \in 0..Len(ops) /\ i + 0 = i
    BY <1>0
  <2>2. PICK s \in Seq(Byte) : s = h[i]
    BY <2>1 DEF Laid
  <2>3. Len(s) \in Nat
    BY LenProperties
  <2>4. Len(s) <= Len(s)
    BY <2>3
  <2>5. s = s \o << >> /\ << >> \in Seq(Byte)
    BY EmptySeq, ConcatEmptySeq
  <2>6. \E t \in Seq(Byte) : s = s \o t
    BY <2>5, Zenon
  <2>7. LaidUpto(h, i, i)
    BY <2>2, <2>3, <2>4, <2>6, Zenon DEF LaidUpto
  <2>8. LaidUpto(h, i, i + 0)
    BY <2>1, <2>7, Zenon
  <2> QED  BY <2>8
<1>2. ASSUME NEW k \in Nat, k \in T
      PROVE  k + 1 \in T
  <2> SUFFICES ASSUME i + (k + 1) <= Len(ops) PROVE LaidUpto(h, i, i + (k + 1))
    OBVIOUS
  <2>1. PICK l \in Nat : l = i + k /\ l < Len(ops) /\ l + 1 = i + (k + 1) /\ i # l + 1
    BY <1>0
  <2>2. LaidUpto(h, i, l)
    BY <1>2, <2>1
  <2>3. PICK t \in Seq(Byte) : h[l] = h[i] \o t
    BY <2>2, Zenon DEF LaidUpto
  <2>4. PICK s : s = h[i]
    OBVIOUS
  <2>5. s \in Seq(Byte) /\ Len(s) \in Nat /\ Len(s) <= Len(h[l])
    BY <2>2, <2>4, Zenon DEF LaidUpto
  <2>6. /\ ops[l + 1] \in Op /\ h[l + 1] \in Seq(Byte) /\ h[l + 1] = h[l] \o Enc(ops[l + 1])
        /\ Len(h[l]) \in Nat /\ Len(h[l]) < Len(h[l + 1])
    BY <2>1, LaidNext, Zenon
  <2>7. PICK e \in Seq(Byte) : e = Enc(ops[l + 1])
    BY <2>6, EncIs
  <2>8. PICK v \in Seq(Byte) : v = t \o e
    BY <2>3, <2>7, ConcatProperties
  <2>9. Assoc(s, t, e)
    BY <2>3, <2>5, <2>7, AssocIs, Zenon
  <2>10. h[l + 1] = s \o v
    BY <2>3, <2>4, <2>6, <2>7, <2>8, <2>9, Zenon DEF Assoc
  <2>11. PICK a : a = Len(h[l + 1])
    OBVIOUS
  <2>12. a \in Nat
    BY <2>6, <2>11, LenProperties, Zenon
  <2>13. Len(s) < a /\ Len(s) <= a
    <3>1. PICK b, c : b = Len(s) /\ c = Len(h[l])
      OBVIOUS
    <3>2. b \in Nat /\ c \in Nat /\ b <= c /\ c < a
      BY <2>5, <2>6, <2>11, <3>1, Zenon
    <3>3. b < a /\ b <= a
      BY <2>12, <3>2
    <3> QED  BY <3>1, <3>3, Zenon
  <2>14. \E u \in Seq(Byte) : h[l + 1] = s \o u
    BY <2>8, <2>10, Zenon
  <2>15. LaidUpto(h, i, l + 1)
    BY <2>4, <2>5, <2>6, <2>11, <2>12, <2>13, <2>14, Zenon DEF LaidUpto
  <2> QED  BY <2>1, <2>15, Zenon
<1>3. Nat \subseteq T
  <2> HIDE DEF T
  <2> QED  BY <1>1, <1>2, NatSets
<1>4. PICK k \in Nat : j = i + k
  <2>1. j - i \in Nat /\ j = i + (j - i)
    OBVIOUS
  <2> QED  BY <2>1
<1>5. i + k <= Len(ops) => LaidUpto(h, i, i + k)
  BY <1>3
<1> QED
  BY <1>4, <1>5, Zenon

\* The first n bytes have the first m records, and part of another if n is more.
Holds(h, ops, n, m) ==
    /\ m \in Nat /\ m <= Len(ops) /\ Len(h[m]) <= n
    /\ m # Len(ops) => n < Len(h[m + 1])

\* A cut of the bytes of ops is behind a number m of complete operations.
LEMMA LaidCut ==
    ASSUME NEW ops \in Seq(Op), NEW h, Laid(h, ops), NEW n \in Nat, n <= Len(h[Len(ops)])
    PROVE  \E m : Holds(h, ops, n, m)
<1>0. PICK N \in Nat : N = Len(ops)
  BY LenProperties
<1>1. \A i \in 0..N : h[i] \in Seq(Byte) /\ Len(h[i]) \in Nat
  BY <1>0, LenProperties DEF Laid
<1>2. CASE Len(h[N]) <= n
  <2>1. Holds(h, ops, n, N)
    BY <1>0, <1>2 DEF Holds
  <2> QED  BY <2>1, Zenon
<1>3. CASE ~(Len(h[N]) <= n)
  <2> DEFINE K == {k \in 0..N : n < Len(h[k])}
  <2>1. N \in K
    BY <1>1, <1>3
  <2>2. PICK k \in K : \A j \in K : k <= j
    <3>1. K \in SUBSET Nat
      BY <1>0
    <3> HIDE DEF K
    <3> QED  BY <2>1, <3>1, LeastOf
  <2>3. k \in 0..N /\ n < Len(h[k])
    OBVIOUS
  <2>4. k # 0
    <3>1. Len(h[0]) = 0
      <4>1. Len(<< >>) = 0
        OBVIOUS
      <4> QED  BY <4>1, Zenon DEF Laid
    <3> QED  BY <2>3, <3>1
  <2>5. PICK m \in Nat : m \in 0..N /\ m + 1 = k /\ m < k /\ m # N
    <3>1. k - 1 \in 0..N /\ k - 1 \in Nat /\ (k - 1) + 1 = k /\ k - 1 < k /\ k - 1 # N
      BY <1>0, <2>3, <2>4
    <3> QED  BY <3>1
  <2>6. m \notin K
    BY <2>2, <2>3, <2>5
  <2>7. Len(h[m]) <= n
    BY <1>1, <2>5, <2>6
  <2>8. Holds(h, ops, n, m)
    <3>1. m <= Len(ops) /\ m # Len(ops)
      BY <1>0, <2>5
    <3>2. n < Len(h[m + 1])
      BY <2>3, <2>5
    <3> QED  BY <2>5, <2>7, <3>1, <3>2 DEF Holds
  <2> QED  BY <2>8, Zenon
<1> QED
  BY <1>2, <1>3

-----------------------------------------------------------------------------
(* Decoding the first bytes of several records *)

\* d is the first n bytes of the records of h, of which it has m.
Prefix(d, h, ops, n, m) ==
    /\ Laid(h, ops) /\ ops \in Seq(Op) /\ n \in Nat /\ n <= Len(h[Len(ops)])
    /\ d = SubSeq(h[Len(ops)], 1, n) /\ Holds(h, ops, n, m)

\* The first n bytes are n bytes.
LEMMA PrefixIs ==
    ASSUME NEW d, NEW h, NEW ops, NEW n, NEW m, Prefix(d, h, ops, n, m)
    PROVE  d \in Seq(Byte) /\ Len(d) = n
<1>1. Len(ops) \in 0..Len(ops)
  BY LenProperties DEF Prefix
<1>2. PICK s \in Seq(Byte) : s = h[Len(ops)]
  BY <1>1 DEF Prefix, Laid
<1>3. n \in 0..Len(s) /\ d = SubSeq(s, 1, n)
  BY <1>2, LenProperties DEF Prefix
<1> QED
  BY <1>3, First

\* The bytes of i records, if there are as many in d, are what d begins with.
Behind1(d, h, i, post) == post \in Seq(Byte) /\ d = h[i] \o post

\* They begin with the bytes of every operation that is complete.
LEMMA PrefixHas ==
    ASSUME NEW d, NEW h, NEW ops, NEW n, NEW m, Prefix(d, h, ops, n, m),
           NEW i \in Nat, i <= Len(ops), Len(h[i]) <= n
    PROVE  \E post : Behind1(d, h, i, post)
<1>0. PICK N \in Nat : N = Len(ops)
  BY LenProperties DEF Prefix
<1>1. i <= N /\ N <= Len(ops)
  BY <1>0
<1>2. ops \in Seq(Op) /\ Laid(h, ops)
  BY Zenon DEF Prefix
<1>3. LaidUpto(h, i, N)
  BY <1>1, <1>2, LaidMore, Zenon
<1>4. PICK t \in Seq(Byte) : h[N] = h[i] \o t
  BY <1>3, Zenon DEF LaidUpto
<1>5. PICK s : s = h[i]
  OBVIOUS
<1>6. s \in Seq(Byte) /\ Len(s) \in Nat /\ Len(s) <= n
  BY <1>3, <1>5, Zenon DEF LaidUpto
<1>7. PICK u : u = s \o t
  OBVIOUS
<1>8. Joined(Byte, u, s, t)
  BY <1>4, <1>6, <1>7, JoinedCat, Zenon
<1>9. u = h[Len(ops)]
  BY <1>0, <1>4, <1>5, <1>7, Zenon
<1>90. n \in Nat /\ n <= Len(u) /\ d = SubSeq(u, 1, n)
  BY <1>9, Zenon DEF Prefix
<1>10. PICK k \in 0..Len(t) : n = Len(s) + k
  <2>1. Len(u) = Len(s) + Len(t) /\ Len(t) \in Nat
    BY <1>8, Zenon DEF Joined
  <2>2. n - Len(s) \in 0..Len(t) /\ n = Len(s) + (n - Len(s))
    BY <1>6, <1>90, <2>1
  <2> QED  BY <2>2
<1>11. SubSeq(s \o t, 1, Len(s) + k) = s \o SubSeq(t, 1, k)
  BY <1>4, <1>6, <1>10, FirstBeyond
<1>12. PICK post : post = SubSeq(t, 1, k)
  OBVIOUS
<1>13. post \in Seq(Byte)
  BY <1>10, <1>12, First
<1>14. d = h[i] \o post
  BY <1>5, <1>7, <1>90, <1>10, <1>11, <1>12, Zenon
<1>15. Behind1(d, h, i, post)
  BY <1>13, <1>14, Zenon DEF Behind1
<1> QED
  BY <1>15, Zenon

\* the entries of the records behind the first i, up to the m-th
Ents(h, ops, i, m) == [j \in 1..(m - i) |-> Ent(Len(h[i + j - 1]), ops[i + j])]

\* The record i + 1 is decoded where it begins.
TurnAt(d, h, ops, n, m, i, o, r) ==
    /\ o \in Nat /\ o < n /\ o + Len(Enc(r)) = Len(h[i + 1])
    /\ decodeRec(d, o) = [e |-> Ent(o, r), o |-> o + Len(Enc(r))]
    /\ Describes(d, Ent(o, r), r)

\* A turn at the i-th operation decodes it and goes on to the next.
LEMMA PrefixTurn ==
    ASSUME NEW d, NEW h, NEW ops, NEW n, NEW m, Prefix(d, h, ops, n, m), NEW i \in Nat, i < m,
           NEW o, o = Len(h[i]), NEW r, r = ops[i + 1]
    PROVE  TurnAt(d, h, ops, n, m, i, o, r)
<1>0. PICK N \in Nat : N = Len(ops)
  BY LenProperties DEF Prefix
<1>1. m \in Nat /\ m <= N /\ Len(h[m]) <= n
  BY <1>0, Zenon DEF Prefix, Holds
<1>2. i < Len(ops) /\ i + 1 \in Nat /\ i + 1 <= m /\ m <= Len(ops) /\ i + 1 <= Len(ops)
  BY <1>0, <1>1
<1>3. ops \in Seq(Op) /\ Laid(h, ops) /\ n \in Nat
  BY Zenon DEF Prefix
<1>4. LaidUpto(h, i + 1, m)
  BY <1>1, <1>2, <1>3, LaidMore, Zenon
<1>5. /\ r \in Op /\ h[i] \in Seq(Byte) /\ h[i + 1] \in Seq(Byte) /\ h[i + 1] = h[i] \o Enc(r)
      /\ o \in Nat /\ Len(h[i + 1]) = o + Len(Enc(r)) /\ o < Len(h[i + 1])
  BY <1>2, <1>3, LaidNext, Zenon
<1>6. PICK a, b : a = Len(h[i + 1]) /\ b = Len(h[m])
  OBVIOUS
<1>7. a \in Nat /\ b \in Nat /\ a <= b /\ b <= n /\ o < a
  BY <1>1, <1>4, <1>5, <1>6, Zenon DEF LaidUpto
<1>8. a <= n /\ o < n
  BY <1>3, <1>5, <1>7
<1>9. \E p : Behind1(d, h, i + 1, p)
  BY <1>2, <1>6, <1>8, PrefixHas, Zenon
<1>10. PICK post : post \in Seq(Byte) /\ d = h[i + 1] \o post
  BY <1>9, Zenon DEF Behind1
<1>11. PICK pre : pre = h[i] /\ pre \in Seq(Byte)
  BY <1>5, Zenon
<1>12. PICK e : e = Enc(r) /\ e \in Seq(Byte)
  BY <1>5, EncIs, Zenon
<1>13. Assoc(pre, e, post)
  BY <1>10, <1>11, <1>12, AssocIs, Zenon
<1>14. d = pre \o (Enc(r) \o post)
  BY <1>5, <1>10, <1>11, <1>12, <1>13, Zenon DEF Assoc
<1>15. o = Len(pre)
  BY <1>11, Zenon
<1>16. Whole(d, o, r, pre, post)
  BY <1>5, <1>10, <1>11, <1>14, <1>15, WholeRecord, Zenon
<1> QED
  BY <1>5, <1>8, <1>16, Zenon DEF Whole, TurnAt

\* The record that is cut off is not decoded.
LEMMA PrefixTorn ==
    ASSUME NEW d, NEW h, NEW ops, NEW n, NEW m, Prefix(d, h, ops, n, m), NEW o, o = Len(h[m]), o # n
    PROVE  decodeRec(d, o) = Bad
<1>0. PICK N \in Nat : N = Len(ops)
  BY LenProperties DEF Prefix
<1>1. /\ m \in Nat /\ m <= N /\ o <= n /\ (m # N => n < Len(h[m + 1]))
      /\ ops \in Seq(Op) /\ Laid(h, ops) /\ n \in Nat /\ n <= Len(h[N])
  BY <1>0, Zenon DEF Prefix, Holds
<1>2. m # N
  <2> SUFFICES ASSUME m = N PROVE FALSE
    OBVIOUS
  <2>1. N <= N /\ N <= Len(ops)
    BY <1>0
  <2>2. LaidUpto(h, N, N)
    BY <1>1, <2>1, LaidMore, Zenon
  <2>3. o \in Nat /\ n <= o
    BY <1>1, <2>2, Zenon DEF LaidUpto
  <2> QED  BY <1>1, <2>3
<1>3. m < Len(ops)
  BY <1>0, <1>1, <1>2
<1>4. PICK r : r = ops[m + 1]
  OBVIOUS
<1>5. /\ r \in Op /\ h[m] \in Seq(Byte) /\ h[m + 1] \in Seq(Byte) /\ h[m + 1] = h[m] \o Enc(r)
      /\ o \in Nat /\ Len(h[m + 1]) = o + Len(Enc(r))
  BY <1>1, <1>3, <1>4, LaidNext, Zenon
<1>6. PICK pre : pre = h[m] /\ pre \in Seq(Byte)
  BY <1>5, Zenon
<1>7. PICK e : e = Enc(r) /\ e \in Seq(Byte) /\ Len(e) \in Nat
  BY <1>5, EncIs, Zenon
<1>8. PICK u : u = pre \o e
  OBVIOUS
<1>9. u = h[m + 1] /\ u \in Seq(Byte)
  BY <1>5, <1>6, <1>7, <1>8, Zenon
<1>10. PICK c \in Nat : n = o + c /\ c # 0 /\ c < Len(e) /\ c \in 0..Len(e)
  <2>1. n < o + Len(e)
    BY <1>1, <1>2, <1>5, <1>7, Zenon
  <2>2. n - o \in Nat /\ n = o + (n - o) /\ n - o # 0 /\ n - o < Len(e) /\ n - o \in 0..Len(e)
    BY <1>1, <1>5, <1>7, <2>1
  <2> QED  BY <2>2
<1>11. m + 1 \in Nat /\ m + 1 <= N /\ N <= Len(ops)
  BY <1>0, <1>1, <1>2
<1>12. LaidUpto(h, m + 1, N)
  BY <1>1, <1>11, LaidMore, Zenon
<1>13. PICK t : t \in Seq(Byte) /\ h[N] = u \o t
  BY <1>9, <1>12, Zenon DEF LaidUpto
<1>14. SubSeq(u \o t, 1, n) = SubSeq(u, 1, n)
  <2>1. n < Len(u) /\ Len(u) \in Nat
    BY <1>1, <1>2, <1>9, LenProperties
  <2>2. n \in 0..Len(u)
    BY <1>1, <2>1
  <2> QED  BY <1>9, <1>13, <2>2, FirstOf, Zenon
<1>15. SubSeq(pre \o e, 1, Len(pre) + c) = pre \o SubSeq(e, 1, c)
  BY <1>6, <1>7, <1>10, FirstBeyond
<1>16. PICK f : f = SubSeq(Enc(r), 1, c)
  OBVIOUS
<1>17. d = pre \o f
  <2>1. d = SubSeq(u \o t, 1, n)
    BY <1>0, <1>13, Zenon DEF Prefix
  <2>2. Len(pre) + c = n
    BY <1>6, <1>10, Zenon
  <2> QED  BY <1>7, <1>8, <1>14, <1>15, <1>16, <2>1, <2>2, Zenon
<1>18. decodeRec(d, Len(pre)) = Bad
  BY <1>5, <1>6, <1>7, <1>10, <1>16, <1>17, TornRecord, Zenon
<1> QED
  BY <1>6, <1>18, Zenon

\* es are the entries of the records behind the first i, in order
EntsOf(es, d, h, ops, i, m) ==
    /\ es \in Seq(Entry) /\ Len(es) = m - i
    /\ \A j \in 1..(m - i) : /\ es[j] = Ent(Len(h[i + j - 1]), ops[i + j])
                             /\ Describes(d, es[j], ops[i + j])

\* Ents are the entries of the operations from i to m.
LEMMA EntsIs ==
    ASSUME NEW d, NEW h, NEW ops, NEW n, NEW m, Prefix(d, h, ops, n, m), NEW i \in Nat, i <= m,
           NEW es, es = Ents(h, ops, i, m)
    PROVE  EntsOf(es, d, h, ops, i, m)
<1>0. m \in Nat
  BY Zenon DEF Prefix, Holds
<1>1. PICK k \in Nat : k = m - i
  BY <1>0
<1>2. ASSUME NEW j \in 1..k
      PROVE  /\ Ent(Len(h[i + j - 1]), ops[i + j]) \in Entry
             /\ Describes(d, Ent(Len(h[i + j - 1]), ops[i + j]), ops[i + j])
  <2>1. PICK l \in Nat : l = i + j - 1 /\ l < m /\ l + 1 = i + j
    BY <1>0, <1>1
  <2>2. PICK o, r : o = Len(h[l]) /\ r = ops[l + 1]
    OBVIOUS
  <2>30. TurnAt(d, h, ops, n, m, l, o, r)
    BY <2>1, <2>2, PrefixTurn, Zenon
  <2>3. Describes(d, Ent(o, r), r)
    BY <2>30, Zenon DEF TurnAt
  <2>4. Ent(o, r) \in Entry
    BY <2>3, Zenon DEF Describes
  <2> QED  BY <2>1, <2>2, <2>3, <2>4, Zenon
<1>3. es = [j \in 1..k |-> Ent(Len(h[i + j - 1]), ops[i + j])]
  BY <1>1, Zenon DEF Ents
<1>4. \A j \in 1..k : es[j] = Ent(Len(h[i + j - 1]), ops[i + j])
  BY <1>3, Zenon
<1>5. es \in [1..k -> Entry]
  BY <1>2, <1>3
<1>6. es \in Seq(Entry) /\ Len(es) = k
  BY <1>5
<1>7. \A j \in 1..k : Describes(d, es[j], ops[i + j])
  BY <1>2, <1>4, Zenon
<1> QED
  BY <1>1, <1>4, <1>6, <1>7, Zenon DEF EntsOf

\* e is the first of them.
EntsFrom(d, h, ops, n, m, i, e) == Ents(h, ops, i, m) = <<e>> \o Ents(h, ops, i + 1, m)

\* The first of them, and the others.
LEMMA EntsStep ==
    ASSUME NEW d, NEW h, NEW ops, NEW n, NEW m, Prefix(d, h, ops, n, m), NEW i \in Nat, i < m,
           NEW e, e = Ent(Len(h[i]), ops[i + 1])
    PROVE  EntsFrom(d, h, ops, n, m, i, e)
<1>0. m \in Nat
  BY Zenon DEF Prefix, Holds
<1>1. PICK es, fs : es = Ents(h, ops, i, m) /\ fs = Ents(h, ops, i + 1, m)
  OBVIOUS
<1>2. PICK k \in Nat : k = m - (i + 1) /\ m - i = k + 1
  BY <1>0
<1>3. i <= m /\ i + 1 \in Nat /\ i + 1 <= m
  BY <1>0
<1>4. EntsOf(es, d, h, ops, i, m)
  BY <1>1, <1>3, EntsIs, Zenon
<1>5. EntsOf(fs, d, h, ops, i + 1, m)
  BY <1>1, <1>3, EntsIs, Zenon
<1>6. /\ es \in Seq(Entry) /\ Len(es) = k + 1
      /\ \A j \in 1..(k + 1) : es[j] = Ent(Len(h[i + j - 1]), ops[i + j])
  BY <1>2, <1>4, Zenon DEF EntsOf
<1>7. /\ fs \in Seq(Entry) /\ Len(fs) = k
      /\ \A j \in 1..k : fs[j] = Ent(Len(h[i + 1 + j - 1]), ops[i + 1 + j])
  BY <1>2, <1>5, Zenon DEF EntsOf
<1>8. es[1] = e
  <2>1. 1 \in 1..(k + 1) /\ i + 1 - 1 = i
    OBVIOUS
  <2>2. es[1] = Ent(Len(h[i + 1 - 1]), ops[i + 1])
    BY <1>6, <2>1, Zenon
  <2> QED  BY <2>1, <2>2, Zenon
<1>9. ASSUME NEW j \in 1..k
      PROVE  es[1 + j] = fs[j]
  <2>1. PICK l \in 1..(k + 1) : l = 1 + j /\ i + l - 1 = i + 1 + j - 1 /\ i + l = i + 1 + j
    OBVIOUS
  <2>2. es[l] = Ent(Len(h[i + l - 1]), ops[i + l])
    BY <1>6, <2>1, Zenon
  <2>3. fs[j] = Ent(Len(h[i + 1 + j - 1]), ops[i + 1 + j])
    BY <1>7, Zenon
  <2> QED  BY <2>1, <2>2, <2>3, Zenon
<1>10. e \in Entry
  <2>1. 1 \in 1..Len(es)
    BY <1>6
  <2> QED  BY <1>6, <1>8, <2>1, ElementOfSeq
<1>11. PICK g : g = <<e>> \o fs
  OBVIOUS
<1>12. <<e>> \in Seq(Entry) /\ Len(<<e>>) = 1 /\ <<e>>[1] = e
  BY <1>10
<1>13. Joined(Entry, g, <<e>>, fs)
  BY <1>7, <1>11, <1>12, JoinedCat, Zenon
<1>14. g \in Seq(Entry) /\ Len(g) = 1 + k /\ g[1] = e
  BY <1>7, <1>12, <1>13 DEF Joined
<1>15. \A j \in 1..k : g[1 + j] = fs[j]
  BY <1>7, <1>12, <1>13, Zenon DEF Joined
<1>16. ASSUME NEW j \in 1..(k + 1)
       PROVE  es[j] = g[j]
  <2>1. CASE j = 1
    BY <1>8, <1>14, <2>1, Zenon
  <2>2. CASE j # 1
    <3>1. PICK l \in 1..k : j = 1 + l
      <4>1. j - 1 \in 1..k /\ j = 1 + (j - 1)
        BY <2>2
      <4> QED  BY <4>1
    <3> QED  BY <1>9, <1>15, <3>1, Zenon
  <2> QED  BY <2>1, <2>2
<1>17. es = g
  <2>1. Len(g) = k + 1
    BY <1>14
  <2> QED  BY <1>6, <1>14, <1>16, <2>1, SeqEqual
<1> QED
  BY <1>1, <1>11, <1>17, Zenon DEF EntsFrom

DecodesAs(d, h, ops, n, m) ==
    decodeBatch(d) = [ok |-> n = Len(h[m]), idx |-> Ents(h, ops, 0, m)]

(***************************************************************************)
(* The first bytes of several records decode as those that are complete,   *)
(* and without error if there is nothing behind them (decodeBatch).        *)
(***************************************************************************)
LEMMA PrefixDecoded ==
    ASSUME NEW d, NEW h, NEW ops, NEW n, NEW m, Prefix(d, h, ops, n, m)
    PROVE  DecodesAs(d, h, ops, n, m)
<1>0. d \in Seq(Byte) /\ Len(d) = n
  BY PrefixIs
<1>1. PICK f : Decoder(d, f) /\ decodeBatch(d) = f[0]
  BY <1>0, DecodeIs, Zenon
<1>2. ASSUME NEW o \in 0..n PROVE f[o] = DecStep(d, f, o)
  BY <1>0, <1>1, <1>2, Zenon DEF Decoder
<1>3. /\ m \in Nat /\ m <= Len(ops) /\ Len(h[m]) <= n /\ n \in Nat
      /\ ops \in Seq(Op) /\ Laid(h, ops)
  BY Zenon DEF Prefix, Holds
<1>30. m <= m
  BY <1>3
<1>31. LaidUpto(h, m, m)
  BY <1>3, <1>30, LaidMore, Zenon
<1>32. Len(h[m]) \in Nat
  BY <1>31, Zenon DEF LaidUpto
<1>4. PICK z : z = (n = Len(h[m]))
  OBVIOUS
<1> DEFINE At(i) == f[Len(h[i])] = [ok |-> z, idx |-> Ents(h, ops, i, m)]
           T == {k \in Nat : k <= m => At(m - k)}
<1>5. At(m)
  <2>1. PICK o : o = Len(h[m])
    OBVIOUS
  <2>2. o \in 0..n
    BY <1>3, <1>32, <2>1
  <2>3. f[o] = DecStep(d, f, o)
    BY <1>2, <2>2
  <2>4. Ents(h, ops, m, m) = << >>
    <3>1. PICK es : es = Ents(h, ops, m, m)
      OBVIOUS
    <3>2. EntsOf(es, d, h, ops, m, m)
      BY <1>3, <1>30, <3>1, EntsIs, Zenon
    <3>3. es \in Seq(Entry) /\ Len(es) = m - m
      BY <3>2, Zenon DEF EntsOf
    <3>4. Len(es) = 0
      BY <1>3, <3>3
    <3>5. es = << >>
      BY <3>3, <3>4, EmptySeq
    <3> QED  BY <3>1, <3>5, Zenon
  <2>5. CASE o = n
    <3>1. f[o] = [ok |-> TRUE, idx |-> << >>]
      BY <1>0, <2>3, <2>5, Zenon DEF DecStep
    <3>2. z = TRUE
      BY <1>4, <2>1, <2>5, Zenon
    <3> QED  BY <2>1, <2>4, <3>1, <3>2, Zenon
  <2>6. CASE o # n
    <3>1. decodeRec(d, o) = Bad
      BY <2>1, <2>6, PrefixTorn, Zenon
    <3>2. f[o] = [ok |-> FALSE, idx |-> << >>]
      BY <1>0, <2>3, <2>6, <3>1, Zenon DEF DecStep
    <3>3. z = FALSE
      BY <1>4, <2>1, <2>6, Zenon
    <3> QED  BY <2>1, <2>4, <3>2, <3>3, Zenon
  <2> QED  BY <2>5, <2>6
<1>6. ASSUME NEW i \in Nat, i < m, At(i + 1)
      PROVE  At(i)
  <2>1. PICK o, r : o = Len(h[i]) /\ r = ops[i + 1]
    OBVIOUS
  <2>20. TurnAt(d, h, ops, n, m, i, o, r)
    BY <1>6, <2>1, PrefixTurn, Zenon
  <2>2. /\ o \in Nat /\ o < n /\ o + Len(Enc(r)) = Len(h[i + 1])
        /\ decodeRec(d, o) = [e |-> Ent(o, r), o |-> o + Len(Enc(r))]
    BY <2>20, Zenon DEF TurnAt
  <2>3. o \in 0..n /\ o # n
    BY <1>3, <2>2
  <2>4. f[o] = DecStep(d, f, o)
    BY <1>2, <2>3
  <2>5. PICK e, q : e = Ent(o, r) /\ q = Len(h[i + 1])
    OBVIOUS
  <2>6. decodeRec(d, o) = [e |-> e, o |-> q]
    BY <2>2, <2>5, Zenon
  <2>7. decodeRec(d, o).e = e /\ decodeRec(d, o).o = q
    BY <2>6
  <2>8. decodeRec(d, o) # Bad
    <3>1. i + 1 \in Nat /\ i + 1 <= m
      BY <1>3, <1>6
    <3>2. LaidUpto(h, i + 1, m)
      BY <1>3, <3>1, LaidMore, Zenon
    <3>3. q \in Nat
      BY <2>5, <3>2, Zenon DEF LaidUpto
    <3> QED  BY <2>6, <3>3, NotBad, Zenon
  <2>9. f[o] = [ok |-> f[q].ok, idx |-> <<e>> \o f[q].idx]
    BY <1>0, <2>3, <2>4, <2>7, <2>8, Zenon DEF DecStep
  <2>10. f[q] = [ok |-> z, idx |-> Ents(h, ops, i + 1, m)]
    BY <1>6, <2>5, Zenon
  <2>11. f[q].ok = z /\ f[q].idx = Ents(h, ops, i + 1, m)
    BY <2>10
  <2>12. Ents(h, ops, i, m) = <<e>> \o Ents(h, ops, i + 1, m)
    <3>1. e = Ent(Len(h[i]), ops[i + 1])
      BY <2>1, <2>5, Zenon
    <3>2. EntsFrom(d, h, ops, n, m, i, e)
      BY <1>6, <3>1, EntsStep, Zenon
    <3> QED  BY <3>2, Zenon DEF EntsFrom
  <2> QED  BY <2>1, <2>9, <2>11, <2>12, Zenon
<1> HIDE DEF At
<1>7. 0 \in T
  <2>1. m - 0 = m
    BY <1>3
  <2>2. At(m - 0)
    BY <1>5, <2>1, Zenon
  <2> QED  BY <2>2
<1>8. ASSUME NEW k \in Nat, k \in T
      PROVE  k + 1 \in T
  <2> SUFFICES ASSUME k + 1 <= m PROVE At(m - (k + 1))
    OBVIOUS
  <2>1. PICK i \in Nat : i = m - (k + 1) /\ i < m /\ i + 1 = m - k /\ k <= m
    BY <1>3
  <2>2. At(m - k)
    BY <1>8, <2>1
  <2>3. At(i)
    BY <1>6, <2>1, <2>2, Zenon
  <2> QED  BY <2>1, <2>3, Zenon
<1>9. Nat \subseteq T
  <2> HIDE DEF T
  <2> QED  BY <1>7, <1>8, NatSets
<1>10. At(0)
  <2>1. m - m = 0
    BY <1>3
  <2>2. At(m - m)
    BY <1>3, <1>9, <1>30
  <2> QED  BY <2>1, <2>2, Zenon
<1>11. Len(h[0]) = 0
  <2>1. Len(<< >>) = 0
    OBVIOUS
  <2> QED  BY <1>3, <2>1, Zenon DEF Laid
<1> QED
  BY <1>1, <1>4, <1>10, <1>11, Zenon DEF At, DecodesAs

(***************************************************************************)
(* The bytes of the first m records, put together.                         *)
(***************************************************************************)
LEMMA FlatIs ==
    ASSUME NEW ops \in Seq(Op), NEW h, Laid(h, ops), NEW m \in Nat, m <= Len(ops)
    PROVE  Bytes(ops, m) = h[m]
<1> SUFFICES FlattenSeq([i \in 1..m |-> encode(ops[i][1], ops[i][2], ops[i][3])]) = h[m]
  BY Zenon DEF Bytes
<1>0. PICK s : s = [i \in 1..m |-> encode(ops[i][1], ops[i][2], ops[i][3])]
  OBVIOUS
<1>1. \A i \in 1..m : s[i] = Enc(ops[i])
  BY <1>0, Zenon DEF Enc
<1>2. ASSUME NEW i \in 1..m
      PROVE  Enc(ops[i]) \in Seq(Byte) /\ h[i] = h[i - 1] \o Enc(ops[i])
  <2>1. i \in 1..Len(ops)
    BY LenProperties
  <2>2. ops[i] \in Op
    BY <2>1, ElementOfSeq
  <2> QED  BY <2>1, <2>2, EncIs DEF Laid
<1>3. s \in [1..m -> Seq(Byte)]
  BY <1>0, <1>2 DEF Enc
<1>4. s \in Seq(Seq(Byte)) /\ Len(s) = m
  BY <1>3
<1>5. CASE m = 0
  <2>1. s = << >>
    BY <1>4, <1>5, EmptySeq
  <2>2. FlattenSeq(s) = s
    BY <1>4, <1>5, Zenon DEF FlattenSeq
  <2>3. h[0] = << >>
    BY Zenon DEF Laid
  <2> QED  BY <1>0, <1>5, <2>1, <2>2, <2>3, Zenon
<1>6. CASE m # 0
  <2> DEFINE step(f, i) == IF i = 1 THEN s[i] ELSE f[i - 1] \o s[i]
             f0 == [i \in 1..Len(s) |-> h[i]]
  <2>1. ASSUME NEW i \in 1..m PROVE h[i] = IF i = 1 THEN s[i] ELSE h[i - 1] \o s[i]
    <3>1. CASE i = 1
      <4>1. h[0] = << >> /\ Enc(ops[1]) \in Seq(Byte) /\ i - 1 = 0
        BY <1>2, <3>1 DEF Laid
      <4>2. h[1] = << >> \o Enc(ops[1])
        BY <1>2, <3>1, <4>1, Zenon
      <4>3. << >> \o Enc(ops[1]) = Enc(ops[1])
        BY <4>1, ConcatEmptySeq
      <4> QED  BY <1>1, <3>1, <4>2, <4>3, Zenon
    <3>2. CASE i # 1
      BY <1>1, <1>2, <3>2, Zenon
    <3> QED  BY <3>1, <3>2
  <2>2. f0 = [i \in 1..Len(s) |-> step(f0, i)]
    <3>1. ASSUME NEW i \in 1..Len(s) PROVE h[i] = step(f0, i)
      <4>1. CASE i = 1
        BY <1>4, <2>1, <4>1
      <4>2. CASE i # 1
        <5>1. i - 1 \in 1..Len(s)
          BY <1>4, <4>2
        <5>2. f0[i - 1] = h[i - 1]
          BY <5>1
        <5> HIDE DEF f0
        <5> QED  BY <1>4, <2>1, <4>2, <5>2
      <4> QED  BY <4>1, <4>2
    <3> QED  BY <3>1
  <2>3. PICK g : g = CHOOSE f : f = [i \in 1..Len(s) |-> step(f, i)]
    OBVIOUS
  <2>4. g = [i \in 1..Len(s) |-> step(g, i)]
    <3> HIDE DEF f0, step
    <3> QED  BY <2>2, <2>3, Zenon
  <2>5. FlattenSeq(s) = g[m]
    BY <1>4, <1>6, <2>3, Zenon DEF FlattenSeq
  <2>6. \A i \in 1..m : g[i] = IF i = 1 THEN s[i] ELSE g[i - 1] \o s[i]
    BY <1>4, <2>4, Zenon
  <2> DEFINE T == {k \in Nat : k + 1 <= m => g[k + 1] = h[k + 1]}
  <2>7. 0 \in T
    <3>1. 0 + 1 = 1 /\ 1 \in 1..m
      BY <1>6
    <3>2. g[1] = h[1]
      BY <2>1, <2>6, <3>1, Zenon
    <3>3. g[0 + 1] = h[0 + 1]
      BY <3>1, <3>2, Zenon
    <3> QED  BY <3>3
  <2>8. ASSUME NEW k \in Nat, k \in T
        PROVE  k + 1 \in T
    <3> SUFFICES ASSUME (k + 1) + 1 <= m PROVE g[(k + 1) + 1] = h[(k + 1) + 1]
      OBVIOUS
    <3>1. PICK i \in 1..m : i = (k + 1) + 1 /\ i - 1 = k + 1 /\ i # 1
      OBVIOUS
    <3>2. g[k + 1] = h[k + 1]
      BY <2>8
    <3>3. g[i] = g[i - 1] \o s[i] /\ h[i] = h[i - 1] \o s[i]
      BY <2>1, <2>6, <3>1, Zenon
    <3> QED  BY <3>1, <3>2, <3>3, Zenon
  <2>9. Nat \subseteq T
    <3> HIDE DEF T
    <3> QED  BY <2>7, <2>8, NatSets
  <2>10. PICK k \in Nat : k + 1 = m /\ k + 1 <= m
    <3>1. m - 1 \in Nat /\ (m - 1) + 1 = m /\ (m - 1) + 1 <= m
      BY <1>6
    <3> QED  BY <3>1
  <2>11. g[m] = h[m]
    BY <2>9, <2>10
  <2> QED  BY <1>0, <2>5, <2>11, Zenon
<1> QED
  BY <1>5, <1>6

-----------------------------------------------------------------------------
(* The internal length *)

\* s has the internal length of each first part of idx.
Sums(s, idx) ==
    /\ s \in [0..Len(idx) -> Nat] /\ s[0] = 0
    /\ \A i \in 1..Len(idx) : s[i] = s[i - 1] + idx[i].keyLen + idx[i].valueLen + KeyOverhead

\* InternalLen is a running sum over the index.
LEMMA SumIs ==
    ASSUME NEW idx \in Seq(Entry)
    PROVE  \E s : Sums(s, idx) /\ InternalLen(idx) = s[Len(idx)]
<1> DEFINE S == 0..Len(idx)
           Stop == {0}
           base == [i \in S |-> 0]
           p == [i \in S |-> i - 1]
           F == [y \in S \X Nat |-> IF y[1] = 0 THEN 0
                                    ELSE y[2] + idx[y[1]].keyLen + idx[y[1]].valueLen + KeyOverhead]
           m == [i \in S |-> i]
           step(f, i) == IF i = 0 THEN 0 ELSE f[i - 1] + idx[i].keyLen + idx[i].valueLen + KeyOverhead
<1>0. Len(idx) \in Nat /\ KeyOverhead \in Nat
  BY LenProperties, BatchAssumption
<1>1. \A i \in S : i # 0 => idx[i].keyLen \in Nat /\ idx[i].valueLen \in Nat
  <2> SUFFICES ASSUME NEW i \in S, i # 0 PROVE idx[i].keyLen \in Nat /\ idx[i].valueLen \in Nat
    OBVIOUS
  <2>1. i \in 1..Len(idx)
    BY <1>0
  <2>2. idx[i] \in Entry
    BY <2>1, ElementOfSeq
  <2> QED  BY <2>2 DEF Entry
<1>2. base \in [S -> Nat] /\ m \in [S -> Nat]
  BY <1>0
<1>3. F \in [S \X Nat -> Nat]
  <2> SUFFICES ASSUME NEW i \in S, NEW x \in Nat, i # 0
               PROVE  x + idx[i].keyLen + idx[i].valueLen + KeyOverhead \in Nat
    OBVIOUS
  <2> QED  BY <1>0, <1>1
<1>4. \A i \in S : i \notin Stop => p[i] \in S /\ m[p[i]] < m[i]
  BY <1>0
<1>5. PICK f \in [S -> Nat] : \A i \in S : Meets(f, i, Stop, base, p, F)
  <2> HIDE DEF base, p, F, m, S, Stop
  <2> QED  BY <1>2, <1>3, <1>4, Recursion, Zenon
<1>6. ASSUME NEW i \in S
      PROVE  f[i] = step(f, i)
  <2>1. CASE i = 0
    BY <1>5, <2>1 DEF Meets
  <2>2. CASE i # 0
    <3>1. p[i] = i - 1 /\ i - 1 \in S
      BY <1>0, <2>2
    <3>2. <<i, f[i - 1]>> \in S \X Nat
      BY <3>1
    <3>3. F[<<i, f[i - 1]>>] = f[i - 1] + idx[i].keyLen + idx[i].valueLen + KeyOverhead
      BY <2>2, <3>2
    <3>4. f[i] = F[<<i, f[i - 1]>>]
      BY <1>5, <2>2, <3>1 DEF Meets
    <3> QED  BY <2>2, <3>3, <3>4
  <2> QED  BY <2>1, <2>2
<1>7. f = [i \in 0..Len(idx) |-> step(f, i)]
  BY <1>6
<1>8. PICK g : g = CHOOSE h : h = [i \in 0..Len(idx) |-> step(h, i)]
  OBVIOUS
<1>9. g = [i \in 0..Len(idx) |-> step(g, i)]
  BY <1>7, <1>8, Zenon
<1>10. InternalLen(idx) = g[Len(idx)]
  BY <1>8, Zenon DEF InternalLen
<1>11. \A i \in 0..Len(idx) : g[i] = step(g, i)
  BY <1>9, Zenon
<1>12. g[0] = 0
  BY <1>0, <1>11
<1>13. ASSUME NEW i \in 1..Len(idx)
       PROVE  g[i] = g[i - 1] + idx[i].keyLen + idx[i].valueLen + KeyOverhead
  <2>1. i \in 0..Len(idx) /\ i # 0
    BY <1>0
  <2> QED  BY <1>11, <2>1, Zenon
<1>14. \A i \in 0..Len(idx) : g[i] \in Nat
  <2> DEFINE T == {k \in Nat : k <= Len(idx) => g[k] \in Nat}
  <2>1. 0 \in T
    BY <1>12
  <2>2. ASSUME NEW k \in Nat, k \in T PROVE k + 1 \in T
    <3> SUFFICES ASSUME k + 1 <= Len(idx) PROVE g[k + 1] \in Nat
      OBVIOUS
    <3>1. PICK i \in 1..Len(idx) : i = k + 1 /\ i - 1 = k /\ i \in S /\ i # 0
      BY <1>0
    <3>2. g[k] \in Nat
      BY <1>0, <2>2
    <3>3. idx[i].keyLen \in Nat /\ idx[i].valueLen \in Nat
      BY <1>1, <3>1
    <3>4. g[i] = g[k] + idx[i].keyLen + idx[i].valueLen + KeyOverhead
      BY <1>13, <3>1, Zenon
    <3>5. g[i] \in Nat
      BY <1>0, <3>2, <3>3, <3>4
    <3> QED  BY <3>1, <3>5, Zenon
  <2>3. Nat \subseteq T
    <3> HIDE DEF T
    <3> QED  BY <2>1, <2>2, NatSets
  <2> QED  BY <1>0, <2>3
<1>15. g \in [0..Len(idx) -> Nat]
  <2>1. g = [i \in 0..Len(idx) |-> g[i]]
    BY <1>9, Zenon
  <2> QED  BY <1>14, <2>1, Zenon
<1>16. Sums(g, idx)
  BY <1>12, <1>13, <1>15 DEF Sums
<1> QED
  BY <1>10, <1>16, Zenon

\* The entries of kdx measure the same as those of idx and then those of jdx.
SameSizes(kdx, idx, jdx) ==
    /\ Len(kdx) = Len(idx) + Len(jdx)
    /\ \A i \in 1..Len(idx) : kdx[i].keyLen = idx[i].keyLen /\ kdx[i].valueLen = idx[i].valueLen
    /\ \A i \in 1..Len(jdx) : /\ kdx[Len(idx) + i].keyLen = jdx[i].keyLen
                              /\ kdx[Len(idx) + i].valueLen = jdx[i].valueLen

\* The internal length of two indexes together is the sum of theirs.
LEMMA SumCat ==
    ASSUME NEW idx \in Seq(Entry), NEW jdx \in Seq(Entry), NEW kdx \in Seq(Entry), SameSizes(kdx, idx, jdx)
    PROVE  InternalLen(kdx) = InternalLen(idx) + InternalLen(jdx)
<1>1. PICK s : Sums(s, idx) /\ InternalLen(idx) = s[Len(idx)]
  BY SumIs, Zenon
<1>2. PICK t : Sums(t, jdx) /\ InternalLen(jdx) = t[Len(jdx)]
  BY SumIs, Zenon
<1>3. PICK u : Sums(u, kdx) /\ InternalLen(kdx) = u[Len(kdx)]
  BY SumIs, Zenon
<1>4. PICK a \in Nat : a = Len(idx)
  BY LenProperties
<1>5. PICK b \in Nat : b = Len(jdx)
  BY LenProperties
<1>6. Len(kdx) = a + b
  BY <1>4, <1>5, Zenon DEF SameSizes
<1>7. KeyOverhead \in Nat
  BY BatchAssumption
<1>8. /\ \A i \in 1..a : idx[i].keyLen \in Nat /\ idx[i].valueLen \in Nat
      /\ \A i \in 1..b : jdx[i].keyLen \in Nat /\ jdx[i].valueLen \in Nat
  <2>1. \A i \in 1..a : idx[i] \in Entry
    BY <1>4, ElementOfSeq
  <2>2. \A i \in 1..b : jdx[i] \in Entry
    BY <1>5, ElementOfSeq
  <2> QED  BY <2>1, <2>2 DEF Entry
<1>9. /\ \A i \in 0..a : s[i] \in Nat
      /\ \A i \in 0..b : t[i] \in Nat
      /\ s[0] = 0 /\ t[0] = 0 /\ u[0] = 0
  BY <1>1, <1>2, <1>3, <1>4, <1>5 DEF Sums
<1>10. \A i \in 1..a : s[i] = s[i - 1] + idx[i].keyLen + idx[i].valueLen + KeyOverhead
  BY <1>1, <1>4, Zenon DEF Sums
<1>11. \A i \in 1..b : t[i] = t[i - 1] + jdx[i].keyLen + jdx[i].valueLen + KeyOverhead
  BY <1>2, <1>5, Zenon DEF Sums
<1>12. \A i \in 1..(a + b) : u[i] = u[i - 1] + kdx[i].keyLen + kdx[i].valueLen + KeyOverhead
  BY <1>3, <1>6, Zenon DEF Sums
<1>13. \A i \in 1..a : kdx[i].keyLen = idx[i].keyLen /\ kdx[i].valueLen = idx[i].valueLen
  BY <1>4, Zenon DEF SameSizes
<1>14. \A i \in 1..b : kdx[a + i].keyLen = jdx[i].keyLen /\ kdx[a + i].valueLen = jdx[i].valueLen
  BY <1>4, <1>5, Zenon DEF SameSizes
<1>15. \A i \in 0..a : u[i] = s[i]
  <2> DEFINE T == {k \in Nat : k <= a => u[k] = s[k]}
  <2>1. 0 \in T
    BY <1>9
  <2>2. ASSUME NEW k \in Nat, k \in T PROVE k + 1 \in T
    <3> SUFFICES ASSUME k + 1 <= a PROVE u[k + 1] = s[k + 1]
      OBVIOUS
    <3>1. PICK i \in 1..a : i = k + 1 /\ i - 1 = k /\ i \in 1..(a + b)
      OBVIOUS
    <3>2. u[k] = s[k]
      BY <2>2
    <3>3. u[i] = u[k] + idx[i].keyLen + idx[i].valueLen + KeyOverhead
      BY <1>12, <1>13, <3>1, Zenon
    <3>4. s[i] = s[k] + idx[i].keyLen + idx[i].valueLen + KeyOverhead
      BY <1>10, <3>1, Zenon
    <3> QED  BY <3>1, <3>2, <3>3, <3>4, Zenon
  <2>3. Nat \subseteq T
    <3> HIDE DEF T
    <3> QED  BY <2>1, <2>2, NatSets
  <2> QED  BY <2>3
<1>16. \A i \in 0..b : u[a + i] = s[a] + t[i]
  <2> DEFINE T == {k \in Nat : k <= b => u[a + k] = s[a] + t[k]}
  <2>1. 0 \in T
    <3>1. a + 0 = a /\ a \in 0..a /\ s[a] \in Nat
      BY <1>9
    <3>2. u[a + 0] = s[a] + t[0]
      BY <1>9, <1>15, <3>1
    <3> QED  BY <3>2
  <2>2. ASSUME NEW k \in Nat, k \in T PROVE k + 1 \in T
    <3> SUFFICES ASSUME k + 1 <= b PROVE u[a + (k + 1)] = s[a] + t[k + 1]
      OBVIOUS
    <3>1. PICK i \in 1..b : i = k + 1 /\ i - 1 = k
      OBVIOUS
    <3>2. PICK j \in 1..(a + b) : j = a + i /\ j - 1 = a + k /\ j = a + (k + 1)
      BY <3>1
    <3>3. u[a + k] = s[a] + t[k]
      BY <2>2
    <3>4. PICK x, y : x = jdx[i].keyLen /\ y = jdx[i].valueLen
      OBVIOUS
    <3>5. u[j] = u[a + k] + x + y + KeyOverhead
      BY <1>12, <1>14, <3>1, <3>2, <3>4, Zenon
    <3>6. t[i] = t[k] + x + y + KeyOverhead
      BY <1>11, <3>1, <3>4, Zenon
    <3>7. x \in Nat /\ y \in Nat /\ s[a] \in Nat /\ t[k] \in Nat
      BY <1>8, <1>9, <3>4
    <3>8. u[j] = s[a] + t[i]
      <4>1. PICK c, v : c = s[a] /\ v = t[k]
        OBVIOUS
      <4>2. c \in Nat /\ v \in Nat
        BY <3>7, <4>1, Zenon
      <4>3. u[j] = ((c + v) + x) + y + KeyOverhead /\ t[i] = v + x + y + KeyOverhead
        BY <3>3, <3>5, <3>6, <4>1, Zenon
      <4>4. ((c + v) + x) + y + KeyOverhead = c + (v + x + y + KeyOverhead)
        BY <1>7, <3>7, <4>2
      <4> QED  BY <4>1, <4>3, <4>4, Zenon
    <3> QED  BY <3>1, <3>2, <3>8, Zenon
  <2>3. Nat \subseteq T
    <3> HIDE DEF T
    <3> QED  BY <2>1, <2>2, NatSets
  <2> QED  BY <2>3
<1>17. u[a + b] = s[a] + t[b]
  BY <1>16
<1> QED
  BY <1>1, <1>2, <1>3, <1>4, <1>5, <1>6, <1>17, Zenon

\* The internal length is a number.
LEMMA SumNat ==
    ASSUME NEW idx \in Seq(Entry)
    PROVE  InternalLen(idx) \in Nat
<1>1. PICK s : Sums(s, idx) /\ InternalLen(idx) = s[Len(idx)]
  BY SumIs, Zenon
<1>2. Len(idx) \in 0..Len(idx)
  BY LenProperties
<1> QED
  BY <1>1, <1>2 DEF Sums

\* The internal length of the empty index.
LEMMA SumNone == InternalLen(<< >>) = 0
<1>1. << >> \in Seq(Entry) /\ Len(<< >>) = 0
  BY EmptySeq
<1>2. PICK s : Sums(s, << >>) /\ InternalLen(<< >>) = s[Len(<< >>)]
  BY <1>1, SumIs, Zenon
<1> QED
  BY <1>1, <1>2, Zenon DEF Sums

\* The internal length of one entry.
LEMMA SumOne ==
    ASSUME NEW e \in Entry
    PROVE  InternalLen(<<e>>) = e.keyLen + e.valueLen + KeyOverhead
<1>0. <<e>> \in Seq(Entry) /\ Len(<<e>>) = 1 /\ <<e>>[1] = e
  OBVIOUS
<1>1. PICK q : q = <<e>> /\ q \in Seq(Entry) /\ Len(q) = 1 /\ q[1] = e
  BY <1>0, Zenon
<1>2. PICK s : Sums(s, q) /\ InternalLen(q) = s[Len(q)]
  BY <1>1, SumIs, Zenon
<1>3. s[1] = s[0] + q[1].keyLen + q[1].valueLen + KeyOverhead /\ s[0] = 0
  <2>1. 1 \in 1..Len(q) /\ 1 - 1 = 0
    BY <1>1
  <2> QED  BY <1>2, <2>1, Zenon DEF Sums
<1>4. e.keyLen \in Nat /\ e.valueLen \in Nat /\ KeyOverhead \in Nat
  BY BatchAssumption DEF Entry
<1>5. s[1] = e.keyLen + e.valueLen + KeyOverhead
  BY <1>1, <1>3, <1>4
<1> QED
  BY <1>1, <1>2, <1>5, Zenon

-----------------------------------------------------------------------------
(* Entries of a longer batch *)

\* What is at p of d is at p of d \o t, what is at p of t at q of d \o t.
SliceOfFirst(d, t, u, p, l) == Slice(u, p, l) = Slice(d, p, l)
SliceOfSecond(d, t, u, p, l, q) == Slice(u, q, l) = Slice(t, p, l)

\* A slice of d is found in d \o t where it was.
LEMMA SliceFirst ==
    ASSUME NEW d \in Seq(Byte), NEW t \in Seq(Byte), NEW u, u = d \o t,
           NEW p \in Nat, NEW l \in Nat, p + l <= Len(d)
    PROVE  SliceOfFirst(d, t, u, p, l)
<1>1. Joined(Byte, u, d, t)
  BY JoinedCat, Zenon
<1>2. PICK k \in Nat : k = p + l /\ p <= k /\ k - p = l /\ k <= Len(d)
  OBVIOUS
<1>3. u \in Seq(Byte) /\ k <= Len(u)
  BY <1>1, <1>2 DEF Joined
<1>30. PartOf(Byte, u, p, k)
  BY <1>2, <1>3, Part, Zenon
<1>31. PartOf(Byte, d, p, k)
  BY <1>2, Part, Zenon
<1>4. PICK a, b : a = SubSeq(u, p + 1, k) /\ b = SubSeq(d, p + 1, k)
  OBVIOUS
<1>5. a \in Seq(Byte) /\ Len(a) = l /\ \A i \in 1..l : a[i] = u[p + i]
  <2>1. /\ SubSeq(u, p + 1, k) \in Seq(Byte) /\ Len(SubSeq(u, p + 1, k)) = k - p
        /\ \A i \in 1..(k - p) : SubSeq(u, p + 1, k)[i] = u[p + i]
    BY <1>30, Zenon DEF PartOf
  <2> QED  BY <1>2, <1>4, <2>1, Zenon
<1>6. b \in Seq(Byte) /\ Len(b) = l /\ \A i \in 1..l : b[i] = d[p + i]
  <2>1. /\ SubSeq(d, p + 1, k) \in Seq(Byte) /\ Len(SubSeq(d, p + 1, k)) = k - p
        /\ \A i \in 1..(k - p) : SubSeq(d, p + 1, k)[i] = d[p + i]
    BY <1>31, Zenon DEF PartOf
  <2> QED  BY <1>2, <1>4, <2>1, Zenon
<1>7. ASSUME NEW i \in 1..l PROVE a[i] = b[i]
  <2>1. PICK j \in 1..Len(d) : j = p + i
    BY LenProperties
  <2>2. u[j] = d[j]
    BY <1>1, <2>1 DEF Joined
  <2> QED  BY <1>5, <1>6, <2>1, <2>2, Zenon
<1>8. a = b
  BY <1>5, <1>6, <1>7, SeqEqual
<1> QED
  BY <1>2, <1>4, <1>8, Zenon DEF Slice, SliceOfFirst

\* A slice of t is found in d \o t behind d.
LEMMA SliceSecond ==
    ASSUME NEW d \in Seq(Byte), NEW t \in Seq(Byte), NEW u, u = d \o t,
           NEW p \in Nat, NEW l \in Nat, p + l <= Len(t), NEW q, q = p + Len(d)
    PROVE  SliceOfSecond(d, t, u, p, l, q)
<1>1. Joined(Byte, u, d, t)
  BY JoinedCat, Zenon
<1>2. PICK k \in Nat : k = p + l /\ p <= k /\ k - p = l /\ k <= Len(t)
  OBVIOUS
<1>3. PICK m \in Nat : m = q + l /\ q \in Nat /\ q <= m /\ m - q = l /\ m <= Len(u) /\ u \in Seq(Byte)
  <2>1. u \in Seq(Byte) /\ Len(d) \in Nat /\ Len(t) \in Nat /\ Len(u) = Len(d) + Len(t)
    BY <1>1, Zenon DEF Joined
  <2>2. q \in Nat /\ q + l \in Nat /\ q <= q + l /\ (q + l) - q = l /\ q + l <= Len(u)
    BY <1>2, <2>1
  <2> QED  BY <2>1, <2>2, Zenon
<1>30. PartOf(Byte, u, q, m)
  BY <1>3, Part, Zenon
<1>31. PartOf(Byte, t, p, k)
  BY <1>2, Part, Zenon
<1>4. PICK a, b : a = SubSeq(u, q + 1, m) /\ b = SubSeq(t, p + 1, k)
  OBVIOUS
<1>5. a \in Seq(Byte) /\ Len(a) = l /\ \A i \in 1..l : a[i] = u[q + i]
  <2>1. /\ SubSeq(u, q + 1, m) \in Seq(Byte) /\ Len(SubSeq(u, q + 1, m)) = m - q
        /\ \A i \in 1..(m - q) : SubSeq(u, q + 1, m)[i] = u[q + i]
    BY <1>30, Zenon DEF PartOf
  <2> QED  BY <1>3, <1>4, <2>1, Zenon
<1>6. b \in Seq(Byte) /\ Len(b) = l /\ \A i \in 1..l : b[i] = t[p + i]
  <2>1. /\ SubSeq(t, p + 1, k) \in Seq(Byte) /\ Len(SubSeq(t, p + 1, k)) = k - p
        /\ \A i \in 1..(k - p) : SubSeq(t, p + 1, k)[i] = t[p + i]
    BY <1>31, Zenon DEF PartOf
  <2> QED  BY <1>2, <1>4, <2>1, Zenon
<1>7. ASSUME NEW i \in 1..l PROVE a[i] = b[i]
  <2>1. PICK j \in 1..Len(t) : j = p + i
    BY LenProperties
  <2>2. u[Len(d) + j] = t[j]
    BY <1>1 DEF Joined
  <2>3. Len(d) + j = q + i
    BY <1>1, <2>1 DEF Joined
  <2> QED  BY <1>5, <1>6, <2>1, <2>2, <2>3, Zenon
<1>8. a = b
  BY <1>5, <1>6, <1>7, SeqEqual
<1> QED
  BY <1>2, <1>3, <1>4, <1>8, Zenon DEF Slice, SliceOfSecond

\* What e describes in d is still there when t is appended to d.
LEMMA DescribesMore ==
    ASSUME NEW d \in Seq(Byte), NEW t \in Seq(Byte), NEW u, u = d \o t, NEW e, NEW r, Describes(d, e, r)
    PROVE  Describes(u, e, r)
<1>1. Joined(Byte, u, d, t)
  BY JoinedCat, Zenon
<1>2. e \in Entry
  BY Zenon DEF Describes
<1>3. PICK kp \in Nat, kl \in Nat, vp \in Nat, vl \in Nat :
          kp = e.keyPos /\ kl = e.keyLen /\ vp = e.valuePos /\ vl = e.valueLen
  BY <1>2 DEF Entry
<1>4. kp + kl <= Len(d) /\ (vl # 0 => vp + vl <= Len(d))
  BY <1>3, Zenon DEF Describes
<1>5. kp + kl <= Len(u) /\ (vl # 0 => vp + vl <= Len(u))
  BY <1>1, <1>4 DEF Joined
<1>6. Slice(u, kp, kl) = Slice(d, kp, kl)
  <2>1. SliceOfFirst(d, t, u, kp, kl)
    BY <1>4, SliceFirst, Zenon
  <2> QED  BY <2>1, Zenon DEF SliceOfFirst
<1>7. Slice(u, vp, vl) = Slice(d, vp, vl)
  <2>1. CASE vl = 0
    BY <2>1, SliceNone
  <2>2. CASE vl # 0
    <3>1. SliceOfFirst(d, t, u, vp, vl)
      BY <1>4, <2>2, SliceFirst, Zenon
    <3> QED  BY <3>1, Zenon DEF SliceOfFirst
  <2> QED  BY <2>1, <2>2
<1>8. kv(u, e) = kv(d, e)
  BY <1>3, <1>6, <1>7, Zenon DEF kv
<1> QED
  BY <1>2, <1>3, <1>5, <1>8, Zenon DEF Describes

\* In u, which is d and t, f describes what e describes in t.
ShiftedAs(d, t, u, e, r, f) ==
    Describes(u, f, r) /\ f.keyLen = e.keyLen /\ f.valueLen = e.valueLen

\* What e describes in t is found by the shifted entry when t is appended to d.
LEMMA DescribesShift ==
    ASSUME NEW d \in Seq(Byte), NEW t \in Seq(Byte), NEW u, u = d \o t, NEW e, NEW r, Describes(t, e, r),
           NEW f, f = Shift(e, Len(d))
    PROVE  ShiftedAs(d, t, u, e, r, f)
<1>1. Joined(Byte, u, d, t)
  BY JoinedCat, Zenon
<1>2. e \in Entry
  BY Zenon DEF Describes
<1>3. PICK kt \in Nat, kp \in Nat, kl \in Nat, vp \in Nat, vl \in Nat :
          kt = e.keyType /\ kp = e.keyPos /\ kl = e.keyLen /\ vp = e.valuePos /\ vl = e.valueLen
  BY <1>2 DEF Entry
<1>4. kp + kl <= Len(t) /\ (vl # 0 => vp + vl <= Len(t))
  BY <1>3, Zenon DEF Describes
<1>5. PICK n \in Nat : n = Len(d)
  BY LenProperties
<1>6. PICK kq \in Nat : kq = kp + n
  BY <1>5
<1>7. PICK vq \in Nat : vq = IF vl # 0 THEN vp + n ELSE vp
  <2>1. (IF vl # 0 THEN vp + n ELSE vp) \in Nat
    BY <1>5
  <2> QED  BY <2>1, Zenon
<1>8. f = EntryOf(kt, kq, kl, vq, vl)
  <2>1. e = EntryOf(kt, kp, kl, vp, vl)
    BY <1>2, <1>3 DEF Entry, EntryOf
  <2>2. f = [e EXCEPT !.keyPos = kp + n, !.valuePos = IF vl # 0 THEN vp + n ELSE vp]
    BY <1>3, <1>5 DEF Shift
  <2> QED  BY <1>6, <1>7, <2>1, <2>2 DEF EntryOf
<1>9. /\ f.keyType = kt /\ f.keyPos = kq /\ f.keyLen = kl /\ f.valuePos = vq /\ f.valueLen = vl
      /\ f \in Entry
  BY <1>8 DEF EntryOf, Entry
<1>10. Len(u) = n + Len(t) /\ Len(t) \in Nat
  BY <1>1, <1>5, Zenon DEF Joined
<1>11. kq + kl <= Len(u) /\ (vl # 0 => vq + vl <= Len(u))
  BY <1>4, <1>5, <1>6, <1>7, <1>10
<1>12. Slice(u, kq, kl) = Slice(t, kp, kl)
  <2>1. kq = kp + Len(d)
    BY <1>5, <1>6, Zenon
  <2>2. SliceOfSecond(d, t, u, kp, kl, kq)
    BY <1>4, <2>1, SliceSecond, Zenon
  <2> QED  BY <2>2, Zenon DEF SliceOfSecond
<1>13. Slice(u, vq, vl) = Slice(t, vp, vl)
  <2>1. CASE vl = 0
    BY <2>1, SliceNone
  <2>2. CASE vl # 0
    <3>1. vq = vp + Len(d) /\ vp + vl <= Len(t)
      BY <1>4, <1>5, <1>7, <2>2, Zenon
    <3>2. SliceOfSecond(d, t, u, vp, vl, vq)
      BY <3>1, SliceSecond, Zenon
    <3> QED  BY <3>2, Zenon DEF SliceOfSecond
  <2> QED  BY <2>1, <2>2
<1>14. kv(u, f) = kv(t, e)
  BY <1>3, <1>9, <1>12, <1>13, Zenon DEF kv
<1>15. Describes(u, f, r)
  BY <1>9, <1>11, <1>14, Zenon DEF Describes
<1> QED
  BY <1>3, <1>9, <1>15, Zenon DEF ShiftedAs

-----------------------------------------------------------------------------
(* The contents of a batch *)

\* A batch with the bytes d and the index idx, of the internal length n, holds
\* the operations ops.
Good(d, idx, n, ops) ==
    /\ d \in Seq(Byte) /\ idx \in Seq(Entry) /\ ops \in Seq(Op) /\ Len(idx) = Len(ops)
    /\ n = InternalLen(idx)
    /\ \A i \in 1..Len(idx) : Describes(d, idx[i], ops[i])

\* d are the bytes of ops, and nothing else.
Made(d, ops) == \E h : Laid(h, ops) /\ d = h[Len(ops)]

\* The index jdx, of the operations os, is added to idx.
Added(d, jdx, os) ==
    /\ jdx \in Seq(Entry) /\ os \in Seq(Op) /\ Len(jdx) = Len(os)
    /\ \A i \in 1..Len(jdx) : Describes(d, jdx[i], os[i])

\* A batch to which records and their entries are added holds those too.
LEMMA GoodMore ==
    ASSUME NEW d, NEW idx, NEW n, NEW ops, Good(d, idx, n, ops), NEW t \in Seq(Byte), NEW u, u = d \o t,
           NEW jdx, NEW os, Added(u, jdx, os), NEW kdx, kdx = idx \o jdx, NEW qs, qs = ops \o os,
           NEW l, l = n + InternalLen(jdx)
    PROVE  Good(u, kdx, l, qs)
<1>1. /\ d \in Seq(Byte) /\ idx \in Seq(Entry) /\ ops \in Seq(Op) /\ Len(idx) = Len(ops)
      /\ n = InternalLen(idx) /\ \A i \in 1..Len(idx) : Describes(d, idx[i], ops[i])
  BY Zenon DEF Good
<1>2. /\ jdx \in Seq(Entry) /\ os \in Seq(Op) /\ Len(jdx) = Len(os)
      /\ \A i \in 1..Len(jdx) : Describes(u, jdx[i], os[i])
  BY Zenon DEF Added
<1>3. Joined(Entry, kdx, idx, jdx)
  BY <1>1, <1>2, JoinedCat, Zenon
<1>4. Joined(Op, qs, ops, os)
  BY <1>1, <1>2, JoinedCat, Zenon
<1>5. Joined(Byte, u, d, t)
  BY <1>1, JoinedCat, Zenon
<1>6. u \in Seq(Byte) /\ kdx \in Seq(Entry) /\ qs \in Seq(Op)
  BY <1>3, <1>4, <1>5, Zenon DEF Joined
<1>7. PICK a \in Nat, b \in Nat : a = Len(idx) /\ b = Len(jdx)
  BY <1>3 DEF Joined
<1>8. Len(kdx) = a + b /\ Len(qs) = a + b
  BY <1>1, <1>2, <1>3, <1>4, <1>7, Zenon DEF Joined
<1>9. /\ \A i \in 1..a : kdx[i] = idx[i] /\ qs[i] = ops[i]
      /\ \A i \in 1..b : kdx[a + i] = jdx[i] /\ qs[a + i] = os[i]
  BY <1>1, <1>2, <1>3, <1>4, <1>7, Zenon DEF Joined
<1>10. ASSUME NEW i \in 1..(a + b)
       PROVE  Describes(u, kdx[i], qs[i])
  <2>1. CASE i <= a
    <3>1. i \in 1..a
      BY <2>1
    <3>2. Describes(d, idx[i], ops[i])
      BY <1>1, <1>7, <3>1, Zenon
    <3>3. PICK e, r : e = idx[i] /\ r = ops[i]
      OBVIOUS
    <3>4. Describes(u, e, r)
      BY <1>1, <3>2, <3>3, DescribesMore, Zenon
    <3> QED  BY <1>9, <3>1, <3>3, <3>4, Zenon
  <2>2. CASE ~(i <= a)
    <3>1. PICK j \in 1..b : i = a + j
      <4>1. i - a \in 1..b /\ i = a + (i - a)
        BY <2>2
      <4> QED  BY <4>1
    <3> QED  BY <1>2, <1>7, <1>9, <3>1, Zenon
  <2> QED  BY <2>1, <2>2
<1>11. SameSizes(kdx, idx, jdx)
  BY <1>7, <1>8, <1>9, Zenon DEF SameSizes
<1>12. InternalLen(kdx) = InternalLen(idx) + InternalLen(jdx)
  BY <1>1, <1>2, <1>6, <1>11, SumCat, Zenon
<1> QED
  BY <1>1, <1>6, <1>8, <1>10, <1>12, Zenon DEF Good

\* The bytes of ops and then those of os.
LEMMA MadeCat ==
    ASSUME NEW d, NEW ops \in Seq(Op), Made(d, ops), NEW t, NEW os \in Seq(Op), Made(t, os),
           NEW u, u = d \o t, NEW qs, qs = ops \o os
    PROVE  Made(u, qs)
<1>1. PICK h : Laid(h, ops) /\ d = h[Len(ops)]
  BY Zenon DEF Made
<1>2. PICK g : Laid(g, os) /\ t = g[Len(os)]
  BY Zenon DEF Made
<1>3. Joined(Op, qs, ops, os)
  BY JoinedCat, Zenon
<1>4. PICK a \in Nat, b \in Nat : a = Len(ops) /\ b = Len(os)
  BY <1>3 DEF Joined
<1>5. /\ qs \in Seq(Op) /\ Len(qs) = a + b
      /\ \A i \in 1..a : qs[i] = ops[i]
      /\ \A i \in 1..b : qs[a + i] = os[i]
  BY <1>3, <1>4, Zenon DEF Joined
<1>6. /\ \A i \in 0..a : h[i] \in Seq(Byte)
      /\ \A i \in 0..b : g[i] \in Seq(Byte)
      /\ h[0] = << >> /\ g[0] = << >>
  BY <1>1, <1>2, <1>4 DEF Laid
<1>7. /\ \A i \in 1..a : h[i] = h[i - 1] \o Enc(ops[i])
      /\ \A i \in 1..b : g[i] = g[i - 1] \o Enc(os[i])
  BY <1>1, <1>2, <1>4, Zenon DEF Laid
<1>8. d \in Seq(Byte) /\ d = h[a]
  BY <1>1, <1>4, <1>6
<1> DEFINE k == [i \in 0..(a + b) |-> IF i <= a THEN h[i] ELSE d \o g[i - a]]
<1>9. ASSUME NEW i \in 0..b
      PROVE  k[a + i] = d \o g[i] /\ d \o g[i] \in Seq(Byte)
  <2>0. g[i] \in Seq(Byte)
    BY <1>6
  <2>1. d \o g[i] \in Seq(Byte)
    BY <1>8, <2>0, ConcatProperties
  <2>2. CASE i = 0
    <3>1. k[a] = h[a] /\ a + i = a
      BY <2>2
    <3>2. d \o << >> = d
      BY <1>8, ConcatEmptySeq
    <3> HIDE DEF k
    <3> QED  BY <1>6, <1>8, <2>1, <2>2, <3>1, <3>2, Zenon
  <2>3. CASE i # 0
    <3>1. PICK j \in 0..(a + b) : j = a + i /\ ~(j <= a) /\ j - a = i
      BY <2>3
    <3>2. k[j] = d \o g[j - a]
      BY <3>1
    <3> HIDE DEF k
    <3> QED  BY <2>1, <3>1, <3>2, Zenon
  <2> QED  BY <2>2, <2>3
<1>10. ASSUME NEW i \in 0..a PROVE k[i] = h[i]
  <2>1. i \in 0..(a + b) /\ i <= a
    OBVIOUS
  <2> QED  BY <2>1
<1>11. k \in [0..(a + b) -> Seq(Byte)]
  <2> SUFFICES ASSUME NEW i \in 0..(a + b) PROVE k[i] \in Seq(Byte)
    BY Zenon
  <2>1. CASE i <= a
    <3>1. i \in 0..a
      BY <2>1
    <3> HIDE DEF k
    <3> QED  BY <1>6, <1>10, <3>1
  <2>2. CASE ~(i <= a)
    <3>1. PICK j \in 0..b : i = a + j
      <4>1. i - a \in 0..b /\ i = a + (i - a)
        BY <2>2
      <4> QED  BY <4>1
    <3> HIDE DEF k
    <3> QED  BY <1>9, <3>1, Zenon
  <2> QED  BY <2>1, <2>2
<1> HIDE DEF k
<1>12. ASSUME NEW i \in 1..(a + b)
       PROVE  k[i] = k[i - 1] \o Enc(qs[i])
  <2>1. CASE i <= a
    <3>1. i \in 1..a /\ i \in 0..a /\ i - 1 \in 0..a
      BY <2>1
    <3> QED  BY <1>5, <1>7, <1>10, <3>1, Zenon
  <2>2. CASE ~(i <= a)
    <3>1. PICK j \in 1..b : i = a + j
      <4>1. i - a \in 1..b /\ i = a + (i - a)
        BY <2>2
      <4> QED  BY <4>1
    <3>2. PICK l \in 0..b : l = j - 1 /\ i - 1 = a + l /\ j \in 0..b
      BY <3>1
    <3>3. k[i] = d \o g[j] /\ k[i - 1] = d \o g[l] /\ g[l] \in Seq(Byte)
      BY <1>6, <1>9, <3>1, <3>2, Zenon
    <3>4. g[j] = g[l] \o Enc(os[j])
      BY <1>7, <3>1, <3>2, Zenon
    <3>5. PICK e : e = Enc(os[j])
      OBVIOUS
    <3>6. e \in Seq(Byte)
      <4>1. os[j] \in Op
        BY <1>4, <3>1, ElementOfSeq
      <4> QED  BY <3>5, <4>1, EncIs
    <3>7. PICK v : v = g[l] /\ v \in Seq(Byte)
      BY <3>3, Zenon
    <3>8. Assoc(d, v, e)
      BY <1>8, <3>6, <3>7, AssocIs, Zenon
    <3>9. qs[i] = os[j]
      BY <1>5, <3>1, Zenon
    <3> QED  BY <3>3, <3>4, <3>5, <3>7, <3>8, <3>9, Zenon DEF Assoc
  <2> QED  BY <2>1, <2>2
<1>13. k[0] = << >>
  <2>1. 0 \in 0..a
    OBVIOUS
  <2> QED  BY <1>6, <1>10, <2>1, Zenon
<1>14. Laid(k, qs)
  BY <1>5, <1>11, <1>12, <1>13, Zenon DEF Laid
<1>15. u = k[Len(qs)]
  <2>1. b \in 0..b
    OBVIOUS
  <2> QED  BY <1>2, <1>4, <1>5, <1>9, <2>1, Zenon
<1> QED
  BY <1>14, <1>15, Zenon DEF Made

\* The batch of no operations.
LEMMA MadeNone == Made(<< >>, << >>) /\ Good(<< >>, << >>, 0, << >>)
<1>1. << >> \in Seq(Byte) /\ << >> \in Seq(Entry) /\ << >> \in Seq(Op) /\ Len(<< >>) = 0
  BY EmptySeq
<1>2. PICK h : h = [i \in 0..0 |-> << >>]
  OBVIOUS
<1>3. h \in [0..0 -> Seq(Byte)] /\ h[0] = << >>
  BY <1>1, <1>2
<1>4. \A i \in 1..0 : FALSE
  OBVIOUS
<1>5. Laid(h, << >>)
  BY <1>1, <1>3, <1>4, Zenon DEF Laid
<1>6. Made(<< >>, << >>)
  BY <1>1, <1>3, <1>5, Zenon DEF Made
<1>7. Good(<< >>, << >>, 0, << >>)
  BY <1>1, <1>4, SumNone, Zenon DEF Good
<1> QED
  BY <1>6, <1>7

\* The bytes of one operation.
LEMMA MadeOne ==
    ASSUME NEW r \in Op
    PROVE  Made(Enc(r), <<r>>)
<1>1. <<r>> \in Seq(Op) /\ Len(<<r>>) = 1 /\ <<r>>[1] = r
  OBVIOUS
<1>2. PICK e \in Seq(Byte) : e = Enc(r)
  BY EncIs
<1>3. << >> \in Seq(Byte) /\ << >> \o e = e
  BY <1>2, EmptySeq, ConcatEmptySeq
<1>4. PICK h : h = [i \in 0..1 |-> IF i = 0 THEN << >> ELSE e]
  OBVIOUS
<1>5. h \in [0..1 -> Seq(Byte)] /\ h[0] = << >> /\ h[1] = e
  BY <1>2, <1>3, <1>4
<1>6. ASSUME NEW i \in 1..1
      PROVE  h[i] = h[i - 1] \o Enc(<<r>>[i])
  <2>1. i = 1 /\ i - 1 = 0
    OBVIOUS
  <2> QED  BY <1>1, <1>2, <1>3, <1>5, <2>1, Zenon
<1>7. Laid(h, <<r>>)
  BY <1>1, <1>5, <1>6, Zenon DEF Laid
<1> QED
  BY <1>1, <1>2, <1>5, <1>7, Zenon DEF Made

\* The bytes of the first operations.
LEMMA MadeFirst ==
    ASSUME NEW ops \in Seq(Op), NEW h, Laid(h, ops), NEW m \in Nat, m <= Len(ops),
           NEW fs, fs = SubSeq(ops, 1, m)
    PROVE  Made(h[m], fs)
<1>0. PICK N \in Nat : N = Len(ops)
  BY LenProperties
<1>1. m \in 0..Len(ops)
  BY <1>0
<1>2. Begins(Op, fs, ops, m)
  BY <1>1, BeginsFirst, Zenon
<1>3. Len(fs) = m /\ \A i \in 1..m : fs[i] = ops[i]
  BY <1>2, Zenon DEF Begins
<1>4. PICK g : g = [i \in 0..m |-> h[i]]
  OBVIOUS
<1>5. \A i \in 0..m : g[i] = h[i]
  BY <1>4, Zenon
<1>6. \A i \in 0..m : h[i] \in Seq(Byte)
  BY <1>0 DEF Laid
<1>7. g \in [0..m -> Seq(Byte)]
  BY <1>4, <1>6, Zenon
<1>8. ASSUME NEW i \in 1..m
      PROVE  g[i] = g[i - 1] \o Enc(fs[i])
  <2>1. i \in 1..Len(ops) /\ i \in 0..m /\ i - 1 \in 0..m
    BY <1>0
  <2>2. h[i] = h[i - 1] \o Enc(ops[i])
    BY <2>1, Zenon DEF Laid
  <2> QED  BY <1>3, <1>5, <2>1, <2>2, Zenon
<1>9. 0 \in 0..m /\ m \in 0..m
  OBVIOUS
<1>10. g[0] = << >>
  BY <1>5, <1>9, Zenon DEF Laid
<1>11. Laid(g, fs)
  BY <1>3, <1>7, <1>8, <1>10, Zenon DEF Laid
<1>12. h[m] = g[Len(fs)]
  BY <1>3, <1>5, <1>9, Zenon
<1> QED
  BY <1>11, <1>12, Zenon DEF Made

\* What is loaded from the first n of the bytes of ops.
Loaded(bytes, ops, n, d, r) ==
    /\ r.ok \in BOOLEAN
    /\ Good(d, r.idx, InternalLen(r.idx), SubSeq(ops, 1, Len(r.idx)))
    /\ r.ok => Made(d, SubSeq(ops, 1, Len(r.idx)))
    /\ Loads(d, r, ops)
    /\ n = Len(bytes) => Len(r.idx) = Len(ops)

(***************************************************************************)
(* Load gets the complete records, and what it says of the others is right *)
(* (decode, decodeBatch).                                                  *)
(***************************************************************************)
LEMMA LoadIs ==
    ASSUME NEW ops \in Seq(Op), NEW bytes, Made(bytes, ops), NEW n \in 0..Len(bytes),
           NEW d, d = SubSeq(bytes, 1, n), NEW r, r = decodeBatch(d)
    PROVE  Loaded(bytes, ops, n, d, r)
<1>0. PICK N \in Nat : N = Len(ops)
  BY LenProperties
<1>1. PICK h : Laid(h, ops) /\ bytes = h[Len(ops)]
  BY Zenon DEF Made
<1>2. bytes \in Seq(Byte) /\ Len(bytes) \in Nat
  BY <1>0, <1>1, LenProperties DEF Laid
<1>3. n \in Nat /\ n <= Len(bytes)
  BY <1>2
<1>4. n <= Len(h[Len(ops)]) /\ d = SubSeq(h[Len(ops)], 1, n)
  BY <1>1, <1>3, Zenon
<1>5. PICK m : Holds(h, ops, n, m)
  BY <1>1, <1>3, <1>4, LaidCut, Zenon
<1>6. Prefix(d, h, ops, n, m)
  BY <1>1, <1>3, <1>4, <1>5, Zenon DEF Prefix
<1>7. d \in Seq(Byte) /\ Len(d) = n
  BY <1>6, PrefixIs, Zenon
<1>8. m \in Nat /\ m <= Len(ops) /\ Len(h[m]) <= n /\ (m # Len(ops) => n < Len(h[m + 1]))
  BY <1>5, Zenon DEF Holds
<1>9. PICK es : es = Ents(h, ops, 0, m)
  OBVIOUS
<1>10. PICK z : z = (n = Len(h[m])) /\ z \in BOOLEAN
  OBVIOUS
<1>11. decodeBatch(d) = [ok |-> n = Len(h[m]), idx |-> Ents(h, ops, 0, m)]
  <2>1. DecodesAs(d, h, ops, n, m)
    BY <1>6, PrefixDecoded, Zenon
  <2> QED  BY <2>1, Zenon DEF DecodesAs
<1>12. r = [ok |-> z, idx |-> es]
  BY <1>9, <1>10, <1>11, Zenon
<1>13. r.ok = z /\ r.idx = es
  BY <1>12
<1>14. 0 \in Nat /\ 0 <= m /\ m - 0 = m
  BY <1>8
<1>15. EntsOf(es, d, h, ops, 0, m)
  BY <1>6, <1>9, <1>14, EntsIs, Zenon
<1>16. /\ es \in Seq(Entry) /\ Len(es) = m
       /\ \A j \in 1..m : Describes(d, es[j], ops[0 + j])
  BY <1>14, <1>15, Zenon DEF EntsOf
<1>17. PICK fs : fs = SubSeq(ops, 1, m)
  OBVIOUS
<1>18. Begins(Op, fs, ops, m)
  <2>1. m \in 0..Len(ops)
    BY <1>0, <1>8
  <2> QED  BY <1>17, <2>1, BeginsFirst, Zenon
<1>19. fs \in Seq(Op) /\ Len(fs) = m /\ \A j \in 1..m : fs[j] = ops[j]
  BY <1>18, Zenon DEF Begins
<1>20. ASSUME NEW j \in 1..m
       PROVE  Describes(d, es[j], fs[j])
  <2>1. 0 + j = j
    OBVIOUS
  <2> QED  BY <1>16, <1>19, <2>1, Zenon
<1>21. Good(d, es, InternalLen(es), fs)
  BY <1>7, <1>16, <1>19, <1>20, Zenon DEF Good
<1>22. z = TRUE => d = h[m]
  <2> SUFFICES ASSUME z = TRUE PROVE d = h[m]
    OBVIOUS
  <2>1. n = Len(h[m])
    BY <1>10
  <2>2. \E p : Behind1(d, h, m, p)
    BY <1>6, <1>8, PrefixHas, Zenon
  <2>3. PICK p : p \in Seq(Byte) /\ d = h[m] \o p
    BY <2>2, Zenon DEF Behind1
  <2>4. PICK s : s = h[m] /\ s \in Seq(Byte)
    <3>1. m \in 0..Len(ops)
      BY <1>0, <1>8
    <3> QED  BY <1>1, <3>1 DEF Laid
  <2>5. d = s \o p
    BY <2>3, <2>4, Zenon
  <2>6. Joined(Byte, d, s, p)
    BY <2>3, <2>4, <2>5, JoinedCat, Zenon
  <2>7. Len(p) \in Nat /\ Len(s) \in Nat /\ Len(d) = Len(s) + Len(p) /\ Len(d) = Len(s)
    BY <1>7, <2>1, <2>4, <2>6, Zenon DEF Joined
  <2>8. Len(p) = 0
    BY <2>7
  <2>9. p = << >>
    BY <2>3, <2>8, EmptySeq
  <2>10. s \o << >> = s
    BY <2>4, ConcatEmptySeq
  <2> QED  BY <2>4, <2>5, <2>9, <2>10, Zenon
<1>23. z = TRUE => Made(d, fs)
  <2>1. Made(h[m], fs)
    BY <1>1, <1>8, <1>17, MadeFirst, Zenon
  <2> QED  BY <1>22, <2>1, Zenon
<1>24. ASSUME NEW k \in 0..N
       PROVE  Bytes(ops, k) = h[k] /\ (Len(h[k]) <= n <=> k <= m) /\ (d = h[k] => z = TRUE)
  <2>1. k \in Nat /\ k <= Len(ops)
    BY <1>0
  <2>2. Bytes(ops, k) = h[k]
    BY <1>1, <2>1, FlatIs, Zenon
  <2>3. PICK a, c, g : a = Len(h[k]) /\ c = Len(h[m]) /\ g = Len(h[m + 1])
    OBVIOUS
  <2>4. n \in Nat /\ c <= n
    BY <1>3, <1>8, <2>3, Zenon
  <2>5. ASSUME k <= m PROVE a \in Nat /\ c \in Nat /\ a <= c /\ (k # m => a < c)
    <3>1. LaidUpto(h, k, m)
      BY <1>1, <1>8, <2>1, <2>5, LaidMore, Zenon
    <3> QED  BY <2>3, <3>1, Zenon DEF LaidUpto
  <2>6. ASSUME ~(k <= m) PROVE a \in Nat /\ g \in Nat /\ n < g /\ g <= a
    <3>1. m + 1 \in Nat /\ m + 1 <= k /\ m # Len(ops)
      BY <1>0, <1>8, <2>6
    <3>2. LaidUpto(h, m + 1, k)
      BY <1>1, <2>1, <3>1, LaidMore, Zenon
    <3> QED  BY <1>8, <2>3, <3>1, <3>2, Zenon DEF LaidUpto
  <2>7. a <= n <=> k <= m
    BY <2>4, <2>5, <2>6
  <2>8. ASSUME d = h[k] PROVE z = TRUE
    <3>1. a = n
      BY <1>7, <2>3, <2>8, Zenon
    <3>2. k <= m
      BY <2>4, <2>7, <3>1
    <3>3. a <= c /\ c \in Nat /\ (k # m => a < c)
      BY <2>5, <3>2, Zenon
    <3>4. k = m
      BY <2>4, <3>1, <3>3
    <3> QED  BY <1>10, <2>3, <3>1, <3>4, Zenon
  <2> QED  BY <2>2, <2>3, <2>7, <2>8, Zenon
<1>25. z <=> \E k \in 0..Len(ops) : d = Bytes(ops, k)
  <2>1. ASSUME z = TRUE
        PROVE  \E k \in 0..Len(ops) : d = Bytes(ops, k)
    <3>1. m \in 0..N
      BY <1>0, <1>8
    <3>2. d = Bytes(ops, m)
      BY <1>22, <1>24, <2>1, <3>1, Zenon
    <3> QED  BY <1>0, <3>1, <3>2, Zenon
  <2>2. ASSUME NEW k \in 0..Len(ops), d = Bytes(ops, k)
        PROVE  z = TRUE
    BY <1>0, <1>24, <2>2, Zenon
  <2> QED  BY <1>10, <2>1, <2>2, Zenon
<1>26. [i \in 1..Len(es) |-> kv(d, es[i])] = fs
  <2>1. ASSUME NEW i \in 1..m PROVE kv(d, es[i]) = fs[i]
    BY <1>20, Zenon DEF Describes
  <2>2. fs = [i \in 1..m |-> fs[i]]
    BY <1>19
  <2>3. [i \in 1..m |-> kv(d, es[i])] = [i \in 1..m |-> fs[i]]
    BY <2>1, Zenon
  <2> QED  BY <1>16, <2>2, <2>3, Zenon
<1>260. \A k \in 0..Len(ops) : Len(Bytes(ops, k)) <= Len(d) <=> k <= Len(es)
  BY <1>0, <1>7, <1>16, <1>24, Zenon
<1>27. Loads(d, r, ops)
  BY <1>13, <1>16, <1>17, <1>25, <1>26, <1>260, Zenon DEF Loads
<1>28. n = Len(bytes) => m = Len(ops)
  <2> SUFFICES ASSUME n = Len(bytes), m # Len(ops) PROVE FALSE
    OBVIOUS
  <2>1. m + 1 \in Nat /\ m + 1 <= N /\ N <= Len(ops)
    BY <1>0, <1>8
  <2>2. LaidUpto(h, m + 1, N)
    BY <1>1, <2>1, LaidMore, Zenon
  <2>3. Len(h[m + 1]) <= Len(h[N]) /\ Len(h[m + 1]) \in Nat
    BY <2>2, Zenon DEF LaidUpto
  <2>4. Len(h[N]) = n /\ n < Len(h[m + 1])
    BY <1>0, <1>1, <1>8, Zenon
  <2> QED  BY <1>3, <2>3, <2>4
<1> QED
  BY <1>10, <1>13, <1>16, <1>17, <1>21, <1>23, <1>27, <1>28, Zenon DEF Loaded

-----------------------------------------------------------------------------
(* Batches *)

\* the batches by themselves
BatchSafety == BatchInit /\ [][BatchNext]_batchVars

(***************************************************************************)
(* Each batch describes its operations, and the bytes of one with nothing  *)
(* that a Load could not read are those of its operations: the inductive   *)
(* invariant.                                                              *)
(***************************************************************************)
BatchKnown ==
    /\ data \in [Batches -> Seq(Byte)] /\ index \in [Batches -> Seq(Entry)]
    /\ ilen \in [Batches -> Nat] /\ recs \in [Batches -> Seq(Op)] /\ broken \in [Batches -> Nat]
    /\ \A b \in Batches : Good(data[b], index[b], ilen[b], recs[b])
    /\ \A b \in Batches : broken[b] = 0 => Made(data[b], recs[b])

\* A step that gives b new contents keeps the invariant if they are right.
LEMMA SetKeeps ==
    ASSUME BatchKnown, NEW b \in Batches, NEW d, NEW idx, NEW n, NEW ops, NEW k \in Nat,
           SetBatch(b, d, idx, n, ops, k), Good(d, idx, n, ops), k = 0 => Made(d, ops)
    PROVE  BatchKnown'
<1>1. d \in Seq(Byte) /\ idx \in Seq(Entry) /\ ops \in Seq(Op) /\ n = InternalLen(idx)
  BY Zenon DEF Good
<1>2. n \in Nat
  BY <1>1, SumNat, Zenon
<1>3. /\ data' = [data EXCEPT ![b] = d] /\ index' = [index EXCEPT ![b] = idx]
      /\ ilen' = [ilen EXCEPT ![b] = n] /\ recs' = [recs EXCEPT ![b] = ops]
      /\ broken' = [broken EXCEPT ![b] = k]
  BY Zenon DEF SetBatch
<1>4. /\ data \in [Batches -> Seq(Byte)] /\ index \in [Batches -> Seq(Entry)]
      /\ ilen \in [Batches -> Nat] /\ recs \in [Batches -> Seq(Op)] /\ broken \in [Batches -> Nat]
  BY Zenon DEF BatchKnown
<1>5. /\ data' \in [Batches -> Seq(Byte)] /\ index' \in [Batches -> Seq(Entry)]
      /\ ilen' \in [Batches -> Nat] /\ recs' \in [Batches -> Seq(Op)] /\ broken' \in [Batches -> Nat]
  BY <1>1, <1>2, <1>3, <1>4
<1>6. data'[b] = d /\ index'[b] = idx /\ ilen'[b] = n /\ recs'[b] = ops /\ broken'[b] = k
  BY <1>3, <1>4
<1>7. \A c \in Batches : c # b => /\ data'[c] = data[c] /\ index'[c] = index[c]
                                  /\ ilen'[c] = ilen[c] /\ recs'[c] = recs[c]
                                  /\ broken'[c] = broken[c]
  BY <1>3, <1>4
<1>8. ASSUME NEW c \in Batches
      PROVE  Good(data'[c], index'[c], ilen'[c], recs'[c])
  <2>1. CASE c = b
    BY <1>6, <2>1, Zenon
  <2>2. CASE c # b
    <3>1. Good(data[c], index[c], ilen[c], recs[c])
      BY Zenon DEF BatchKnown
    <3> QED  BY <1>7, <2>2, <3>1, Zenon
  <2> QED  BY <2>1, <2>2
<1>9. ASSUME NEW c \in Batches, broken'[c] = 0
      PROVE  Made(data'[c], recs'[c])
  <2>1. CASE c = b
    BY <1>6, <1>9, <2>1, Zenon
  <2>2. CASE c # b
    <3>1. broken[c] = 0 => Made(data[c], recs[c])
      BY Zenon DEF BatchKnown
    <3> QED  BY <1>7, <1>9, <2>2, <3>1, Zenon
  <2> QED  BY <2>1, <2>2
<1> QED
  BY <1>5, <1>8, <1>9 DEF BatchKnown, Good, Made, Describes, Laid, Entry, Op, kv, Slice

\* appendRec adds a record to the bytes, the index and the length.
LEMMA AppendKeeps ==
    ASSUME BatchKnown, NEW b \in Batches, NEW kt, NEW key, NEW value, <<kt, key, value>> \in Op,
           appendRec(b, kt, key, value)
    PROVE  BatchKnown'
<1>0. PICK r : r = <<kt, key, value>> /\ r \in Op
  BY Zenon
<1>1. r[1] = kt /\ r[2] = key /\ r[3] = value
  BY <1>0
<1>2. PICK d, idx, n, ops : d = data[b] /\ idx = index[b] /\ n = ilen[b] /\ ops = recs[b]
  OBVIOUS
<1>3. Good(d, idx, n, ops)
  BY <1>2, Zenon DEF BatchKnown
<1>4. PICK k \in Nat : k = broken[b] /\ (k = 0 => Made(d, ops))
  <2>1. broken[b] \in Nat
    BY DEF BatchKnown
  <2> QED  BY <1>2, <2>1, Zenon DEF BatchKnown
<1>5. /\ d \in Seq(Byte) /\ idx \in Seq(Entry) /\ ops \in Seq(Op)
  BY <1>3, Zenon DEF Good
<1>6. PICK t : t = Enc(r) /\ t \in Seq(Byte)
  BY <1>0, EncIs, Zenon
<1>7. PICK u : u = d \o t
  OBVIOUS
<1>8. PICK o : o = Len(d)
  OBVIOUS
<1>9. PICK e : e = Ent(o, r)
  OBVIOUS
<1>10. PICK none : none = << >> /\ none \in Seq(Byte)
  BY EmptySeq
<1>11. u = d \o (Enc(r) \o none)
  <2>1. t \o none = t
    BY <1>6, <1>10, ConcatEmptySeq
  <2> QED  BY <1>6, <1>7, <2>1, Zenon
<1>12. Whole(u, o, r, d, none)
  BY <1>0, <1>5, <1>8, <1>10, <1>11, WholeRecord, Zenon
<1>13. Describes(u, e, r)
  BY <1>9, <1>12, Zenon DEF Whole
<1>14. e \in Entry
  BY <1>13, Zenon DEF Describes
<1>15. PICK jdx : jdx = <<e>>
  OBVIOUS
<1>16. PICK os : os = <<r>>
  OBVIOUS
<1>17. jdx \in Seq(Entry) /\ Len(jdx) = 1 /\ jdx[1] = e
  BY <1>14, <1>15
<1>18. os \in Seq(Op) /\ Len(os) = 1 /\ os[1] = r
  BY <1>0, <1>16
<1>19. Added(u, jdx, os)
  <2>1. \A i \in 1..1 : i = 1
    OBVIOUS
  <2> QED  BY <1>13, <1>17, <1>18, <2>1, Zenon DEF Added
<1>20. PICK kdx, qs : kdx = idx \o jdx /\ qs = ops \o os
  OBVIOUS
<1>21. PICK l : l = n + InternalLen(jdx)
  OBVIOUS
<1>22. Good(u, kdx, l, qs)
  BY <1>3, <1>6, <1>7, <1>19, <1>20, <1>21, GoodMore, Zenon
<1>23. Made(t, os)
  BY <1>0, <1>6, <1>16, MadeOne, Zenon
<1>24. k = 0 => Made(u, qs)
  BY <1>4, <1>5, <1>7, <1>18, <1>20, <1>23, MadeCat, Zenon
<1>25. Append(idx, e) = kdx /\ Append(ops, r) = qs
  <2>1. Append(idx, e) = idx \o <<e>>
    BY <1>5, <1>14, AppendIsConcat
  <2>2. Append(ops, r) = ops \o <<r>>
    BY <1>0, <1>5, AppendIsConcat
  <2> QED  BY <1>15, <1>16, <1>20, <2>1, <2>2, Zenon
<1>26. n + Len(key) + Len(value) + KeyOverhead = l
  <2>1. InternalLen(jdx) = e.keyLen + e.valueLen + KeyOverhead
    BY <1>14, <1>15, SumOne, Zenon
  <2>2. e.keyLen = Len(key) /\ e.valueLen = Len(value)
    BY <1>1, <1>9 DEF Ent, batchIndex
  <2>3. Len(key) \in Nat /\ Len(value) \in Nat /\ n \in Nat /\ KeyOverhead \in Nat
    <3>1. e.keyLen \in Nat /\ e.valueLen \in Nat
      BY <1>14 DEF Entry
    <3>2. n \in Nat
      BY <1>2 DEF BatchKnown
    <3> QED  BY <2>2, <3>1, <3>2, BatchAssumption
  <2>4. PICK x, y : x = Len(key) /\ y = Len(value)
    OBVIOUS
  <2>5. l = n + (x + y + KeyOverhead)
    BY <1>21, <2>1, <2>2, <2>4, Zenon
  <2>6. n + x + y + KeyOverhead = n + (x + y + KeyOverhead)
    BY <2>3, <2>4
  <2> QED  BY <2>4, <2>5, <2>6, Zenon
<1>27. SetBatch(b, u, kdx, l, qs, k)
  <2>1. encode(kt, key, value) = t /\ batchIndex(Len(data[b]), kt, key, value) = e
    BY <1>1, <1>2, <1>6, <1>8, <1>9, Zenon DEF Enc, Ent
  <2>2. SetBatch(b, data[b] \o encode(kt, key, value),
                 Append(index[b], batchIndex(Len(data[b]), kt, key, value)),
                 ilen[b] + Len(key) + Len(value) + KeyOverhead,
                 Append(recs[b], <<kt, key, value>>), broken[b])
    BY Zenon DEF appendRec
  <2> QED  BY <1>0, <1>2, <1>4, <1>7, <1>25, <1>26, <2>1, <2>2, Zenon
<1> QED
  BY <1>22, <1>24, <1>27, SetKeeps, Zenon

\* append moves the entries of p behind those of b.
LEMMA JoinKeeps ==
    ASSUME BatchKnown, NEW b \in Batches, NEW p \in Batches, append(b, p)
    PROVE  BatchKnown'
<1>1. PICK d, idx, n, ops : d = data[b] /\ idx = index[b] /\ n = ilen[b] /\ ops = recs[b]
  OBVIOUS
<1>2. PICK t, jdx, k, os : t = data[p] /\ jdx = index[p] /\ k = ilen[p] /\ os = recs[p]
  OBVIOUS
<1>3. Good(d, idx, n, ops) /\ Good(t, jdx, k, os)
  BY <1>1, <1>2, Zenon DEF BatchKnown
<1>4. broken[b] \in Nat /\ broken[p] \in Nat
  BY DEF BatchKnown
<1>5. /\ broken[b] = 0 => Made(d, ops)
      /\ broken[p] = 0 => Made(t, os)
  BY <1>1, <1>2, Zenon DEF BatchKnown
<1>6. d \in Seq(Byte) /\ idx \in Seq(Entry) /\ ops \in Seq(Op) /\ n = InternalLen(idx)
  BY <1>3, Zenon DEF Good
<1>7. /\ t \in Seq(Byte) /\ jdx \in Seq(Entry) /\ os \in Seq(Op) /\ k = InternalLen(jdx)
      /\ Len(jdx) = Len(os) /\ \A i \in 1..Len(jdx) : Describes(t, jdx[i], os[i])
  BY <1>3, Zenon DEF Good
<1>8. PICK u : u = d \o t
  OBVIOUS
<1>9. PICK m \in Nat : m = Len(jdx)
  BY <1>7, LenProperties
<1>10. PICK sdx : sdx = [i \in 1..m |-> Shift(jdx[i], Len(d))]
  OBVIOUS
<1>11. ASSUME NEW i \in 1..m
       PROVE  /\ Describes(u, sdx[i], os[i])
              /\ sdx[i].keyLen = jdx[i].keyLen /\ sdx[i].valueLen = jdx[i].valueLen
  <2>1. PICK e, f, r : e = jdx[i] /\ f = Shift(e, Len(d)) /\ r = os[i]
    OBVIOUS
  <2>2. f = sdx[i]
    BY <1>10, <2>1, Zenon
  <2>3. Describes(t, e, r)
    BY <1>7, <1>9, <2>1, Zenon
  <2>4. ShiftedAs(d, t, u, e, r, f)
    BY <1>6, <1>7, <1>8, <2>1, <2>3, DescribesShift, Zenon
  <2> QED  BY <2>1, <2>2, <2>4, Zenon DEF ShiftedAs
<1>12. \A i \in 1..m : sdx[i] \in Entry
  BY <1>11, Zenon DEF Describes
<1>13. sdx \in [1..m -> Entry]
  BY <1>10, <1>12
<1>14. sdx \in Seq(Entry) /\ Len(sdx) = m
  BY <1>13
<1>15. Added(u, sdx, os)
  BY <1>7, <1>9, <1>11, <1>14, Zenon DEF Added
<1>16. InternalLen(sdx) = k
  <2>1. << >> \in Seq(Entry) /\ Len(<< >>) = 0
    BY EmptySeq
  <2>2. m + 0 = m /\ \A i \in 1..0 : FALSE
    BY <1>9
  <2>3. SameSizes(sdx, jdx, << >>)
    BY <1>9, <1>11, <1>14, <2>1, <2>2, Zenon DEF SameSizes
  <2>4. InternalLen(sdx) = InternalLen(jdx) + InternalLen(<< >>)
    BY <1>7, <1>14, <2>1, <2>3, SumCat, Zenon
  <2>5. k \in Nat
    BY <1>7, SumNat, Zenon
  <2>6. InternalLen(sdx) = k + 0
    BY <1>7, <2>4, SumNone, Zenon
  <2> QED  BY <2>5, <2>6
<1>17. PICK kdx, qs : kdx = idx \o sdx /\ qs = ops \o os
  OBVIOUS
<1>18. PICK l : l = n + k
  OBVIOUS
<1>19. l = n + InternalLen(sdx)
  BY <1>16, <1>18, Zenon
<1>20. Good(u, kdx, l, qs)
  BY <1>3, <1>7, <1>8, <1>15, <1>17, <1>19, GoodMore, Zenon
<1>21. PICK w \in Nat : w = broken[b] + broken[p] /\ (w = 0 => Made(u, qs))
  <2>1. broken[b] + broken[p] \in Nat
    BY <1>4
  <2>2. ASSUME broken[b] + broken[p] = 0 PROVE Made(u, qs)
    <3>1. broken[b] = 0 /\ broken[p] = 0
      BY <1>4, <2>2
    <3> QED  BY <1>5, <1>6, <1>7, <1>8, <1>17, <3>1, MadeCat, Zenon
  <2> QED  BY <2>1, <2>2, Zenon
<1>22. SetBatch(b, u, kdx, l, qs, w)
  <2>1. SetBatch(b, data[b] \o data[p],
                 index[b] \o [i \in 1..Len(index[p]) |-> Shift(index[p][i], Len(data[b]))],
                 ilen[b] + ilen[p], recs[b] \o recs[p], broken[b] + broken[p])
    BY Zenon DEF append
  <2> QED  BY <1>1, <1>2, <1>8, <1>9, <1>10, <1>17, <1>18, <1>21, <2>1, Zenon
<1> QED
  BY <1>20, <1>21, <1>22, SetKeeps, Zenon

\* Reset empties b.
LEMMA ResetKeeps ==
    ASSUME BatchKnown, NEW b \in Batches, Reset(b)
    PROVE  BatchKnown'
<1>1. SetBatch(b, << >>, << >>, 0, << >>, 0)
  BY Zenon DEF Reset
<1>2. PICK k \in Nat : k = 0
  OBVIOUS
<1>3. SetBatch(b, << >>, << >>, 0, << >>, k)
  BY <1>1, <1>2, Zenon
<1>4. Made(<< >>, << >>) /\ Good(<< >>, << >>, 0, << >>)
  BY MadeNone
<1> QED
  BY <1>3, <1>4, SetKeeps, Zenon

\* Load gets the bytes, the entries and the length together.
LEMMA LoadKeeps ==
    ASSUME BatchKnown, NEW b \in Batches, NEW p \in Batches, NEW n \in 0..Len(data[p]), Load(b, p, n)
    PROVE  BatchKnown'
<1>1. PICK bytes, ops : bytes = data[p] /\ ops = recs[p]
  OBVIOUS
<1>2. PICK d : d = SubSeq(bytes, 1, n)
  OBVIOUS
<1>3. PICK r : r = decodeBatch(d)
  OBVIOUS
<1>4. p \in sound /\ decode(b, d, r, ops)
  BY <1>1, <1>2, <1>3, Zenon DEF Load
<1>5. Made(bytes, ops)
  BY <1>1, <1>4, Zenon DEF BatchKnown, sound
<1>6. ops \in Seq(Op)
  <2>1. Good(data[p], index[p], ilen[p], recs[p])
    BY Zenon DEF BatchKnown
  <2> QED  BY <1>1, <2>1, Zenon DEF Good
<1>7. n \in 0..Len(bytes)
  BY <1>1, Zenon
<1>8. Loaded(bytes, ops, n, d, r)
  BY <1>2, <1>3, <1>5, <1>6, <1>7, LoadIs, Zenon
<1>9. PICK fs, l, idx : fs = SubSeq(ops, 1, Len(r.idx)) /\ l = InternalLen(r.idx) /\ idx = r.idx
  OBVIOUS
<1>10. Good(d, idx, l, fs) /\ (r.ok => Made(d, fs))
  BY <1>8, <1>9, Zenon DEF Loaded
<1>11. PICK k \in Nat : k = (IF r.ok THEN 0 ELSE 1) /\ (k = 0 => r.ok)
  <2>1. (IF r.ok THEN 0 ELSE 1) \in Nat /\ ((IF r.ok THEN 0 ELSE 1) = 0 => r.ok)
    OBVIOUS
  <2> QED  BY <2>1, Zenon
<1>12. SetBatch(b, d, idx, l, fs, k)
  BY <1>4, <1>9, <1>11, Zenon DEF decode
<1>13. k = 0 => Made(d, fs)
  BY <1>10, <1>11, Zenon
<1> QED
  BY <1>10, <1>12, <1>13, SetKeeps, Zenon

\* IPFSdb.Write leaves the batches alone.
LEMMA SameKeeps ==
    ASSUME BatchKnown, UNCHANGED bvars
    PROVE  BatchKnown'
<1>1. data' = data /\ index' = index /\ ilen' = ilen /\ recs' = recs /\ broken' = broken
  BY DEF bvars
<1> QED
  BY <1>1 DEF BatchKnown, Good, Made, Describes, Laid, Entry, Op, kv, Slice

\* Every operation keeps the inductive invariant.
LEMMA BatchKeeps ==
    ASSUME BatchKnown, [BatchNext]_batchVars
    PROVE  BatchKnown'
<1>0. Keys \subseteq Seq(Byte) /\ Values \subseteq Seq(Byte)
  BY BatchAssumption
<1>1. ASSUME NEW b \in Batches, NEW key \in Keys, Delete(b, key)
      PROVE  BatchKnown'
  <2>1. <<keyTypeDel, key, << >> >> \in Op
    <3>1. key \in Seq(Byte) /\ << >> \in Seq(Byte) /\ keyTypeDel \in Byte /\ keyTypeDel <= keyTypeVal
      BY <1>0, EmptySeq, TypesAre
    <3> QED  BY <3>1 DEF Op
  <2>2. appendRec(b, keyTypeDel, key, << >>)
    BY <1>1, Zenon DEF Delete
  <2> QED  BY <2>1, <2>2, AppendKeeps, Zenon
<1>2. ASSUME NEW b \in Batches, NEW key \in Keys, NEW value \in Values, Put(b, key, value)
      PROVE  BatchKnown'
  <2>1. <<keyTypeVal, key, value>> \in Op
    <3>1. key \in Seq(Byte) /\ value \in Seq(Byte) /\ keyTypeVal \in Byte /\ keyTypeVal <= keyTypeVal
      BY <1>0, TypesAre
    <3>2. keyTypeVal # keyTypeDel
      BY TypesAre
    <3> QED  BY <3>1, <3>2 DEF Op
  <2>2. appendRec(b, keyTypeVal, key, value)
    BY <1>2, Zenon DEF Put
  <2> QED  BY <2>1, <2>2, AppendKeeps, Zenon
<1>3. ASSUME NEW b \in Batches, Reset(b) PROVE BatchKnown'
  BY <1>3, ResetKeeps, Zenon
<1>4. ASSUME NEW b \in Batches, NEW p \in Batches, append(b, p) PROVE BatchKnown'
  BY <1>4, JoinKeeps, Zenon
<1>5. ASSUME NEW b \in Batches, NEW p \in Batches, NEW n \in 0..Len(data[p]), Load(b, p, n)
      PROVE  BatchKnown'
  BY <1>5, LoadKeeps, Zenon
<1>6. ASSUME NEW b \in Batches, WriteBegin(b) PROVE BatchKnown'
  <2>1. UNCHANGED bvars
    BY <1>6, Zenon DEF WriteBegin
  <2> QED  BY <2>1, SameKeeps, Zenon
<1>7. ASSUME NEW fails \in BOOLEAN, WritePut(fails) PROVE BatchKnown'
  <2>1. UNCHANGED bvars
    BY <1>7 DEF WritePut
  <2> QED  BY <2>1, SameKeeps, Zenon
<1>8. CASE WriteEnd
  <2>1. UNCHANGED bvars
    BY <1>8 DEF WriteEnd
  <2> QED  BY <2>1, SameKeeps, Zenon
<1>9. CASE WriteReturn
  <2>1. UNCHANGED bvars
    BY <1>9, Zenon DEF WriteReturn
  <2> QED  BY <2>1, SameKeeps, Zenon
<1>10. CASE UNCHANGED batchVars
  <2>1. UNCHANGED bvars
    BY <1>10 DEF batchVars
  <2> QED  BY <2>1, SameKeeps, Zenon
<1> QED
  BY <1>1, <1>2, <1>3, <1>4, <1>5, <1>6, <1>7, <1>8, <1>9, <1>10, Zenon DEF BatchNext

\* New batches hold nothing.
LEMMA BatchStarts ==
    ASSUME BatchInit
    PROVE  BatchKnown
<1>1. /\ data = [b \in Batches |-> << >>] /\ index = [b \in Batches |-> << >>]
      /\ ilen = [b \in Batches |-> 0] /\ recs = [b \in Batches |-> << >>]
      /\ broken = [b \in Batches |-> 0]
  BY DEF BatchInit
<1>2. << >> \in Seq(Byte) /\ << >> \in Seq(Entry) /\ << >> \in Seq(Op)
  BY EmptySeq
<1>3. /\ data \in [Batches -> Seq(Byte)] /\ index \in [Batches -> Seq(Entry)]
      /\ ilen \in [Batches -> Nat] /\ recs \in [Batches -> Seq(Op)] /\ broken \in [Batches -> Nat]
  BY <1>1, <1>2
<1>4. \A b \in Batches : data[b] = << >> /\ index[b] = << >> /\ ilen[b] = 0 /\ recs[b] = << >>
  BY <1>1, Zenon
<1>5. ASSUME NEW b \in Batches
      PROVE  Good(data[b], index[b], ilen[b], recs[b]) /\ Made(data[b], recs[b])
  BY <1>4, MadeNone, Zenon
<1> QED
  BY <1>1, <1>3, <1>5, Zenon DEF BatchKnown

(***************************************************************************)
(* Replay passes on the operations that were put into a batch, in order,   *)
(* and internalLen is their size, after any sequence of Put, Delete,       *)
(* append, Reset and Load of bytes cut off anywhere: also for what was     *)
(* read when Load failed, and for what is added after that.                *)
(***************************************************************************)
THEOREM BatchesRecord == BatchSafety => []Recorded
<1>1. BatchInit => BatchKnown
  BY BatchStarts
<1>2. BatchKnown /\ [BatchNext]_batchVars => BatchKnown'
  BY BatchKeeps
<1>3. BatchKnown => Recorded
  <2> SUFFICES ASSUME BatchKnown, NEW b \in Batches
               PROVE  Replay(b) = recs[b] /\ ilen[b] = InternalLen(index[b])
    BY Zenon DEF Recorded
  <2>1. PICK d, idx, n, ops : d = data[b] /\ idx = index[b] /\ n = ilen[b] /\ ops = recs[b]
    OBVIOUS
  <2>2. Good(d, idx, n, ops)
    BY <2>1, Zenon DEF BatchKnown
  <2>3. /\ ops \in Seq(Op) /\ Len(idx) = Len(ops) /\ n = InternalLen(idx)
        /\ \A i \in 1..Len(idx) : kv(d, idx[i]) = ops[i]
    BY <2>2, Zenon DEF Good, Describes
  <2>4. ops = [i \in 1..Len(ops) |-> ops[i]]
    BY <2>3
  <2>5. [i \in 1..Len(idx) |-> kv(d, idx[i])] = [i \in 1..Len(idx) |-> ops[i]]
    BY <2>3, Zenon
  <2>6. Replay(b) = ops
    BY <2>1, <2>3, <2>4, <2>5, Zenon DEF Replay
  <2> QED  BY <2>1, <2>3, <2>6, Zenon
<1> QED
  BY <1>1, <1>2, <1>3, PTL DEF BatchSafety

(***************************************************************************)
(* Dump and Load are inverse, wherever the bytes are cut off: all complete *)
(* records are loaded and no other, and without error exactly if the cut   *)
(* is between two of them (Dump, Load, decodeBatch).                       *)
(***************************************************************************)
THEOREM BatchesLoad == BatchSafety => []TornLoad
<1>1. BatchInit => BatchKnown
  BY BatchStarts
<1>2. BatchKnown /\ [BatchNext]_batchVars => BatchKnown'
  BY BatchKeeps
<1>3. BatchKnown => TornLoad
  <2> SUFFICES ASSUME BatchKnown PROVE TornLoad
    OBVIOUS
  <2>1. ASSUME NEW b \in sound
        PROVE  Made(data[b], recs[b]) /\ recs[b] \in Seq(Op) /\ data[b] \in Seq(Byte)
    <3>0. b \in Batches /\ broken[b] = 0
      BY DEF sound
    <3>1. b \in Batches /\ Made(data[b], recs[b])
      BY <3>0, Zenon DEF BatchKnown
    <3>2. Good(data[b], index[b], ilen[b], recs[b])
      BY <3>1, Zenon DEF BatchKnown
    <3> QED  BY <3>1, <3>2, Zenon DEF Good
  <2>2. ASSUME NEW b \in sound, NEW n \in 0..Len(data[b])
        PROVE  /\ Loads(SubSeq(data[b], 1, n), decodeBatch(SubSeq(data[b], 1, n)), recs[b])
               /\ n = Len(data[b]) => Len(decodeBatch(SubSeq(data[b], 1, n)).idx) = Len(recs[b])
    <3>1. PICK bytes, ops : bytes = data[b] /\ ops = recs[b]
      OBVIOUS
    <3>2. PICK d : d = SubSeq(bytes, 1, n)
      OBVIOUS
    <3>3. PICK r : r = decodeBatch(d)
      OBVIOUS
    <3>4. ops \in Seq(Op) /\ Made(bytes, ops) /\ n \in 0..Len(bytes)
      BY <2>1, <3>1, Zenon
    <3>5. Loaded(bytes, ops, n, d, r)
      BY <3>2, <3>3, <3>4, LoadIs, Zenon
    <3>6. Loads(d, r, ops) /\ (n = Len(bytes) => Len(r.idx) = Len(ops))
      BY <3>5, Zenon DEF Loaded
    <3> QED  BY <3>1, <3>2, <3>3, <3>6, Zenon
  <2>3. ASSUME NEW b \in sound
        PROVE  Len(decodeBatch(data[b]).idx) = Len(recs[b])
    <3>1. Len(data[b]) \in 0..Len(data[b])
      BY <2>1, LenProperties
    <3>2. SubSeq(data[b], 1, Len(data[b])) = data[b]
      BY <2>1, SubSeqFull
    <3>3. PICK n : n = Len(data[b])
      OBVIOUS
    <3>4. n \in 0..Len(data[b])
      BY <3>1, <3>3, Zenon
    <3>5. Len(decodeBatch(SubSeq(data[b], 1, n)).idx) = Len(recs[b])
      BY <2>2, <3>3, <3>4, Zenon
    <3> QED  BY <3>2, <3>3, <3>5, Zenon
  <2> QED  BY <2>2, <2>3, Zenon DEF TornLoad
<1> QED
  BY <1>1, <1>2, <1>3, PTL DEF BatchSafety

-----------------------------------------------------------------------------
(***************************************************************************)
(* Buffer.                                                                 *)
(*                                                                         *)
(* The invariant, Within, is small: the unread bytes lie inside the array. *)
(* The work is in what copy does to a part of a sequence (BeforeCopy,      *)
(* WhereCopied), from which it follows that the four ways of grow and the  *)
(* three of ReadFrom keep the unread bytes (GrowKeeps, PlacedAdds).        *)
(***************************************************************************)

\* one Buffer by itself
BufSafety == BufInit /\ [][BufNext]_bufVars

(***************************************************************************)
(* The unread bytes are a part of the array, and a nil buf has no array.   *)
(***************************************************************************)
Within ==
    /\ arr \in Seq(Nat) /\ off \in Nat /\ blen \in Nat
    /\ off <= blen /\ blen <= Cap
    /\ isNil \in BOOLEAN /\ reading \in BOOLEAN
    /\ isNil = TRUE => arr = << >>

(***************************************************************************)
(* A new array is as long as it was made.                                  *)
(***************************************************************************)
LEMMA Zeros ==
    ASSUME NEW n \in Nat
    PROVE  zeros(n) \in Seq(Nat) /\ Len(zeros(n)) = n
<1>1. zeros(n) \in [1..n -> Nat]
  BY DEF zeros
<1>2. zeros(n) \in Seq(Nat)
  BY <1>1, SeqDef
<1>3. DOMAIN zeros(n) = 1..n
  BY DEF zeros
<1> QED
  BY <1>2, <1>3, LenProperties

(***************************************************************************)
(* copy writes where it is told to, and leaves the rest and the length.    *)
(***************************************************************************)
LEMMA OverwriteIs ==
    ASSUME NEW a \in Seq(Nat), NEW at \in Nat, NEW s \in Seq(Nat)
    PROVE  /\ Overwrite(a, at, s) \in Seq(Nat)
           /\ Len(Overwrite(a, at, s)) = Len(a)
           /\ \A i \in 1..Len(a) :
                 Overwrite(a, at, s)[i] = IF i \in (at + 1)..(at + Len(s))
                                          THEN s[i - at] ELSE a[i]
<1> DEFINE o == Overwrite(a, at, s)
<1>1. \A i \in (at + 1)..(at + Len(s)) : s[i - at] \in Nat
  <2> TAKE i \in (at + 1)..(at + Len(s))
  <2>1. i - at \in 1..Len(s)
    BY LenProperties
  <2> QED  BY <2>1, ElementOfSeq
<1>2. \A i \in 1..Len(a) : a[i] \in Nat
  BY ElementOfSeq
<1>3. o \in [1..Len(a) -> Nat]
  BY <1>1, <1>2 DEF Overwrite
<1>4. o \in Seq(Nat)
  <2>1. Len(a) \in Nat
    BY LenProperties
  <2> HIDE DEF o
  <2> QED  BY <1>3, <2>1, SeqDef
<1>5. DOMAIN o = 1..Len(a)
  BY DEF Overwrite
<1>6. Len(o) = Len(a)
  BY <1>4, <1>5, LenProperties
<1>7. \A i \in 1..Len(a) : o[i] = IF i \in (at + 1)..(at + Len(s)) THEN s[i - at] ELSE a[i]
  BY DEF Overwrite
<1> QED
  BY <1>4, <1>6, <1>7

(***************************************************************************)
(* The elements of a part of a sequence.                                   *)
(***************************************************************************)
LEMMA PartIs ==
    ASSUME NEW a \in Seq(Nat), NEW j \in Nat, NEW k \in Nat, k <= Len(a)
    PROVE  /\ SubSeq(a, j + 1, k) \in Seq(Nat)
           /\ Len(SubSeq(a, j + 1, k)) = IF j <= k THEN k - j ELSE 0
           /\ \A i \in 1..(k - j) : SubSeq(a, j + 1, k)[i] = a[j + i]
<1>1. \A i \in (j + 1)..k : a[i] \in Nat
  <2> TAKE i \in (j + 1)..k
  <2>1. i \in 1..Len(a)
    BY LenProperties
  <2> QED  BY <2>1, ElementOfSeq
<1>2. j + 1 \in Int /\ k \in Int
  OBVIOUS
<1>3. /\ SubSeq(a, j + 1, k) \in Seq(Nat)
      /\ Len(SubSeq(a, j + 1, k)) = IF j + 1 <= k THEN k - (j + 1) + 1 ELSE 0
      /\ \A i \in 1..(k - (j + 1) + 1) : SubSeq(a, j + 1, k)[i] = a[j + 1 + i - 1]
  BY <1>1, <1>2, SubSeqProperties
<1> QED
  BY <1>3

(***************************************************************************)
(* Parts before the place copy writes to are left alone.                   *)
(***************************************************************************)
LEMMA BeforeCopy ==
    ASSUME NEW a \in Seq(Nat), NEW at \in Nat, NEW s \in Seq(Nat), NEW j \in Nat,
           at <= Len(a)
    PROVE  SubSeq(Overwrite(a, at, s), j + 1, at) = SubSeq(a, j + 1, at)
<1> DEFINE o == Overwrite(a, at, s)
<1>1. o \in Seq(Nat) /\ Len(o) = Len(a) /\ \A i \in 1..at : o[i] = a[i]
  <2>1. Len(a) \in Nat /\ Len(s) \in Nat
    BY LenProperties
  <2>2. \A i \in 1..at : i \in 1..Len(a) /\ i \notin (at + 1)..(at + Len(s))
    BY <2>1
  <2> QED  BY <2>2, OverwriteIs
<1>2. /\ SubSeq(o, j + 1, at) \in Seq(Nat)
      /\ Len(SubSeq(o, j + 1, at)) = IF j <= at THEN at - j ELSE 0
      /\ \A i \in 1..(at - j) : SubSeq(o, j + 1, at)[i] = o[j + i]
  BY <1>1, PartIs
<1>3. /\ SubSeq(a, j + 1, at) \in Seq(Nat)
      /\ Len(SubSeq(a, j + 1, at)) = IF j <= at THEN at - j ELSE 0
      /\ \A i \in 1..(at - j) : SubSeq(a, j + 1, at)[i] = a[j + i]
  BY PartIs
<1>4. \A i \in 1..Len(SubSeq(o, j + 1, at)) : SubSeq(o, j + 1, at)[i] = SubSeq(a, j + 1, at)[i]
  BY <1>1, <1>2, <1>3
<1> HIDE DEF o
<1> QED
  BY <1>2, <1>3, <1>4, SeqEqual DEF o

(***************************************************************************)
(* What copy wrote is there.                                               *)
(***************************************************************************)
LEMMA WhereCopied ==
    ASSUME NEW a \in Seq(Nat), NEW at \in Nat, NEW s \in Seq(Nat), at + Len(s) <= Len(a)
    PROVE  SubSeq(Overwrite(a, at, s), at + 1, at + Len(s)) = s
<1> DEFINE o == Overwrite(a, at, s)
           n == at + Len(s)
<1>0. Len(s) \in Nat /\ Len(a) \in Nat
  BY LenProperties
<1>1. o \in Seq(Nat) /\ Len(o) = Len(a) /\ \A i \in 1..Len(s) : o[at + i] = s[i]
  <2>1. \A i \in 1..Len(s) :
            at + i \in 1..Len(a) /\ at + i \in (at + 1)..(at + Len(s)) /\ at + i - at = i
    BY <1>0
  <2> QED  BY <2>1, OverwriteIs
<1>2. n \in Nat /\ n <= Len(o)
  BY <1>0, <1>1
<1>3. Len(s) = n - at /\ at <= n
  BY <1>0
<1> HIDE DEF o, n
<1>4. /\ SubSeq(o, at + 1, n) \in Seq(Nat)
      /\ Len(SubSeq(o, at + 1, n)) = IF at <= n THEN n - at ELSE 0
      /\ \A i \in 1..(n - at) : SubSeq(o, at + 1, n)[i] = o[at + i]
  BY <1>1, <1>2, PartIs
<1>5. Len(SubSeq(o, at + 1, n)) = Len(s)
      /\ \A i \in 1..Len(SubSeq(o, at + 1, n)) : SubSeq(o, at + 1, n)[i] = s[i]
  BY <1>0, <1>1, <1>3, <1>4
<1> QED
  BY <1>4, <1>5, SeqEqual DEF o, n

(***************************************************************************)
(* A part of a part.                                                       *)
(***************************************************************************)
LEMMA PartOfPart ==
    ASSUME NEW a \in Seq(Nat), NEW o \in Nat, NEW b \in Nat, o <= b, b <= Len(a),
           NEW j \in Nat, NEW k \in Nat, k <= b - o
    PROVE  SubSeq(SubSeq(a, o + 1, b), j + 1, k) = SubSeq(a, o + j + 1, o + k)
<1> DEFINE u == SubSeq(a, o + 1, b)
<1>1. u \in Seq(Nat) /\ Len(u) = b - o /\ \A i \in 1..(b - o) : u[i] = a[o + i]
  BY PartIs
<1>2. /\ SubSeq(u, j + 1, k) \in Seq(Nat)
      /\ Len(SubSeq(u, j + 1, k)) = IF j <= k THEN k - j ELSE 0
      /\ \A i \in 1..(k - j) : SubSeq(u, j + 1, k)[i] = u[j + i]
  BY <1>1, PartIs
<1>3. /\ SubSeq(a, (o + j) + 1, o + k) \in Seq(Nat)
      /\ Len(SubSeq(a, (o + j) + 1, o + k)) = IF o + j <= o + k THEN (o + k) - (o + j) ELSE 0
      /\ \A i \in 1..((o + k) - (o + j)) : SubSeq(a, (o + j) + 1, o + k)[i] = a[(o + j) + i]
  <2>1. o + j \in Nat /\ o + k \in Nat /\ o + k <= Len(a)
    BY LenProperties
  <2> HIDE DEF u
  <2> QED  BY <2>1, PartIs, Zenon
<1>4. /\ Len(SubSeq(u, j + 1, k)) = Len(SubSeq(a, o + j + 1, o + k))
      /\ \A i \in 1..Len(SubSeq(u, j + 1, k)) :
            SubSeq(u, j + 1, k)[i] = SubSeq(a, o + j + 1, o + k)[i]
  <2> HIDE DEF u
  <2> QED  BY <1>1, <1>2, <1>3
<1> HIDE DEF u
<1> QED
  BY <1>2, <1>3, <1>4, SeqEqual DEF u

(***************************************************************************)
(* A part as two.                                                          *)
(***************************************************************************)
LEMMA TwoParts ==
    ASSUME NEW a \in Seq(Nat), NEW k \in Nat, NEW j \in 1..(k + 1), NEW n \in k..Len(a)
    PROVE  SubSeq(a, j, n) = SubSeq(a, j, k) \o SubSeq(a, k + 1, n)
<1>1. /\ j \in 1..(Len(a) + 1) /\ k \in (j - 1)..Len(a) /\ n \in k..Len(a)
  BY LenProperties
<1> QED
  BY <1>1, ConcatAdjacentSubSeq

-----------------------------------------------------------------------------
(***************************************************************************)
(* The unread bytes are as many as off and len say.                        *)
(***************************************************************************)
LEMMA UnreadIs ==
    ASSUME Within
    PROVE  Unread \in Seq(Nat) /\ Len(Unread) = blen - off /\ blen - off \in Nat
BY PartIs DEF Within, Cap, Unread

(***************************************************************************)
(* A copy of the unread bytes at the start of an array.                    *)
(***************************************************************************)
LEMMA CopiedToStart ==
    ASSUME Within, NEW b \in Seq(Nat), blen - off <= Len(b)
    PROVE  LET c == Overwrite(b, 0, Unread)
           IN  c \in Seq(Nat) /\ Len(c) = Len(b) /\ SubSeq(c, 1, blen - off) = Unread
<1>1. Overwrite(b, 0, Unread) \in Seq(Nat) /\ Len(Overwrite(b, 0, Unread)) = Len(b)
  BY UnreadIs, OverwriteIs
<1>2. SubSeq(Overwrite(b, 0, Unread), 0 + 1, 0 + Len(Unread)) = Unread
  BY UnreadIs, WhereCopied
<1> QED
  BY <1>1, <1>2, UnreadIs

(***************************************************************************)
(* grow keeps the unread bytes and makes room behind them, whichever way   *)
(* it takes.                                                               *)
(***************************************************************************)
LEMMA GrowKeeps ==
    ASSUME Within, NEW n \in Nat
    PROVE  \E a \in Seq(Nat), o \in Nat, k \in Nat :
               /\ grow(n) = [arr |-> a, off |-> o]
               /\ k = o + (blen - off) /\ k + n <= Len(a)
               /\ SubSeq(a, o + 1, k) = Unread
<1> DEFINE m == blen - off
           p == IF m = 0 THEN 0 ELSE off
           Keeps(a, o, k) == /\ k = o + m /\ k + n <= Len(a)
                             /\ SubSeq(a, o + 1, k) = Unread
<1> SUFFICES \E a \in Seq(Nat), o \in Nat, k \in Nat :
               grow(n) = [arr |-> a, off |-> o] /\ Keeps(a, o, k)
  OBVIOUS
<1>1. m \in Nat /\ p \in Nat /\ Len(arr) \in Nat /\ m <= Len(arr) /\ p + m <= Len(arr)
  BY LenProperties DEF Within, Cap
<1>2. CASE p + m + n <= Cap
  <2>1. grow(n) = [arr |-> arr, off |-> p]
    BY <1>2 DEF grow
  <2>2. SubSeq(arr, p + 1, p + m) = Unread
    <3>1. CASE m = 0
      <4>1. Len(Unread) = 0 /\ Unread \in Seq(Nat)
        BY <3>1, UnreadIs
      <4>2. SubSeq(arr, p + 1, p + m) = << >>
        BY <1>1, <3>1, SubSeqEmpty
      <4> QED  BY <4>1, <4>2, EmptySeq
    <3>2. CASE m # 0
      BY <3>2 DEF Unread, Within
    <3> QED  BY <3>1, <3>2
  <2>3. arr \in Seq(Nat) /\ p + m \in Nat
    BY <1>1 DEF Within
  <2>4. Keeps(arr, p, p + m)
    BY <1>1, <1>2, <2>2 DEF Cap
  <2> HIDE DEF Keeps, p, m
  <2> QED  BY <1>1, <2>1, <2>3, <2>4
<1>3. CASE ~(p + m + n <= Cap) /\ isNil /\ n <= Bootstrap
  <2>1. grow(n) = [arr |-> zeros(Bootstrap), off |-> 0]
    BY <1>3 DEF grow
  <2>2. m = 0 /\ Unread = << >>
    <3>1. m = 0
      BY <1>1, <1>3, EmptySeq DEF Within
    <3> QED  BY <3>1, UnreadIs, EmptySeq
  <2>3. SubSeq(zeros(Bootstrap), 0 + 1, 0) = << >>
    BY SubSeqEmpty
  <2>4. zeros(Bootstrap) \in Seq(Nat) /\ Len(zeros(Bootstrap)) = Bootstrap /\ Bootstrap \in Nat
    BY Zeros, BufferAssumption
  <2>5. Keeps(zeros(Bootstrap), 0, 0)
    BY <1>3, <2>2, <2>3, <2>4
  <2> HIDE DEF Keeps, p, m
  <2> QED  BY <2>1, <2>4, <2>5
<1>4. ASSUME NEW b \in Seq(Nat), grow(n) = [arr |-> Overwrite(b, 0, Unread), off |-> 0],
             m + n <= Len(b)
      PROVE  \E a \in Seq(Nat), o \in Nat, k \in Nat :
                grow(n) = [arr |-> a, off |-> o] /\ Keeps(a, o, k)
  <2> DEFINE c == Overwrite(b, 0, Unread)
  <2>1. Len(b) \in Nat
    BY LenProperties
  <2>2. c \in Seq(Nat) /\ Len(c) = Len(b) /\ SubSeq(c, 1, m) = Unread
    BY <1>1, <1>4, <2>1, CopiedToStart
  <2> HIDE DEF c
  <2>3. Keeps(c, 0, m)
    BY <1>1, <1>4, <2>1, <2>2
  <2>4. grow(n) = [arr |-> c, off |-> 0]
    BY <1>4 DEF c
  <2> HIDE DEF Keeps, p, m
  <2> QED  BY <1>1, <2>2, <2>3, <2>4
<1>5. CASE ~(p + m + n <= Cap) /\ ~(isNil /\ n <= Bootstrap) /\ m + n <= Cap \div 2
  <2>1. grow(n) = [arr |-> Overwrite(arr, 0, Unread), off |-> 0]
    BY <1>5 DEF grow, Slid
  <2>2. m + n <= Len(arr) /\ arr \in Seq(Nat)
    BY <1>1, <1>5 DEF Cap, Within
  <2> QED  BY <1>4, <2>1, <2>2
<1>6. CASE ~(p + m + n <= Cap) /\ ~(isNil /\ n <= Bootstrap) /\ ~(m + n <= Cap \div 2)
  <2> DEFINE z == zeros(2 * Cap + n)
  <2>1. grow(n) = [arr |-> Overwrite(z, 0, Unread), off |-> 0]
    BY <1>6 DEF grow
  <2>2. z \in Seq(Nat) /\ Len(z) = 2 * Cap + n
    BY <1>1, Zeros DEF Cap
  <2> HIDE DEF z
  <2>3. m + n <= Len(z)
    BY <1>1, <2>2 DEF Cap
  <2> QED  BY <1>4, <2>1, <2>2, <2>3
<1> QED
  BY <1>2, <1>3, <1>5, <1>6

(***************************************************************************)
(* Bytes written behind the unread ones, of an array that holds these.     *)
(***************************************************************************)
LEMMA WrittenBehind ==
    ASSUME NEW a \in Seq(Nat), NEW k \in Nat, NEW s \in Seq(Nat),
           NEW j \in 1..(k + 1), NEW n \in (k + Len(s))..Len(a)
    PROVE  LET b == Overwrite(a, k, s)
           IN  SubSeq(b, j, n) = SubSeq(a, j, k) \o SubSeq(b, k + 1, n)
<1> DEFINE b == Overwrite(a, k, s)
<1>1. k <= n /\ k <= Len(a) /\ Len(s) \in Nat /\ Len(a) \in Nat /\ n \in Nat
  BY LenProperties
<1>2. b \in Seq(Nat) /\ Len(b) = Len(a)
  BY OverwriteIs
<1>3. SubSeq(b, j, k) = SubSeq(a, j, k)
  <2>1. PICK i \in Nat : i + 1 = j
    <3>1. j - 1 \in Nat /\ (j - 1) + 1 = j
      OBVIOUS
    <3> QED  BY <3>1
  <2> QED  BY <1>1, <2>1, BeforeCopy
<1> HIDE DEF b
<1>4. j \in 1..(Len(b) + 1) /\ k \in (j - 1)..Len(b) /\ n \in k..Len(b)
  BY <1>1, <1>2
<1>5. SubSeq(b, j, k) \o SubSeq(b, k + 1, n) = SubSeq(b, j, n)
  BY <1>2, <1>4, ConcatAdjacentSubSeq
<1> QED
  BY <1>3, <1>5 DEF b

(***************************************************************************)
(* What grow and a turn of ReadFrom have in common: an array a with the    *)
(* unread bytes from o to k is taken, s is copied behind them, and len is  *)
(* set l bytes behind them.                                                *)
(***************************************************************************)
Placed(a, o, k, s, l) ==
    /\ o <= k /\ k + l <= Len(a) /\ Len(s) <= l
    /\ SubSeq(a, o + 1, k) = Unread
    /\ arr' = Overwrite(a, k, s) /\ off' = o /\ blen' = k + l
    /\ isNil' = (isNil /\ a = << >>) /\ reading' \in BOOLEAN

(***************************************************************************)
(* That appends: s itself when it fills the l bytes, and otherwise what    *)
(* the array held there.                                                   *)
(***************************************************************************)
LEMMA PlacedAdds ==
    ASSUME Within, NEW a \in Seq(Nat), NEW o \in Nat, NEW k \in Nat,
           NEW s \in Seq(Nat), NEW l \in Nat, Placed(a, o, k, s, l)
    PROVE  /\ Within'
           /\ Unread' = Unread \o SubSeq(arr', blen' - l + 1, blen')
           /\ l = Len(s) => Unread' = Unread \o s
<1>1. Len(a) \in Nat /\ Len(s) \in Nat
  BY LenProperties
<1>2. PICK e \in Nat, j \in Nat : e = k + l /\ j = o + 1
  OBVIOUS
<1>3. /\ arr' = Overwrite(a, k, s) /\ off' = o /\ blen' = e
      /\ isNil' = (isNil /\ a = << >>)
  BY <1>2 DEF Placed
<1>4. j \in 1..(k + 1) /\ o <= e
  <2>1. o <= k
    BY DEF Placed
  <2> QED  BY <1>2, <2>1
<1>5. e \in (k + Len(s))..Len(a) /\ e <= Len(a)
  <2>1. k + l <= Len(a) /\ Len(s) <= l
    BY DEF Placed
  <2>2. k + Len(s) <= e /\ e <= Len(a)
    BY <1>1, <1>2, <2>1
  <2> QED  BY <1>1, <2>2
<1>6. e - l = k /\ (l = Len(s) => e = k + Len(s))
  BY <1>1, <1>2
<1>7. /\ arr' \in Seq(Nat) /\ Len(arr') = Len(a)
      /\ Unread' = Unread \o SubSeq(arr', k + 1, e)
      /\ e = k + Len(s) => Unread' = Unread \o s
  <2> DEFINE b == Overwrite(a, k, s)
  <2>1. b \in Seq(Nat) /\ Len(b) = Len(a)
    BY OverwriteIs
  <2>2. SubSeq(b, j, e) = SubSeq(a, j, k) \o SubSeq(b, k + 1, e)
    BY <1>4, <1>5, WrittenBehind, Zenon
  <2>3. e = k + Len(s) => SubSeq(b, k + 1, e) = s
    BY <1>1, <1>5, WhereCopied
  <2>4. arr' = b /\ SubSeq(a, j, k) = Unread
    BY <1>2, <1>3 DEF Placed
  <2> HIDE DEF b
  <2>5. Unread' = SubSeq(b, j, e)
    BY <1>2, <1>3, <2>4 DEF Unread
  <2> QED  BY <2>1, <2>2, <2>3, <2>4, <2>5
<1>8. isNil' = TRUE => arr' = << >>
  <2> HAVE isNil' = TRUE
  <2>1. a = << >>
    BY <1>3
  <2>2. Len(arr') = 0
    BY <1>7, <2>1, EmptySeq
  <2> QED  BY <1>7, <2>2, EmptySeq
<1>9. isNil' \in BOOLEAN /\ reading' \in BOOLEAN
  BY <1>3 DEF Within, Placed
<1>10. Within'
  BY <1>3, <1>4, <1>5, <1>7, <1>8, <1>9 DEF Within, Cap
<1> QED
  BY <1>3, <1>6, <1>7, <1>10

(***************************************************************************)
(* grow and what is written after it: a queue that is appended to.         *)
(***************************************************************************)
LEMMA GrownAdds ==
    ASSUME Within, NEW n \in Nat, NEW s \in Seq(Nat), NEW l \in Nat,
           Len(s) <= l, l <= n, Grown(n, s, l)
    PROVE  /\ Within'
           /\ Unread' = Unread \o SubSeq(arr', blen' - l + 1, blen')
           /\ l = Len(s) => Unread' = Unread \o s
<1>1. PICK a \in Seq(Nat), o \in Nat, k \in Nat :
        /\ grow(n) = [arr |-> a, off |-> o]
        /\ k = o + (blen - off) /\ k + n <= Len(a)
        /\ SubSeq(a, o + 1, k) = Unread
  BY GrowKeeps
<1>2. o <= k
  BY <1>1, UnreadIs
<1>3. k + l <= Len(a)
  <2>1. Len(a) \in Nat /\ k + n <= Len(a)
    BY <1>1, LenProperties
  <2> QED  BY <2>1
<1>4. /\ arr' = Overwrite(a, k, s) /\ off' = o /\ blen' = k + l
      /\ isNil' = (isNil /\ a = << >>) /\ reading' = reading
  BY <1>1 DEF Grown
<1>5. Placed(a, o, k, s, l)
  BY <1>1, <1>2, <1>3, <1>4 DEF Placed, Within
<1> QED
  BY <1>5, PlacedAdds

(***************************************************************************)
(* A turn of ReadFrom appends what the reader gave.                        *)
(***************************************************************************)
LEMMA TurnAdds ==
    ASSUME Within, NEW s \in Seq(Nat), NEW ends \in BOOLEAN, ReadFromTurn(s, ends)
    PROVE  Within' /\ Unread' = Unread \o s
<1> DEFINE free == Cap - blen
           z == zeros(2 * Cap + MinRead)
<1>1. /\ Len(s) \in Nat /\ Cap \in Nat /\ arr \in Seq(Nat) /\ Cap = Len(arr)
      /\ off \in Nat /\ blen \in Nat /\ blen - off \in Nat /\ off <= blen /\ blen <= Cap
  BY LenProperties DEF Within, Cap
<1>2. CASE ~(free < MinRead)
  <2>1. /\ arr' = Overwrite(arr, blen, s) /\ off' = off /\ blen' = blen + Len(s)
        /\ isNil' = (isNil /\ arr = << >>) /\ reading' \in BOOLEAN
        /\ blen + Len(s) <= Len(arr)
    BY <1>2 DEF ReadFromTurn
  <2>2. Placed(arr, off, blen, s, Len(s))
    BY <1>1, <2>1 DEF Placed, Unread
  <2> QED  BY <1>1, <2>2, PlacedAdds
<1>3. ASSUME NEW c \in Seq(Nat), blen - off <= Len(c),
             LET b == Overwrite(c, 0, Unread)
             IN  /\ arr' = Overwrite(b, blen - off, s) /\ off' = 0
                 /\ blen' = blen - off + Len(s)
                 /\ isNil' = (isNil /\ b = << >>) /\ reading' \in BOOLEAN
                 /\ blen - off + Len(s) <= Len(b)
      PROVE  Within' /\ Unread' = Unread \o s
  <2> DEFINE b == Overwrite(c, 0, Unread)
  <2>1. b \in Seq(Nat) /\ SubSeq(b, 0 + 1, blen - off) = Unread
    BY <1>3, CopiedToStart
  <2>2. /\ arr' = Overwrite(b, blen - off, s) /\ off' = 0
        /\ blen' = blen - off + Len(s)
        /\ isNil' = (isNil /\ b = << >>) /\ reading' \in BOOLEAN
        /\ blen - off + Len(s) <= Len(b)
    BY <1>3
  <2> HIDE DEF b
  <2>3. Placed(b, 0, blen - off, s, Len(s))
    BY <1>1, <2>1, <2>2 DEF Placed
  <2> QED  BY <1>1, <2>1, <2>3, PlacedAdds
<1>4. CASE free < MinRead /\ ~(off + free < MinRead)
  <2>1. blen - off <= Len(arr)
    BY <1>1
  <2> QED  BY <1>1, <1>3, <1>4, <2>1 DEF ReadFromTurn, Slid
<1>5. CASE free < MinRead /\ off + free < MinRead
  <2>1. z \in Seq(Nat) /\ Len(z) = 2 * Cap + MinRead
    BY <1>1, Zeros, BufferAssumption
  <2>2. blen - off <= Len(z)
    BY <1>1, <2>1, BufferAssumption
  <2>3. LET b == Overwrite(z, 0, Unread)
        IN  /\ arr' = Overwrite(b, blen - off, s) /\ off' = 0
            /\ blen' = blen - off + Len(s)
            /\ isNil' = (isNil /\ b = << >>) /\ reading' \in BOOLEAN
            /\ blen - off + Len(s) <= Len(b)
    BY <1>5 DEF ReadFromTurn
  <2> HIDE DEF z
  <2> QED  BY <1>3, <2>1, <2>2, <2>3
<1> QED
  BY <1>2, <1>4, <1>5

-----------------------------------------------------------------------------
(***************************************************************************)
(* The first n unread bytes and the rest, as a read and as a cut see them. *)
(***************************************************************************)
LEMMA TakeCut ==
    ASSUME Within, NEW n \in Nat, n <= blen - off
    PROVE  /\ Unread = SubSeq(Unread, 1, n) \o SubSeq(arr, off + n + 1, blen)
           /\ Unread = SubSeq(arr, off + 1, off + n) \o SubSeq(Unread, n + 1, blen - off)
<1>1. /\ arr \in Seq(Nat) /\ off \in Nat /\ blen \in Nat /\ off <= blen /\ blen <= Len(arr)
      /\ blen - off \in Nat
  BY DEF Within, Cap
<1>2. SubSeq(Unread, 0 + 1, n) = SubSeq(arr, off + 0 + 1, off + n)
  BY <1>1, PartOfPart DEF Unread
<1>3. SubSeq(Unread, n + 1, blen - off) = SubSeq(arr, off + n + 1, off + (blen - off))
  BY <1>1, PartOfPart DEF Unread
<1>4. PICK j \in Nat, k \in Nat : j = off + 1 /\ k = off + n
  BY <1>1
<1>5. j \in 1..(k + 1) /\ blen \in k..Len(arr)
  BY <1>1, <1>4
<1>6. SubSeq(arr, j, blen) = SubSeq(arr, j, k) \o SubSeq(arr, k + 1, blen)
  BY <1>1, <1>5, TwoParts, Zenon
<1>7. Unread = SubSeq(arr, off + 1, off + n) \o SubSeq(arr, off + n + 1, blen)
  BY <1>4, <1>6 DEF Unread
<1>8. SubSeq(Unread, 1, n) = SubSeq(arr, off + 1, off + n)
  BY <1>1, <1>2
<1>9. SubSeq(Unread, n + 1, blen - off) = SubSeq(arr, off + n + 1, blen)
  BY <1>1, <1>3
<1> QED
  BY <1>7, <1>8, <1>9

(***************************************************************************)
(* The three ways in which a queue changes.                                *)
(***************************************************************************)
LEMMA QueueSteps ==
    ASSUME NEW s, \/ moved' = <<"add", s>>  /\ Unread' = Unread \o s
                  \/ moved' = <<"take", s>> /\ Unread = s \o Unread'
                  \/ moved' = <<"cut", s>>  /\ Unread = Unread' \o s
    PROVE  Queue!QueueNext
<1>1. CASE moved' = <<"add", s>> /\ Unread' = Unread \o s
  BY <1>1 DEF Queue!QueueNext, Queue!Add
<1>2. CASE moved' = <<"take", s>> /\ Unread = s \o Unread'
  BY <1>2 DEF Queue!QueueNext, Queue!Take
<1>3. CASE moved' = <<"cut", s>> /\ Unread = Unread' \o s
  BY <1>3 DEF Queue!QueueNext, Queue!Cut
<1> QED
  BY <1>1, <1>2, <1>3

(***************************************************************************)
(* A step that gives out the first n bytes, and leaves the rest where they *)
(* are or, when nothing is left, goes back to the start.                   *)
(***************************************************************************)
LEMMA OutTakes ==
    ASSUME Within, NEW n \in Nat, n <= blen - off, Out(n),
           \/ off' = off + n /\ blen' = blen
           \/ n = blen - off /\ Truncated(0)
    PROVE  Within' /\ Queue!QueueNext
<1>1. /\ arr' = arr /\ isNil' = isNil /\ reading' = reading
      /\ moved' = <<"take", SubSeq(Unread, 1, n)>>
  BY DEF Out
<1>2. /\ arr \in Seq(Nat) /\ off \in Nat /\ blen \in Nat /\ off <= blen /\ blen <= Len(arr)
  BY DEF Within, Cap
<1>3. off' \in Nat /\ blen' \in Nat /\ off' <= blen' /\ blen' <= Len(arr)
  BY <1>2, LenProperties DEF Truncated
<1>4. Within'
  BY <1>1, <1>3 DEF Within, Cap
<1>5. Unread' = SubSeq(arr, off + n + 1, blen)
  <2>1. CASE off' = off + n /\ blen' = blen
    BY <1>1, <2>1 DEF Unread
  <2>2. CASE n = blen - off /\ Truncated(0)
    <3>1. SubSeq(arr, off + n + 1, blen) = << >>
      BY <1>2, <2>2, SubSeqEmpty
    <3>2. Unread' = SubSeq(arr, 1, 0)
      BY <1>1, <2>2 DEF Unread, Truncated
    <3>3. SubSeq(arr, 1, 0) = << >>
      BY SubSeqEmpty
    <3> QED  BY <3>1, <3>2, <3>3
  <2> QED  BY <2>1, <2>2
<1>6. Unread = SubSeq(Unread, 1, n) \o Unread'
  BY <1>5, TakeCut
<1> QED
  BY <1>1, <1>4, <1>6, QueueSteps

(***************************************************************************)
(* Read gives out what is there, up to n bytes.                            *)
(***************************************************************************)
LEMMA ReadTakes ==
    ASSUME Within, NEW n \in Nat, Read(n)
    PROVE  Within' /\ Queue!QueueNext
<1>1. blen - off \in Nat /\ off \in Nat /\ blen \in Nat
  BY DEF Within
<1>2. CASE off >= blen
  <2>1. Out(0) /\ Truncated(0) /\ 0 = blen - off
    BY <1>1, <1>2 DEF Read
  <2> QED  BY <2>1, OutTakes
<1>3. CASE ~(off >= blen)
  <2> DEFINE k == Least(n, blen - off)
  <2>1. Out(k) /\ off' = off + k /\ blen' = blen
    BY <1>3 DEF Read
  <2>2. k \in Nat /\ k <= blen - off
    BY <1>1 DEF Least
  <2> HIDE DEF k
  <2> QED  BY <2>1, <2>2, OutTakes
<1> QED
  BY <1>2, <1>3

(***************************************************************************)
(* Every operation keeps the unread bytes inside the array and does to     *)
(* them what it may do to a queue.                                         *)
(***************************************************************************)
LEMMA BufStep ==
    ASSUME Within, BufNext
    PROVE  Within' /\ Queue!QueueNext
<1>0. /\ arr \in Seq(Nat) /\ off \in Nat /\ blen \in Nat /\ off <= blen /\ blen <= Len(arr)
      /\ blen - off \in Nat
  BY DEF Within, Cap
<1>1. ASSUME NEW s \in Seq(Nat), Write(s)
      PROVE  Within' /\ Queue!QueueNext
  <2>1. Len(s) \in Nat
    BY LenProperties
  <2>2. Grown(Len(s), s, Len(s)) /\ moved' = <<"add", s>>
    BY <1>1 DEF Write
  <2>3. Within' /\ Unread' = Unread \o s
    BY <2>1, <2>2, GrownAdds
  <2> QED  BY <2>2, <2>3, QueueSteps
<1>2. CASE WriteByte(2)
  <2>1. <<2>> \in Seq(Nat)
    OBVIOUS
  <2> QED  BY <1>1, <1>2, <2>1 DEF WriteByte
<1>3. CASE ReadByte
  BY <1>3, ReadTakes DEF ReadByte
<1>4. ASSUME NEW n \in Nat, Alloc(n)
      PROVE  Within' /\ Queue!QueueNext
  <2>1. << >> \in Seq(Nat) /\ Len(<< >>) = 0
    BY EmptySeq
  <2>2. Grown(n, << >>, n) /\ moved' = <<"add", SubSeq(arr', blen' - n + 1, blen')>>
    BY <1>4 DEF Alloc
  <2>3. Within' /\ Unread' = Unread \o SubSeq(arr', blen' - n + 1, blen')
    <3>1. Len(<< >>) <= n /\ n <= n
      BY <2>1
    <3> QED  BY <2>1, <2>2, <3>1, GrownAdds, Zenon
  <2> QED  BY <2>2, <2>3, QueueSteps
<1>5. ASSUME NEW n \in Nat, Grow(n)
      PROVE  Within' /\ Queue!QueueNext
  <2>1. << >> \in Seq(Nat) /\ Len(<< >>) = 0
    BY EmptySeq
  <2>2. Grown(n, << >>, 0) /\ moved' = <<"add", << >>>>
    BY <1>5 DEF Grow
  <2>3. Within' /\ Unread' = Unread \o << >>
    <3>1. 0 \in Nat /\ Len(<< >>) <= 0 /\ 0 <= n /\ 0 = Len(<< >>)
      BY <2>1
    <3> QED  BY <2>1, <2>2, <3>1, GrownAdds, Zenon
  <2> QED  BY <2>2, <2>3, QueueSteps
<1>6. ASSUME NEW n \in Nat, Truncate(n)
      PROVE  Within' /\ Queue!QueueNext
  <2>1. /\ n <= blen - off /\ arr' = arr /\ isNil' = isNil /\ reading' = reading
        /\ off' = (IF n = 0 THEN 0 ELSE off) /\ blen' = off' + n
        /\ moved' = <<"cut", SubSeq(Unread, n + 1, blen - off)>>
    BY <1>6 DEF Truncate, Truncated
  <2>2. Within'
    BY <1>0, <2>1, LenProperties DEF Within, Cap
  <2>3. Unread' = SubSeq(arr, off + 1, off + n)
    <3>1. CASE n = 0
      <4>1. Unread' = SubSeq(arr, 1, 0)
        BY <2>1, <3>1 DEF Unread
      <4>2. SubSeq(arr, 1, 0) = << >> /\ SubSeq(arr, off + 1, off + n) = << >>
        BY <1>0, <3>1, SubSeqEmpty
      <4> QED  BY <4>1, <4>2
    <3>2. CASE n # 0
      BY <2>1, <3>2 DEF Unread
    <3> QED  BY <3>1, <3>2
  <2>4. Unread = Unread' \o SubSeq(Unread, n + 1, blen - off)
    BY <2>1, <2>3, TakeCut
  <2> QED  BY <2>1, <2>2, <2>4, QueueSteps
<1>7. ASSUME NEW n \in Nat, Next(n)
      PROVE  Within' /\ Queue!QueueNext
  <2> DEFINE k == Least(n, blen - off)
  <2>1. Out(k) /\ off' = off + k /\ blen' = blen
    BY <1>7 DEF Next
  <2>2. k \in Nat /\ k <= blen - off
    BY <1>0 DEF Least
  <2> HIDE DEF k
  <2> QED  BY <2>1, <2>2, OutTakes
<1>8. ASSUME NEW n \in Nat, NEW fails \in BOOLEAN, WriteTo(n, fails)
      PROVE  Within' /\ Queue!QueueNext
  <2>1. n <= blen - off /\ Out(n)
    BY <1>8 DEF WriteTo
  <2>2. \/ off' = off + n /\ blen' = blen
        \/ n = blen - off /\ Truncated(0)
    BY <1>0, <1>8, <2>1 DEF WriteTo
  <2> QED  BY <2>1, <2>2, OutTakes
<1>9. ASSUME NEW delim \in 0..2, ReadBytes(delim)
      PROVE  Within' /\ Queue!QueueNext
  <2> DEFINE at == {i \in 1..(blen - off) : Unread[i] = delim}
             n  == IF at = {} THEN blen - off ELSE CHOOSE i \in at : \A j \in at : i <= j
  <2>1. Out(n) /\ off' = off + n /\ blen' = blen
    BY <1>9 DEF ReadBytes
  <2>2. n \in Nat /\ n <= blen - off
    <3>1. CASE at = {}
      BY <1>0, <3>1
    <3>2. CASE at # {}
      <4>1. at \subseteq 1..(blen - off)
        OBVIOUS
      <4> HIDE DEF at
      <4>2. \E i \in at : \A j \in at : i <= j
        <5>1. at \subseteq Nat
          BY <1>0, <4>1
        <5> QED  BY <3>2, <5>1, LeastOf
      <4>3. n \in at
        BY <3>2, <4>2
      <4> HIDE DEF n
      <4> QED  BY <1>0, <4>1, <4>3
    <3> QED  BY <3>1, <3>2
  <2> HIDE DEF n
  <2> QED  BY <2>1, <2>2, OutTakes
<1>10. CASE ReadFromBegin
  <2>1. /\ arr' = arr /\ isNil' = isNil /\ reading' = TRUE /\ moved' = <<"add", << >>>>
        /\ IF off >= blen THEN off' = 0 /\ blen' = 0 ELSE off' = off /\ blen' = blen
    BY <1>10 DEF ReadFromBegin, Truncated
  <2>2. Within'
    BY <1>0, <2>1, LenProperties DEF Within, Cap
  <2>3. Unread' = Unread
    <3>1. CASE off >= blen
      <4>1. Unread' = SubSeq(arr, 1, 0)
        BY <2>1, <3>1 DEF Unread
      <4>2. SubSeq(arr, 1, 0) = << >> /\ Unread = << >>
        BY <1>0, <3>1, SubSeqEmpty DEF Unread
      <4> QED  BY <4>1, <4>2
    <3>2. CASE ~(off >= blen)
      BY <2>1, <3>2 DEF Unread
    <3> QED  BY <3>1, <3>2
  <2>4. Unread \o << >> = Unread
    BY UnreadIs, ConcatEmptySeq
  <2> QED  BY <2>1, <2>2, <2>3, <2>4, QueueSteps
<1>11. ASSUME NEW s \in Seq(Nat), NEW ends \in BOOLEAN, ReadFromTurn(s, ends)
       PROVE  Within' /\ Queue!QueueNext
  <2>1. moved' = <<"add", s>>
    BY <1>11 DEF ReadFromTurn
  <2>2. Within' /\ Unread' = Unread \o s
    BY <1>11, TurnAdds
  <2> QED  BY <2>1, <2>2, QueueSteps
<1>12. Chunks \subseteq Seq(Nat) /\ 0..MaxCap \subseteq Nat
  BY BufferAssumption
<1> QED
  BY <1>1, <1>2, <1>3, <1>4, <1>5, <1>6, <1>7, <1>8, <1>9, <1>10, <1>11, <1>12,
     ReadTakes DEF BufNext

(***************************************************************************)
(* A Buffer is a queue of bytes: whatever grow, Truncate, ReadFrom and the *)
(* reads do to its array, bytes come out in the order in which they went   *)
(* in, each once (buffer.go).                                              *)
(***************************************************************************)
THEOREM QueueImplemented == BufSafety => ImplementsQueue
<1>1. BufInit => Within
  <2> SUFFICES ASSUME BufInit PROVE Within
    OBVIOUS
  <2>1. arr \in Seq(Nat)
    BY Zeros, BufferAssumption, EmptySeq DEF BufInit
  <2>2. Len(arr) \in Nat
    BY <2>1, LenProperties
  <2>3. blen \in Nat /\ blen <= Len(arr) /\ off = 0
    BY <2>2 DEF BufInit, Cap
  <2>4. isNil \in BOOLEAN /\ reading \in BOOLEAN /\ (isNil = TRUE => arr = << >>)
    BY DEF BufInit
  <2> QED  BY <2>1, <2>3, <2>4 DEF Within, Cap
<1>2. BufInit => Queue!QueueInit
  BY DEF BufInit, Queue!QueueInit
<1>3. Within /\ [BufNext]_bufVars => Within' /\ [Queue!QueueNext]_<<Unread, moved>>
  <2> SUFFICES ASSUME Within, [BufNext]_bufVars
               PROVE  Within' /\ [Queue!QueueNext]_<<Unread, moved>>
    OBVIOUS
  <2>1. CASE BufNext
    BY <2>1, BufStep
  <2>2. CASE UNCHANGED bufVars
    BY <2>2 DEF bufVars, Within, Cap, Unread
  <2> QED  BY <2>1, <2>2
<1> QED
  BY <1>1, <1>2, <1>3, PTL DEF BufSafety, ImplementsQueue, Queue!QueueSpec

=============================================================================
