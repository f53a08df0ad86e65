-------------------------- MODULE BufferPoolProofs ---------------------------
(***************************************************************************)
(* Proofs about module BufferPool, for any number of goroutines, any       *)
(* baseline, threshold and capacities: every property that a run checks of *)
(* the pool, and its typing.                                               *)
(*                                                                         *)
(* Each property has an inductive invariant of its own.  Knows and         *)
(* RightClass carry LongEnough; ClosedOnce carries SafeClose; OneResets,   *)
(* which says who resets a counter, carries CounterResets; Distinct and    *)
(* Carries say where arrays are without counting them, and OneOwner        *)
(* follows by counting.                                                    *)
(***************************************************************************)
EXTENDS BufferPool, FiniteSetTheorems, TLAPS

\* the pool by itself
Safety == PoolInit /\ [][PoolNext]_poolVars

Buf == [id : Nat, cap : Nat]

Places == {"idle", "recv", "half", "pushHalf", "setHalf", "resetHalf", "short", "pushShort",
           "load", "make", "cas", "miss", "setMiss", "resetMiss", "put", "lock", "send"}

TypeOK ==
    /\ pool \in [0..5 -> Seq(Buf)]
    /\ size \in [1..5 -> Nat] /\ sizeMiss \in [1..5 -> Nat] /\ sizeHalf \in [1..5 -> Nat]
    /\ closed \in BOOLEAN /\ closeC \in {0, 1} /\ drain \in {"runs", "closed"}
    /\ pc \in [Threads -> Places]
    /\ want \in [Threads -> Nat] /\ buf \in [Threads -> Buf] /\ sz \in [Threads -> Nat]

(***************************************************************************)
(* What a goroutine knows between two steps of Get: the class it works in  *)
(* is not class 0 once it looks at sizes; the buffer it took out of its    *)
(* channel is of that channel's class, and twice too long where it is to   *)
(* be halved; the size it has compared is long enough.                     *)
(***************************************************************************)
KnowsOf(t) ==
    /\ pc[t] \in {"half", "setHalf", "resetHalf", "short", "pushShort", "load", "make",
                  "cas", "miss", "setMiss", "resetMiss"} => Class(t) # 0
    /\ pc[t] \in {"half", "pushHalf", "setHalf", "resetHalf", "short", "pushShort"} =>
          poolNum(buf[t].cap) = Class(t)
    /\ pc[t] \in {"half", "pushHalf", "setHalf"} => Twice(buf[t].cap, want[t])
    /\ pc[t] = "make" => sz[t] >= want[t]
    /\ pc[t] \in {"idle", "lock", "send"} => buf[t].cap >= want[t]

Knows == \A t \in Threads : KnowsOf(t)

(***************************************************************************)
(* Once closed nobody is inside, and of the one Close that closes, the     *)
(* element in closeC and the end of drain only one is there at a time.     *)
(***************************************************************************)
ClosedOnce ==
    /\ closed => Inside = {}
    /\ closeC = 1 \/ drain = "closed" => closed
    /\ ~(closeC = 1 /\ drain = "closed")
    /\ \A t \in Threads : At(t, "send") =>
          closed /\ closeC = 0 /\ drain = "runs" /\ \A u \in Threads : At(u, "send") => u = t

(***************************************************************************)
(* A counter is at the threshold or above exactly while a goroutine        *)
(* changes the size of that class, and that goroutine is the only one.     *)
(***************************************************************************)
Missing(k) == {t \in Threads : pc[t] \in {"setMiss", "resetMiss"} /\ Class(t) = k}
Halving(k) == {t \in Threads : pc[t] \in {"setHalf", "resetHalf"} /\ Class(t) = k}

OneIf(n, S) == (n >= Threshold <=> S # {}) /\ \A t, u \in S : t = u

OneResets == \A k \in 1..5 : OneIf(sizeMiss[k], Missing(k)) /\ OneIf(sizeHalf[k], Halving(k))

PInv == TypeOK /\ Knows /\ RightClass
-----------------------------------------------------------------------------
(* The operators. *)

(***************************************************************************)
(* The bounds that poolNum compares with cut the lengths into intervals.   *)
(***************************************************************************)
LEMMA PoolNum ==
    ASSUME NEW n \in Int
    PROVE  LET b == baseline0 \div 4  h == baseline0 \div 2
           IN  /\ b \in Nat /\ h \in Nat /\ b <= h /\ h < baseline0
               /\ poolNum(n) = IF n <= b THEN 1
                               ELSE IF n <= h THEN 2
                               ELSE IF n <= baseline0 THEN 0
                               ELSE IF n <= baseline0 * 2 THEN 3
                               ELSE IF n <= baseline0 * 4 THEN 4 ELSE 5
<1> DEFINE b == baseline0 \div 4
           h == baseline0 \div 2
           P(i) == n <= baseline[i] /\ \A j \in 1..(i - 1) : n > baseline[j]
<1>1. baseline0 \in Nat \ {0} /\ b \in Nat /\ h \in Nat /\ b <= h /\ h < baseline0
  BY PoolAssumption
<1>2. baseline[1] = b /\ baseline[2] = h /\ baseline[3] = baseline0 * 2
      /\ baseline[4] = baseline0 * 4
  BY DEF baseline
<1>3. /\ P(1) <=> n <= b
      /\ P(2) <=> n <= h /\ n > b
      /\ P(3) <=> n <= baseline0 * 2 /\ n > h /\ n > b
      /\ P(4) <=> n <= baseline0 * 4 /\ n > baseline0 * 2 /\ n > h /\ n > b
  <2> USE <1>1, <1>2
  <2>1. 1..(1 - 1) = {} /\ 1..(2 - 1) = {1} /\ 1..(3 - 1) = {1, 2} /\ 1..(4 - 1) = {1, 2, 3}
    OBVIOUS
  <2> HIDE DEF b, h
  <2> QED  BY <2>1
<1>4. \A i, j \in 1..4 : P(i) /\ P(j) => i = j
  BY <1>1, <1>3
<1>5. (\E i \in 1..4 : n <= baseline[i]) <=> n <= baseline0 * 4
  <2>1. 1..4 = {1, 2, 3, 4}
    OBVIOUS
  <2>2. b <= baseline0 * 4 /\ h <= baseline0 * 4 /\ baseline0 * 2 <= baseline0 * 4
    BY <1>1
  <2> QED  BY <1>1, <1>2, <2>1, <2>2
<1>6. ASSUME NEW i \in 1..4, P(i), ~(n <= baseline0 /\ n > h)  PROVE poolNum(n) = i
  <2>1. (CHOOSE j \in 1..4 : P(j)) = i
    BY <1>4, <1>6
  <2>2. \E j \in 1..4 : n <= baseline[j]
    BY <1>6
  <2> QED  BY <1>6, <2>1, <2>2 DEF poolNum
<1>7. n > baseline0 * 4 => poolNum(n) = 5
  BY <1>1, <1>5 DEF poolNum
<1>8. n <= baseline0 /\ n > h => poolNum(n) = 0
  BY DEF poolNum
<1> HIDE DEF b, h, P
<1>9. /\ n <= b => poolNum(n) = 1
      /\ n <= h /\ n > b => poolNum(n) = 2
      /\ n <= baseline0 * 2 /\ n > baseline0 => poolNum(n) = 3
      /\ n <= baseline0 * 4 /\ n > baseline0 * 2 => poolNum(n) = 4
  <2>1. n <= b => P(1) /\ ~(n <= baseline0 /\ n > h)
    BY <1>1, <1>3
  <2>2. n <= h /\ n > b => P(2) /\ ~(n <= baseline0 /\ n > h)
    BY <1>1, <1>3
  <2>3. n <= baseline0 * 2 /\ n > baseline0 => P(3) /\ ~(n <= baseline0 /\ n > h)
    BY <1>1, <1>3
  <2>4. n <= baseline0 * 4 /\ n > baseline0 * 2 => P(4) /\ ~(n <= baseline0 /\ n > h)
    BY <1>1, <1>3
  <2> QED  BY <2>1, <2>2, <2>3, <2>4, <1>6
<1>10. poolNum(n) = IF n <= b THEN 1 ELSE IF n <= h THEN 2 ELSE IF n <= baseline0 THEN 0
                    ELSE IF n <= baseline0 * 2 THEN 3 ELSE IF n <= baseline0 * 4 THEN 4 ELSE 5
  BY <1>1, <1>7, <1>8, <1>9
<1> QED  BY <1>1, <1>10 DEF b, h

(***************************************************************************)
(* A class is a number from 0 to 5, and holds every length between two of  *)
(* its lengths; what is in class 0 fits into a buffer of the baseline.     *)
(***************************************************************************)
LEMMA PoolNumConvex ==
    /\ \A n \in Int : poolNum(n) \in 0..5 /\ (poolNum(n) = 0 => n <= baseline0)
    /\ \A a, n, c \in Int : a <= n /\ n <= c /\ poolNum(a) = poolNum(c) => poolNum(n) = poolNum(a)
<1>1. baseline0 \in Nat
  BY PoolAssumption
<1>2. ASSUME NEW n \in Int  PROVE poolNum(n) \in 0..5 /\ (poolNum(n) = 0 => n <= baseline0)
  BY <1>1, PoolNum
<1>3. ASSUME NEW a \in Int, NEW n \in Int, NEW c \in Int, a <= n, n <= c, poolNum(a) = poolNum(c)
      PROVE  poolNum(n) = poolNum(a)
  <2> DEFINE b == baseline0 \div 4
             h == baseline0 \div 2
             p == baseline0 * 2
             q == baseline0 * 4
             f(x) == IF x <= b THEN 1 ELSE IF x <= h THEN 2 ELSE IF x <= baseline0 THEN 0
                     ELSE IF x <= p THEN 3 ELSE IF x <= q THEN 4 ELSE 5
  <2>1. b \in Nat /\ h \in Nat /\ b <= h /\ h < baseline0
    BY <1>1, PoolNum
  <2>2. p \in Nat /\ q \in Nat /\ baseline0 <= p /\ p <= q
    BY <1>1
  <2>3. ASSUME NEW x \in Int
        PROVE  /\ poolNum(x) = 1 <=> x <= b
               /\ poolNum(x) = 2 <=> b < x /\ x <= h
               /\ poolNum(x) = 0 <=> h < x /\ x <= baseline0
               /\ poolNum(x) = 3 <=> baseline0 < x /\ x <= p
               /\ poolNum(x) = 4 <=> p < x /\ x <= q
               /\ poolNum(x) = 5 <=> q < x
    <3>1. poolNum(x) = f(x)
      BY PoolNum
    <3> HIDE DEF b, h, p, q
    <3> QED  BY <1>1, <2>1, <2>2, <3>1
  <2> HIDE DEF b, h, p, q
  <2>4. poolNum(a) \in {0, 1, 2, 3, 4, 5}
    BY <1>2
  <2> QED  BY <1>1, <1>3, <2>1, <2>2, <2>3, <2>4
<1> QED  BY <1>2, <1>3

LEMMA ImageFinite ==
    ASSUME NEW S, IsFiniteSet(S), NEW f
    PROVE  IsFiniteSet({f[x] : x \in S})
<1> DEFINE T == {f[x] : x \in S}
           g == [x \in S |-> f[x]]
<1>1. g \in Surjection(S, T)
  BY DEF Surjection
<1> QED  BY <1>1, FS_Surjection

(***************************************************************************)
(* The buffers in use are finitely many, so that make has an array that    *)
(* is not one of them.                                                     *)
(***************************************************************************)
LEMMA InUseFinite ==
    ASSUME TypeOK
    PROVE  IsFiniteSet(InUse)
<1> DEFINE held == [t \in Threads |-> buf[t].id]
           set == [k \in 0..5 |-> ToSet(pool[k])]
           ident == [b \in Buf |-> b.id]
           Queued == UNION {ToSet(pool[k]) : k \in 0..5}
<1>1. IsFiniteSet({buf[t].id : t \in Threads})
  <2>1. {held[t] : t \in Threads} = {buf[t].id : t \in Threads}
    OBVIOUS
  <2>2. IsFiniteSet({held[t] : t \in Threads})
    BY PoolAssumption, ImageFinite
  <2> QED  BY <2>1, <2>2
<1>2. ASSUME NEW k \in 0..5  PROVE IsFiniteSet(ToSet(pool[k])) /\ ToSet(pool[k]) \subseteq Buf
  <2>1. pool[k] \in Seq(Buf)
    BY DEF TypeOK
  <2>2. ToSet(pool[k]) = {pool[k][i] : i \in 1..Len(pool[k])} /\ Len(pool[k]) \in Int /\ 1 \in Int
    BY <2>1 DEF ToSet
  <2>3. IsFiniteSet(1..Len(pool[k]))
    BY <2>2, FS_Interval, Zenon
  <2>4. IsFiniteSet({pool[k][i] : i \in 1..Len(pool[k])})
    BY <2>3, ImageFinite
  <2> QED  BY <2>1, <2>2, <2>4
<1>3. IsFiniteSet({ToSet(pool[k]) : k \in 0..5})
  <2> 0 \in Int /\ 5 \in Int
    OBVIOUS
  <2>1. IsFiniteSet(0..5)
    BY FS_Interval, Zenon
  <2>2. IsFiniteSet({set[k] : k \in 0..5})
    BY <2>1, ImageFinite
  <2>3. {set[k] : k \in 0..5} = {ToSet(pool[k]) : k \in 0..5}
    OBVIOUS
  <2> QED  BY <2>2, <2>3
<1>4. IsFiniteSet(Queued) /\ Queued \subseteq Buf
  BY <1>2, <1>3, FS_UNION
<1>5. IsFiniteSet({b.id : b \in Queued})
  <2>1. IsFiniteSet({ident[b] : b \in Queued})
    BY <1>4, ImageFinite
  <2>2. {ident[b] : b \in Queued} = {b.id : b \in Queued}
    BY <1>4
  <2> QED  BY <2>1, <2>2
<1> QED  BY <1>1, <1>5, FS_Union DEF InUse

LEMMA Fresh ==
    ASSUME TypeOK, NEW c \in Nat
    PROVE  /\ Make(c) \in Buf /\ Make(c).cap = c
           /\ Make(c).id \notin InUse /\ Make(c).id # 0
<1> DEFINE n == Cardinality(InUse)
           Free == {i \in 1..(n + 1) : i \notin InUse}
           P(i) == i \notin InUse /\ \A j \in 1..(i - 1) : j \in InUse
<1>1. IsFiniteSet(InUse) /\ n \in Nat
  BY InUseFinite, FS_CardinalityType
<1>2. Free # {}
  <2>1. SUFFICES ASSUME Free = {}  PROVE FALSE
    OBVIOUS
  <2>2. 1..(n + 1) \in SUBSET InUse
    BY <2>1
  <2>3. Cardinality(1..(n + 1)) <= n
    BY <1>1, <2>2, FS_Subset
  <2>4. Cardinality(1..(n + 1)) = n + 1
    BY <1>1, FS_Interval
  <2> QED  BY <1>1, <2>3, <2>4
<1>3. \E i \in Free : \A j \in Free : ~(j < i)
  <2>1. Free \subseteq Nat
    BY <1>1
  <2>2. \E i \in Free : \A j \in Free : ~(<<j, i>> \in OpToRel(<, Nat))
    BY <1>2, <2>1, WFMin, NatLessThanWellFounded
  <2> QED  BY <2>1, <2>2 DEF OpToRel
<1>4. \E i \in 1..(n + 1) : P(i)
  <2>1. PICK i \in Free : \A j \in Free : ~(j < i)
    BY <1>3
  <2>2. \A j \in 1..(i - 1) : j \in InUse
    BY <1>1, <2>1
  <2> QED  BY <2>1, <2>2
<1> DEFINE m == CHOOSE i \in 1..(n + 1) : P(i)
<1>5. m \in 1..(n + 1) /\ m \notin InUse
  BY <1>4
<1>6. Make(c) = [id |-> m, cap |-> c]
  BY DEF Make
<1> HIDE DEF m
<1> QED  BY <1>1, <1>5, <1>6 DEF Buf

-----------------------------------------------------------------------------
(* Typing. *)

LEMMA ClassType ==
    ASSUME TypeOK, NEW t \in Threads
    PROVE  Class(t) \in 0..5 /\ (Class(t) = 0 => want[t] <= baseline0)
<1>1. want[t] \in Int
  BY DEF TypeOK
<1>2. poolNum(want[t]) \in 0..5 /\ (poolNum(want[t]) = 0 => want[t] <= baseline0)
  BY <1>1, PoolNumConvex
<1> QED  BY <1>2 DEF Class

LEMMA ReturnTyped ==
    ASSUME TypeOK, NEW t \in Threads, NEW b \in Buf, Return(t, b)
    PROVE  /\ pc' \in [Threads -> Places] /\ want' \in [Threads -> Nat]
           /\ buf' \in [Threads -> Buf] /\ sz' \in [Threads -> Nat]
BY DEF TypeOK, Return, Goto, Places

LEMMA SendTyped ==
    ASSUME TypeOK, NEW k \in 0..5, NEW b \in Buf, Send(k, b)
    PROVE  pool' \in [0..5 -> Seq(Buf)]
<1>1. pool[k] \in Seq(Buf)
  BY DEF TypeOK
<1>2. Append(pool[k], b) \in Seq(Buf)
  BY <1>1
<1> QED  BY <1>2 DEF TypeOK, Send

LEMMA NoneIsBuf == None \in Buf
BY DEF None, Buf

LEMMA TypeStep ==
    ASSUME TypeOK, Knows, PoolNext
    PROVE  TypeOK'
<1>a. /\ baseline0 \in Nat /\ Lengths \subseteq Nat
      /\ \A f \in Foreign : f[1] \in Nat /\ f[2] \in Nat /\ f[1] <= f[2]
  BY PoolAssumption
<1>1. ASSUME NEW t \in Threads, NEW n \in Lengths, GetEnter(t, n)  PROVE TypeOK'
  <2>1. Make(n) \in Buf /\ n \in Nat
    BY <1>a, Fresh
  <2> QED  BY <1>1, <2>1 DEF TypeOK, GetEnter, sizes, closing, Goto, Places
<1>2. ASSUME NEW t \in Threads, GetStep(t)  PROVE TypeOK'
  <2> want[t] \in Nat /\ sz[t] \in Nat /\ buf[t] \in Buf /\ buf[t].cap \in Nat /\ Class(t) \in 0..5
    BY ClassType DEF TypeOK, Buf
  <2>m. Make(want[t]) \in Buf /\ Make(sz[t]) \in Buf /\ Make(baseline0) \in Buf
    BY <1>a, Fresh
  <2>1. CASE GetMiss(t)
    BY <2>1, <2>m, ReturnTyped DEF TypeOK, GetMiss, sizes, closing, Goto, Places
  <2>2. CASE GetRecv(t)
    <3> DEFINE k == Class(t)
               b == Head(pool[k])
    <3>1. pool[k] \in Seq(Buf) /\ pool[k] # << >>
      BY <2>2 DEF GetRecv, TypeOK
    <3>2. b \in Buf /\ Tail(pool[k]) \in Seq(Buf)
      BY <3>1
    <3>3. pool' = [pool EXCEPT ![k] = Tail(@)] /\ UNCHANGED <<sizes, closing>>
      BY <2>2 DEF GetRecv
    <3>4. \/ /\ \E l \in {"pushHalf", "half", "short"} : Goto(t, l)
             /\ buf' = [buf EXCEPT ![t] = b] /\ UNCHANGED <<want, sz>>
          \/ Return(t, b) \/ Return(t, Make(baseline0))
      BY <2>2 DEF GetRecv
    <3> HIDE DEF k, b
    <3>5. /\ pc' \in [Threads -> Places] /\ want' \in [Threads -> Nat]
          /\ buf' \in [Threads -> Buf] /\ sz' \in [Threads -> Nat]
      BY <3>2, <3>4, <2>m, ReturnTyped DEF TypeOK, Goto, Places
    <3>6. pool' \in [0..5 -> Seq(Buf)]
      BY <3>2, <3>3 DEF TypeOK
    <3> QED  BY <3>3, <3>5, <3>6 DEF TypeOK, sizes, closing
  <2>3. CASE GetHalf(t)
    <3>1. Class(t) \in 1..5
      BY <2>3 DEF GetHalf, Knows, KnowsOf, At
    <3>2. sizeHalf[Class(t)] \in Nat
      BY <3>1 DEF TypeOK
    <3>3. sizeHalf[Class(t)] + 1 \in Nat
      BY <3>2
    <3>4. sizeHalf' \in [1..5 -> Nat]
      BY <2>3, <3>1, <3>3 DEF TypeOK, GetHalf
    <3> QED  BY <2>3, <3>4 DEF TypeOK, GetHalf, closing, Goto, Places
  <2>4. CASE PushHalf(t)
    BY <2>4, <2>m, ReturnTyped, SendTyped DEF TypeOK, PushHalf, sizes, closing
  <2>5. CASE SetHalf(t)
    <3>1. buf[t].cap \div 2 \in Nat
      OBVIOUS
    <3> QED  BY <2>5, <3>1 DEF TypeOK, SetHalf, closing, Goto, Places
  <2>6. CASE ResetHalf(t)
    BY <2>6, <2>m, ReturnTyped DEF TypeOK, ResetHalf, closing
  <2>7. CASE GetShort(t)
    BY <2>7, NoneIsBuf DEF TypeOK, GetShort, sizes, closing, Goto, Places
  <2>8. CASE PushShort(t)
    BY <2>8, NoneIsBuf, SendTyped DEF TypeOK, PushShort, sizes, closing, Goto, Places
  <2>9. CASE GetLoad(t)
    <3>1. Class(t) \in 1..5
      BY <2>9 DEF GetLoad, Knows, KnowsOf, At
    <3>2. size[Class(t)] \in Nat
      BY <3>1 DEF TypeOK
    <3> QED  BY <2>9, <3>1, <3>2 DEF TypeOK, GetLoad, sizes, closing, Goto, Places
  <2>10. CASE GetMake(t)
    BY <2>10, <2>m, ReturnTyped DEF TypeOK, GetMake, sizes, closing
  <2>11. CASE GetCAS(t)
    BY <2>11, <2>m, ReturnTyped DEF TypeOK, GetCAS, closing
  <2>12. CASE GetTooSmall(t)
    <3>1. Class(t) \in 1..5
      BY <2>12 DEF GetTooSmall, Knows, KnowsOf, At
    <3>2. sizeMiss[Class(t)] \in Nat
      BY <3>1 DEF TypeOK
    <3>3. sizeMiss[Class(t)] + 1 \in Nat
      BY <3>2
    <3>4. sizeMiss' \in [1..5 -> Nat]
      BY <2>12, <3>1, <3>3 DEF TypeOK, GetTooSmall
    <3> QED  BY <2>12, <2>m, <3>4, ReturnTyped
             DEF TypeOK, GetTooSmall, closing, Goto, Places
  <2>13. CASE SetMiss(t)
    BY <2>13 DEF TypeOK, SetMiss, closing, Goto, Places
  <2>14. CASE ResetMiss(t)
    BY <2>14, <2>m, ReturnTyped DEF TypeOK, ResetMiss, closing
  <2> QED  BY <1>2, <2>1, <2>2, <2>3, <2>4, <2>5, <2>6, <2>7, <2>8, <2>9, <2>10, <2>11,
             <2>12, <2>13, <2>14 DEF GetStep
<1>3. ASSUME NEW t \in Threads, PutEnter(t)  PROVE TypeOK'
  BY <1>3, NoneIsBuf, ReturnTyped DEF TypeOK, PutEnter, sizes, closing, Goto, Places
<1>4. ASSUME NEW t \in Threads, PutSend(t)  PROVE TypeOK'
  <2>1. buf[t] \in Buf /\ buf[t].cap \in Int
    BY DEF TypeOK, Buf
  <2>2. poolNum(buf[t].cap) \in 0..5
    BY <2>1, PoolNumConvex
  <2> QED  BY <1>4, <2>1, <2>2, NoneIsBuf, ReturnTyped, SendTyped DEF TypeOK, PutSend, sizes, closing
<1>5. ASSUME NEW t \in Threads, LetGo(t)  PROVE TypeOK'
  BY <1>5, NoneIsBuf, ReturnTyped DEF TypeOK, LetGo, sizes, closing
<1>6. ASSUME NEW t \in Threads, NEW f \in Foreign, Elsewhere(t, f)  PROVE TypeOK'
  <2>1. Make(f[2]) \in Buf
    BY <1>a, Fresh
  <2> QED  BY <1>6, <1>a, <2>1 DEF TypeOK, Elsewhere, sizes, closing
<1>7. ASSUME NEW t \in Threads, CloseBegin(t) \/ CloseLock(t) \/ CloseSend(t)  PROVE TypeOK'
  <2>1. CASE CloseBegin(t)
    BY <2>1 DEF TypeOK, CloseBegin, sizes, closing, Goto, Places
  <2>2. CASE CloseLock(t)
    BY <2>2 DEF TypeOK, CloseLock, sizes, Goto, Places
  <2>3. CASE CloseSend(t)
    <3>1. closeC' = 1
      BY <2>3 DEF TypeOK, CloseSend
    <3> QED  BY <2>3, <3>1 DEF TypeOK, CloseSend, sizes, Goto, Places
  <2> QED  BY <1>7, <2>1, <2>2, <2>3
<1>8. ASSUME NEW k \in 0..5, DrainTick(k)  PROVE TypeOK'
  <2>1. pool[k] \in Seq(Buf) /\ pool[k] # << >>
    BY <1>8 DEF DrainTick, TypeOK
  <2>2. Tail(pool[k]) \in Seq(Buf)
    BY <2>1
  <2> QED  BY <1>8, <2>2 DEF TypeOK, DrainTick, sizes, closing, locals
<1>9. ASSUME DrainClose  PROVE TypeOK'
  BY <1>9 DEF TypeOK, DrainClose, sizes, locals
<1> QED  BY <1>1, <1>2, <1>3, <1>4, <1>5, <1>6, <1>7, <1>8, <1>9 DEF PoolNext

-----------------------------------------------------------------------------
(* What a goroutine knows. *)

(***************************************************************************)
(* What a goroutine knows is about its own variables only.                 *)
(***************************************************************************)
LEMMA OthersKnow ==
    ASSUME TypeOK, Knows, NEW t \in Threads, KnowsOf(t)',
           \A u \in Threads \ {t} : /\ pc'[u] = pc[u] /\ want'[u] = want[u]
                                    /\ buf'[u] = buf[u] /\ sz'[u] = sz[u]
    PROVE  Knows'
<1>1. SUFFICES ASSUME NEW u \in Threads \ {t}  PROVE KnowsOf(u)'
  BY DEF Knows
<1>2. KnowsOf(u) /\ pc'[u] = pc[u] /\ want'[u] = want[u] /\ buf'[u] = buf[u] /\ sz'[u] = sz[u]
  BY DEF Knows
<1>3. Class(u)' = Class(u)
  BY <1>2 DEF Class
<1> QED  BY <1>2, <1>3 DEF KnowsOf, Twice

LEMMA ReturnKnows ==
    ASSUME TypeOK, Knows, NEW t \in Threads, NEW b \in Buf, Return(t, b),
           b # None => b.cap >= want[t]
    PROVE  Knows'
<1>1. /\ pc'[t] = "idle" /\ buf'[t] = b /\ want'[t] = IF b = None THEN 0 ELSE want[t]
      /\ \A u \in Threads \ {t} : /\ pc'[u] = pc[u] /\ want'[u] = want[u]
                                  /\ buf'[u] = buf[u] /\ sz'[u] = sz[u]
  BY DEF TypeOK, Return, Goto
<1>2. b.cap \in Nat /\ want'[t] <= b.cap
  BY <1>1 DEF Buf, TypeOK, None
<1>3. KnowsOf(t)'
  BY <1>1, <1>2 DEF KnowsOf
<1> QED  BY <1>1, <1>3, OthersKnow

LEMMA KnowsStep ==
    ASSUME TypeOK, Knows, RightClass, PoolNext
    PROVE  Knows'
<1>a. /\ baseline0 \in Nat /\ Lengths \subseteq Nat
      /\ \A f \in Foreign : f[1] \in Nat /\ f[2] \in Nat /\ f[1] <= f[2]
  BY PoolAssumption
<1>1. ASSUME NEW t \in Threads, NEW n \in Lengths, GetEnter(t, n)  PROVE Knows'
  <2>1. Make(n).cap = n /\ n \in Nat
    BY <1>a, Fresh
  <2>2. KnowsOf(t)'
    <3>1. CASE closed
      <4>1. pc'[t] = "idle" /\ want'[t] = n /\ buf'[t] = Make(n)
        BY <1>1, <3>1 DEF TypeOK, GetEnter, At
      <4> QED  BY <2>1, <4>1 DEF KnowsOf
    <3>2. CASE ~closed
      <4>1. pc'[t] = "recv"
        BY <1>1, <3>2 DEF TypeOK, GetEnter, Goto
      <4> QED  BY <4>1 DEF KnowsOf
    <3> QED  BY <3>1, <3>2
  <2> QED  BY <1>1, <2>2, OthersKnow DEF TypeOK, GetEnter, Goto
<1>2. ASSUME NEW t \in Threads, GetStep(t)  PROVE Knows'
  <2>c. /\ want[t] \in Nat /\ sz[t] \in Nat /\ buf[t] \in Buf /\ buf[t].cap \in Nat
        /\ Class(t) \in 0..5 /\ (Class(t) = 0 => want[t] <= baseline0)
    BY ClassType DEF TypeOK, Buf
  <2>k. KnowsOf(t)
    BY DEF Knows
  <2>m. /\ Make(want[t]) \in Buf /\ Make(sz[t]) \in Buf /\ Make(baseline0) \in Buf
        /\ Make(want[t]).cap = want[t] /\ Make(sz[t]).cap = sz[t]
        /\ Make(baseline0).cap = baseline0
    BY <1>a, <2>c, Fresh
  <2>r. Return(t, Make(want[t])) => Knows'
    BY <2>c, <2>m, ReturnKnows
  <2>1. CASE GetMiss(t)
    <3>1. CASE Class(t) = 0
      BY <2>1, <2>c, <2>m, <3>1, <1>a, ReturnKnows DEF GetMiss
    <3>2. CASE Class(t) # 0
      <4>1. KnowsOf(t)'
        BY <2>1, <2>c, <3>2 DEF TypeOK, GetMiss, Goto, KnowsOf, Class
      <4> QED  BY <2>1, <3>2, <4>1, OthersKnow DEF TypeOK, GetMiss, Goto
    <3> QED  BY <3>1, <3>2
  <2>2. CASE GetRecv(t)
    <3> DEFINE k == Class(t)
               b == Head(pool[k])
    <3>1. pool[k] \in Seq(Buf) /\ pool[k] # << >>
      BY <2>2, <2>c DEF GetRecv, TypeOK
    <3>2. b \in Buf /\ b \in ToSet(pool[k])
      BY <3>1 DEF ToSet
    <3>3. b.cap \in Nat /\ poolNum(b.cap) = k
      BY <2>c, <3>2 DEF RightClass, Buf
    <3>4. \/ /\ Goto(t, IF k = 0 THEN "pushHalf" ELSE "half")
             /\ Twice(b.cap, want[t])
             /\ buf' = [buf EXCEPT ![t] = b] /\ UNCHANGED <<want, sz>>
          \/ b.cap >= want[t] /\ Return(t, b)
          \/ k = 0 /\ Return(t, Make(baseline0))
          \/ k # 0 /\ Goto(t, "short") /\ buf' = [buf EXCEPT ![t] = b] /\ UNCHANGED <<want, sz>>
      BY <2>2 DEF GetRecv
    <3>5. Class(t)' = poolNum(want'[t]) /\ k = poolNum(want[t])
      BY DEF Class
    <3> HIDE DEF b
    <3>6. CASE b.cap >= want[t] /\ Return(t, b)
      BY <3>2, <3>6, ReturnKnows
    <3>7. CASE k = 0 /\ Return(t, Make(baseline0))
      BY <2>c, <2>m, <3>7, <1>a, ReturnKnows
    <3>8. CASE /\ Goto(t, IF k = 0 THEN "pushHalf" ELSE "half")
               /\ Twice(b.cap, want[t])
               /\ buf' = [buf EXCEPT ![t] = b] /\ UNCHANGED <<want, sz>>
      <4>1. pc'[t] \in {"pushHalf", "half"} /\ (pc'[t] = "half" => k # 0)
            /\ buf'[t] = b /\ want'[t] = want[t]
        BY <3>8 DEF TypeOK, Goto
      <4>2. KnowsOf(t)'
        BY <3>3, <3>5, <3>8, <4>1 DEF KnowsOf, Twice
      <4> QED  BY <3>8, <4>2, OthersKnow DEF TypeOK, Goto
    <3>9. CASE k # 0 /\ Goto(t, "short") /\ buf' = [buf EXCEPT ![t] = b] /\ UNCHANGED <<want, sz>>
      <4>1. pc'[t] = "short" /\ buf'[t] = b /\ want'[t] = want[t]
        BY <3>9 DEF TypeOK, Goto
      <4>2. KnowsOf(t)'
        BY <3>3, <3>5, <3>9, <4>1 DEF KnowsOf
      <4> QED  BY <3>9, <4>2, OthersKnow DEF TypeOK, Goto
    <3> QED  BY <3>4, <3>6, <3>7, <3>8, <3>9
  <2>3. CASE GetHalf(t)
    <3>1. KnowsOf(t)'
      BY <2>3, <2>k DEF TypeOK, GetHalf, At, Goto, KnowsOf, Class, Twice
    <3> QED  BY <2>3, <3>1, OthersKnow DEF TypeOK, GetHalf, Goto
  <2>4. CASE PushHalf(t)
    BY <2>4, <2>r DEF PushHalf
  <2>5. CASE SetHalf(t)
    <3>1. KnowsOf(t)'
      BY <2>5, <2>k DEF TypeOK, SetHalf, At, Goto, KnowsOf, Class
    <3> QED  BY <2>5, <3>1, OthersKnow DEF TypeOK, SetHalf, Goto
  <2>6. CASE ResetHalf(t)
    BY <2>6, <2>r DEF ResetHalf
  <2>7. CASE GetShort(t)
    <3>1. KnowsOf(t)'
      BY <2>7, <2>k DEF TypeOK, GetShort, At, Goto, KnowsOf, Class
    <3> QED  BY <2>7, <3>1, OthersKnow DEF TypeOK, GetShort, Goto
  <2>8. CASE PushShort(t)
    <3>1. KnowsOf(t)'
      BY <2>8, <2>k DEF TypeOK, PushShort, At, Goto, KnowsOf, Class
    <3> QED  BY <2>8, <3>1, OthersKnow DEF TypeOK, PushShort, Goto
  <2>9. CASE GetLoad(t)
    <3>1. KnowsOf(t)'
      BY <2>9, <2>k DEF TypeOK, GetLoad, At, Goto, KnowsOf, Class
    <3> QED  BY <2>9, <3>1, OthersKnow DEF TypeOK, GetLoad, Goto
  <2>10. CASE GetMake(t)
    <3>1. sz[t] >= want[t]
      BY <2>10, <2>k DEF GetMake, At, KnowsOf
    <3> QED  BY <2>10, <2>m, <3>1, ReturnKnows DEF GetMake
  <2>11. CASE GetCAS(t)
    BY <2>11, <2>r DEF GetCAS
  <2>12. CASE GetTooSmall(t)
    <3>1. CASE Goto(t, "setMiss") /\ UNCHANGED <<want, buf, sz>>
      <4>1. KnowsOf(t)'
        BY <2>12, <2>k, <3>1 DEF TypeOK, GetTooSmall, At, Goto, KnowsOf, Class
      <4> QED  BY <3>1, <4>1, OthersKnow DEF TypeOK, Goto
    <3> QED  BY <2>12, <2>r, <3>1 DEF GetTooSmall
  <2>13. CASE SetMiss(t)
    <3>1. KnowsOf(t)'
      BY <2>13, <2>k DEF TypeOK, SetMiss, At, Goto, KnowsOf, Class
    <3> QED  BY <2>13, <3>1, OthersKnow DEF TypeOK, SetMiss, Goto
  <2>14. CASE ResetMiss(t)
    BY <2>14, <2>r DEF ResetMiss
  <2> QED  BY <1>2, <2>1, <2>2, <2>3, <2>4, <2>5, <2>6, <2>7, <2>8, <2>9, <2>10, <2>11,
             <2>12, <2>13, <2>14 DEF GetStep
<1>3. ASSUME NEW t \in Threads, Return(t, None)  PROVE Knows'
  BY <1>3, NoneIsBuf, ReturnKnows
<1>4. ASSUME NEW t \in Threads, PutEnter(t)  PROVE Knows'
  <2>1. CASE Goto(t, "put") /\ UNCHANGED <<want, buf, sz>>
    <3>1. KnowsOf(t)'
      BY <2>1 DEF TypeOK, Goto, KnowsOf
    <3> QED  BY <2>1, <3>1, OthersKnow DEF TypeOK, Goto
  <2> QED  BY <1>3, <1>4, <2>1 DEF PutEnter
<1>5. ASSUME NEW t \in Threads, PutSend(t) \/ LetGo(t)  PROVE Knows'
  BY <1>3, <1>5 DEF PutSend, LetGo
<1>6. ASSUME NEW t \in Threads, NEW f \in Foreign, Elsewhere(t, f)  PROVE Knows'
  <2>1. Make(f[2]).cap = f[2]
    BY <1>a, Fresh
  <2>2. KnowsOf(t)'
    BY <1>6, <1>a, <2>1 DEF TypeOK, Elsewhere, At, KnowsOf
  <2> QED  BY <1>6, <2>2, OthersKnow DEF TypeOK, Elsewhere
<1>7. ASSUME NEW t \in Threads, CloseBegin(t) \/ CloseLock(t) \/ CloseSend(t)  PROVE Knows'
  <2>1. /\ pc[t] \in {"idle", "lock", "send"} /\ \E l \in {"idle", "lock", "send"} : Goto(t, l)
        /\ UNCHANGED <<want, buf, sz>>
    BY <1>7 DEF CloseBegin, CloseLock, CloseSend, At
  <2>2. KnowsOf(t)'
    BY <2>1 DEF TypeOK, Goto, Knows, KnowsOf
  <2> QED  BY <2>1, <2>2, OthersKnow DEF TypeOK, Goto
<1>8. ASSUME UNCHANGED locals  PROVE Knows'
  BY <1>8 DEF locals, Knows, KnowsOf, Class, Twice
<1> QED  BY <1>1, <1>2, <1>4, <1>5, <1>6, <1>7, <1>8 DEF PoolNext, DrainTick, DrainClose

-----------------------------------------------------------------------------
(* Buffers and sizes are of their class. *)

LEMMA SendRight ==
    ASSUME TypeOK, RightClass, NEW k \in 0..5, NEW b \in Buf, Send(k, b), poolNum(b.cap) = k
    PROVE  \A j \in 0..5 : \A c \in ToSet(pool'[j]) : poolNum(c.cap) = j
<1>1. SUFFICES ASSUME NEW j \in 0..5, NEW c \in ToSet(pool'[j]), c \notin ToSet(pool[j])
               PROVE  poolNum(c.cap) = j
  BY DEF RightClass
<1>2. pool[k] \in Seq(Buf)
  BY DEF TypeOK
<1>3. j = k /\ pool'[j] = Append(pool[k], b)
  BY <1>1 DEF TypeOK, Send
<1>4. PICK i \in 1..Len(Append(pool[k], b)) : c = Append(pool[k], b)[i]
  BY <1>1, <1>2, <1>3 DEF ToSet
<1>5. c = b
  <2>1. i \in 1..Len(pool[k]) => pool[k][i] \in ToSet(pool[k])
    BY <1>2 DEF ToSet
  <2> QED  BY <1>1, <1>2, <1>3, <1>4, <2>1
<1> QED  BY <1>3, <1>5

LEMMA TailRight ==
    ASSUME TypeOK, RightClass, NEW k \in 0..5, pool[k] # << >>, pool' = [pool EXCEPT ![k] = Tail(@)]
    PROVE  \A j \in 0..5 : \A c \in ToSet(pool'[j]) : poolNum(c.cap) = j
<1>1. pool[k] \in Seq(Buf)
  BY DEF TypeOK
<1>2. ToSet(Tail(pool[k])) \subseteq ToSet(pool[k])
  BY <1>1 DEF ToSet
<1>3. \A j \in 0..5 : ToSet(pool'[j]) \subseteq ToSet(pool[j])
  BY <1>2 DEF TypeOK
<1> QED  BY <1>3 DEF RightClass

(***************************************************************************)
(* A size that is set to a length of its class stays a size of its class.  *)
(***************************************************************************)
LEMMA SizeRight ==
    ASSUME TypeOK, RightClass, NEW k \in 1..5, NEW s \in Nat, poolNum(s) = k,
           size' = [size EXCEPT ![k] = s], UNCHANGED pool
    PROVE  RightClass'
BY DEF TypeOK, RightClass

LEMMA RightStep ==
    ASSUME TypeOK, Knows, RightClass, PoolNext
    PROVE  RightClass'
<1>1. ASSUME UNCHANGED <<pool, size>>  PROVE RightClass'
  BY <1>1 DEF RightClass
<1>2. ASSUME UNCHANGED size, NEW k \in 0..5, NEW b \in Buf, Send(k, b), poolNum(b.cap) = k
      PROVE  RightClass'
  BY <1>2, SendRight DEF RightClass
<1>3. ASSUME UNCHANGED size, NEW k \in 0..5, pool[k] # << >>, pool' = [pool EXCEPT ![k] = Tail(@)]
      PROVE  RightClass'
  BY <1>3, TailRight DEF RightClass
<1>4. ASSUME NEW t \in Threads, GetStep(t)  PROVE RightClass'
  <2>c. /\ want[t] \in Nat /\ buf[t] \in Buf /\ buf[t].cap \in Nat
        /\ Class(t) \in 0..5 /\ Class(t) = poolNum(want[t])
    BY ClassType DEF TypeOK, Buf, Class
  <2>k. KnowsOf(t)
    BY DEF Knows
  <2>1. CASE GetRecv(t)
    BY <2>1, <2>c, <1>3 DEF GetRecv, sizes
  <2>2. CASE PushHalf(t) \/ PushShort(t)
    <3>1. Send(Class(t), buf[t]) /\ UNCHANGED size /\ poolNum(buf[t].cap) = Class(t)
      BY <2>2, <2>k DEF PushHalf, PushShort, sizes, KnowsOf, At
    <3> QED  BY <2>c, <3>1, <1>2
  <2>3. CASE SetHalf(t)
    <3>1. Class(t) \in 1..5 /\ poolNum(buf[t].cap) = Class(t) /\ Twice(buf[t].cap, want[t])
      BY <2>3, <2>c, <2>k DEF SetHalf, KnowsOf, At
    <3>2. /\ buf[t].cap \div 2 \in Nat /\ want[t] <= buf[t].cap \div 2
          /\ buf[t].cap \div 2 <= buf[t].cap
      BY <2>c, <3>1 DEF Twice
    <3>3. want[t] \in Int /\ buf[t].cap \in Int /\ buf[t].cap \div 2 \in Int
      BY <2>c, <3>2
    <3>4. poolNum(buf[t].cap \div 2) = Class(t)
      BY <2>c, <3>1, <3>2, <3>3, PoolNumConvex
    <3>5. size' = [size EXCEPT ![Class(t)] = buf[t].cap \div 2] /\ UNCHANGED pool
      BY <2>3 DEF SetHalf
    <3> QED  BY <3>1, <3>2, <3>4, <3>5, SizeRight
  <2>4. CASE SetMiss(t)
    <3>1. Class(t) \in 1..5 /\ size' = [size EXCEPT ![Class(t)] = want[t]] /\ UNCHANGED pool
      BY <2>4, <2>c, <2>k DEF SetMiss, KnowsOf, At
    <3> QED  BY <2>c, <3>1, SizeRight
  <2>5. CASE GetCAS(t)
    <3>1. /\ Class(t) \in 1..5 /\ UNCHANGED pool
          /\ size' = [size EXCEPT ![Class(t)] = IF @ = 0 THEN want[t] ELSE @]
      BY <2>5, <2>c, <2>k DEF GetCAS, KnowsOf, At
    <3>2. CASE size[Class(t)] = 0
      BY <2>c, <3>1, <3>2, SizeRight
    <3>3. CASE size[Class(t)] # 0
      BY <3>1, <3>3, <1>1 DEF TypeOK
    <3> QED  BY <3>2, <3>3
  <2>6. CASE GetMiss(t) \/ GetHalf(t) \/ ResetHalf(t) \/ GetShort(t) \/ GetLoad(t)
             \/ GetMake(t) \/ GetTooSmall(t) \/ ResetMiss(t)
    BY <2>6, <1>1 DEF GetMiss, GetHalf, ResetHalf, GetShort, GetLoad, GetMake, GetTooSmall,
                      ResetMiss, sizes
  <2> QED  BY <1>4, <2>1, <2>2, <2>3, <2>4, <2>5, <2>6 DEF GetStep
<1>5. ASSUME NEW t \in Threads, PutSend(t)  PROVE RightClass'
  <2>1. buf[t] \in Buf /\ buf[t].cap \in Int
    BY DEF TypeOK, Buf
  <2>2. poolNum(buf[t].cap) \in 0..5
    BY <2>1, PoolNumConvex
  <2> QED  BY <1>2, <1>5, <2>1, <2>2 DEF PutSend, sizes
<1>6. ASSUME NEW k \in 0..5, DrainTick(k)  PROVE RightClass'
  BY <1>3, <1>6 DEF DrainTick, sizes
<1>7. ASSUME NEW t \in Threads,
             \/ \E n \in Lengths : GetEnter(t, n)
             \/ \E f \in Foreign : Elsewhere(t, f)
             \/ PutEnter(t) \/ LetGo(t) \/ CloseBegin(t) \/ CloseLock(t) \/ CloseSend(t)
      PROVE  RightClass'
  BY <1>1, <1>7 DEF GetEnter, Elsewhere, PutEnter, LetGo, CloseBegin, CloseLock, CloseSend, sizes
<1>8. ASSUME DrainClose  PROVE RightClass'
  BY <1>1, <1>8 DEF DrainClose, sizes
<1> QED  BY <1>4, <1>5, <1>6, <1>7, <1>8 DEF PoolNext

LEMMA PoolInvariance ==
    Safety => []PInv
<1>1. PoolInit => PInv
  <2>1. ASSUME PoolInit  PROVE TypeOK
    <3>1. << >> \in Seq(Buf)
      OBVIOUS
    <3>2. pool \in [0..5 -> Seq(Buf)]
      BY <2>1, <3>1 DEF PoolInit
    <3>3. /\ size \in [1..5 -> Nat] /\ sizeMiss \in [1..5 -> Nat] /\ sizeHalf \in [1..5 -> Nat]
      BY <2>1 DEF PoolInit
    <3> QED  BY <2>1, <3>2, <3>3, NoneIsBuf DEF PoolInit, TypeOK, Places
  <2>2. ASSUME PoolInit  PROVE Knows
    BY <2>2 DEF PoolInit, Knows, KnowsOf, None
  <2>3. ASSUME PoolInit  PROVE RightClass
    BY <2>3 DEF PoolInit, RightClass, ToSet
  <2> QED  BY <2>1, <2>2, <2>3 DEF PInv
<1>2. ASSUME PInv, [PoolNext]_poolVars  PROVE PInv'
  <2>1. CASE PoolNext
    BY <1>2, <2>1, TypeStep, KnowsStep, RightStep DEF PInv
  <2>2. CASE UNCHANGED poolVars
    <3>1. TypeOK' /\ Knows' /\ RightClass'
      BY <1>2, <2>2 DEF PInv, poolVars, sizes, closing, locals, TypeOK, Knows, KnowsOf, Class,
                        Twice, RightClass
    <3> QED  BY <3>1 DEF PInv
  <2> QED  BY <1>2, <2>1, <2>2
<1> QED  BY <1>1, <1>2, PTL DEF Safety

(***************************************************************************)
(* The variables keep their types; in particular make always finds an      *)
(* array that is not in use.                                               *)
(***************************************************************************)
THEOREM TypeCorrect == Safety => []TypeOK
<1>1. PInv => TypeOK
  BY DEF PInv
<1> QED  BY <1>1, PoolInvariance, PTL

(***************************************************************************)
(* Get returns a buffer with room for what was asked, for any number of    *)
(* goroutines, baseline and threshold.                                     *)
(***************************************************************************)
THEOREM LongEnoughHolds == Safety => []LongEnough
<1>1. PInv => LongEnough
  BY DEF PInv, Knows, KnowsOf, LongEnough, At
<1> QED  BY <1>1, PoolInvariance, PTL

(***************************************************************************)
(* A channel holds buffers of its own class, and a class learns sizes of   *)
(* its own, also when goroutines change them at once.                      *)
(***************************************************************************)
THEOREM RightClassHolds == Safety => []RightClass
<1>1. PInv => RightClass
  BY DEF PInv
<1> QED  BY <1>1, PoolInvariance, PTL

-----------------------------------------------------------------------------
(* How the goroutines move: what Close and the counters see of a step. *)

Counting == {"setMiss", "resetMiss", "setHalf", "resetHalf"}
CountStep(t) == \/ GetHalf(t) \/ SetHalf(t) \/ ResetHalf(t)
                \/ GetTooSmall(t) \/ SetMiss(t) \/ ResetMiss(t)

Alone(t) == \A u \in Threads \ {t} : pc'[u] = pc[u] /\ want'[u] = want[u]

\* a step of Get, Put or a client
UserStep(t) ==
    /\ Alone(t) /\ UNCHANGED closing
    /\ pc[t] \notin {"lock", "send"} /\ pc'[t] \notin {"lock", "send"}
    /\ closed /\ pc[t] = "idle" => pc'[t] = "idle"
    /\ \/ pc[t] \notin Counting /\ pc'[t] \notin Counting /\ UNCHANGED <<sizeMiss, sizeHalf>>
       \/ CountStep(t)

LEMMA ReturnMoves ==
    ASSUME TypeOK, NEW t \in Threads, NEW b, Return(t, b)
    PROVE  Alone(t) /\ pc'[t] = "idle"
BY DEF TypeOK, Return, Goto, Alone

LEMMA GotoMoves ==
    ASSUME TypeOK, NEW t \in Threads, NEW l, Goto(t, l), UNCHANGED want
    PROVE  Alone(t) /\ pc'[t] = l
BY DEF TypeOK, Goto, Alone

LEMMA Moves ==
    ASSUME TypeOK, PoolNext
    PROVE  \/ \E t \in Threads : UserStep(t) \/ CloseBegin(t) \/ CloseLock(t) \/ CloseSend(t)
           \/ DrainClose
           \/ UNCHANGED <<pc, want, closing, sizeMiss, sizeHalf>>
<1>1. ASSUME NEW t \in Threads, NEW n \in Lengths, GetEnter(t, n)  PROVE UserStep(t)
  <2>1. Alone(t) /\ pc'[t] \in {"idle", "recv"} /\ (closed => pc'[t] = "idle")
    BY <1>1 DEF TypeOK, GetEnter, At, Goto, Alone
  <2> QED  BY <1>1, <2>1 DEF GetEnter, At, UserStep, Counting, sizes
<1>2. ASSUME NEW t \in Threads, GetStep(t)  PROVE UserStep(t)
  <2>1. CASE GetMiss(t)
    <3>1. Alone(t) /\ pc'[t] \in {"idle", "load"}
      BY <2>1, ReturnMoves, GotoMoves DEF GetMiss
    <3> QED  BY <2>1, <3>1 DEF GetMiss, At, UserStep, Counting, sizes
  <2>2. CASE GetRecv(t)
    <3>1. \/ \E l \in {"pushHalf", "half", "short"} : Goto(t, l) /\ UNCHANGED want
          \/ \E b : Return(t, b)
      BY <2>2 DEF GetRecv
    <3>2. Alone(t) /\ pc'[t] \in {"idle", "pushHalf", "half", "short"}
      BY <3>1, ReturnMoves, GotoMoves
    <3> QED  BY <2>2, <3>2 DEF GetRecv, At, UserStep, Counting, sizes
  <2>3. CASE GetHalf(t)
    <3>1. Alone(t) /\ pc'[t] \in {"setHalf", "pushHalf"}
      BY <2>3, GotoMoves DEF GetHalf
    <3> QED  BY <2>3, <3>1 DEF GetHalf, At, UserStep, CountStep
  <2>4. CASE PushHalf(t)
    <3>1. Alone(t) /\ pc'[t] = "idle"
      BY <2>4, ReturnMoves DEF PushHalf
    <3> QED  BY <2>4, <3>1 DEF PushHalf, At, UserStep, Counting, sizes
  <2>5. CASE SetHalf(t)
    <3>1. Alone(t) /\ pc'[t] = "resetHalf"
      BY <2>5, GotoMoves DEF SetHalf
    <3> QED  BY <2>5, <3>1 DEF SetHalf, At, UserStep, CountStep
  <2>6. CASE ResetHalf(t)
    <3>1. Alone(t) /\ pc'[t] = "idle"
      BY <2>6, ReturnMoves DEF ResetHalf
    <3> QED  BY <2>6, <3>1 DEF ResetHalf, At, UserStep, CountStep
  <2>7. CASE GetShort(t)
    <3>1. Alone(t) /\ pc'[t] \in {"pushShort", "load"}
      BY <2>7, GotoMoves DEF GetShort
    <3> QED  BY <2>7, <3>1 DEF GetShort, At, UserStep, Counting, sizes
  <2>8. CASE PushShort(t)
    <3>1. Alone(t) /\ pc'[t] = "load"
      BY <2>8, GotoMoves DEF PushShort
    <3> QED  BY <2>8, <3>1 DEF PushShort, At, UserStep, Counting, sizes
  <2>9. CASE GetLoad(t)
    <3>1. Alone(t) /\ pc'[t] \in {"make", "cas", "miss"}
      BY <2>9, GotoMoves DEF GetLoad
    <3> QED  BY <2>9, <3>1 DEF GetLoad, At, UserStep, Counting, sizes
  <2>10. CASE GetMake(t)
    <3>1. Alone(t) /\ pc'[t] = "idle"
      BY <2>10, ReturnMoves DEF GetMake
    <3> QED  BY <2>10, <3>1 DEF GetMake, At, UserStep, Counting, sizes
  <2>11. CASE GetCAS(t)
    <3>1. Alone(t) /\ pc'[t] = "idle"
      BY <2>11, ReturnMoves DEF GetCAS
    <3> QED  BY <2>11, <3>1 DEF GetCAS, At, UserStep, Counting
  <2>12. CASE GetTooSmall(t)
    <3>1. Alone(t) /\ pc'[t] \in {"idle", "setMiss"}
      BY <2>12, ReturnMoves, GotoMoves DEF GetTooSmall
    <3> QED  BY <2>12, <3>1 DEF GetTooSmall, At, UserStep, CountStep
  <2>13. CASE SetMiss(t)
    <3>1. Alone(t) /\ pc'[t] = "resetMiss"
      BY <2>13, GotoMoves DEF SetMiss
    <3> QED  BY <2>13, <3>1 DEF SetMiss, At, UserStep, CountStep
  <2>14. CASE ResetMiss(t)
    <3>1. Alone(t) /\ pc'[t] = "idle"
      BY <2>14, ReturnMoves DEF ResetMiss
    <3> QED  BY <2>14, <3>1 DEF ResetMiss, At, UserStep, CountStep
  <2> QED  BY <1>2, <2>1, <2>2, <2>3, <2>4, <2>5, <2>6, <2>7, <2>8, <2>9, <2>10, <2>11,
             <2>12, <2>13, <2>14 DEF GetStep
<1>3. ASSUME NEW t \in Threads, PutEnter(t)  PROVE UserStep(t)
  <2>1. Alone(t) /\ pc'[t] \in {"idle", "put"} /\ (closed => pc'[t] = "idle")
    BY <1>3, ReturnMoves, GotoMoves DEF PutEnter
  <2> QED  BY <1>3, <2>1 DEF PutEnter, At, UserStep, Counting, sizes
<1>4. ASSUME NEW t \in Threads, PutSend(t) \/ LetGo(t)  PROVE UserStep(t)
  <2>1. Alone(t) /\ pc'[t] = "idle"
    BY <1>4, ReturnMoves DEF PutSend, LetGo
  <2> QED  BY <1>4, <2>1 DEF PutSend, LetGo, At, UserStep, Counting, sizes
<1>5. ASSUME NEW t \in Threads, NEW f \in Foreign, Elsewhere(t, f)  PROVE UserStep(t)
  <2>1. Alone(t) /\ pc' = pc /\ pc[t] = "idle"
    BY <1>5 DEF TypeOK, Elsewhere, Alone, At
  <2> QED  BY <1>5, <2>1 DEF Elsewhere, UserStep, Counting, sizes
<1>6. ASSUME NEW k \in 0..5, DrainTick(k)
      PROVE  UNCHANGED <<pc, want, closing, sizeMiss, sizeHalf>>
  BY <1>6 DEF DrainTick, sizes, locals
<1> QED  BY <1>1, <1>2, <1>3, <1>4, <1>5, <1>6 DEF PoolNext

-----------------------------------------------------------------------------
(* Close. *)

LEMMA ClosedStep ==
    ASSUME TypeOK, ClosedOnce, PoolNext
    PROVE  ClosedOnce'
<1>1. ASSUME NEW t \in Threads, UserStep(t)  PROVE ClosedOnce'
  <2>1. /\ UNCHANGED closing
        /\ \A u \in Threads : (pc'[u] = "send") <=> (pc[u] = "send")
    BY <1>1 DEF UserStep, Alone
  <2>2. closed => pc[t] = "idle" /\ pc'[t] = "idle"
    BY <1>1 DEF ClosedOnce, Inside, UserStep
  <2>3. closed => Inside' = Inside
    BY <1>1, <2>2 DEF Inside, UserStep, Alone
  <2> QED  BY <2>1, <2>3 DEF ClosedOnce, closing, At
<1>2. ASSUME NEW t \in Threads, CloseBegin(t)  PROVE ClosedOnce'
  <2>1. pc[t] = "idle" /\ pc' = [pc EXCEPT ![t] = "lock"] /\ UNCHANGED closing
    BY <1>2 DEF CloseBegin, At, Goto
  <2>2. Inside' = Inside /\ \A u \in Threads : (pc'[u] = "send") <=> (pc[u] = "send")
    BY <2>1 DEF TypeOK, Inside
  <2> QED  BY <2>1, <2>2 DEF ClosedOnce, closing, At
<1>3. ASSUME NEW t \in Threads, CloseLock(t)  PROVE ClosedOnce'
  <2>1. /\ pc[t] = "lock" /\ pc' = [pc EXCEPT ![t] = IF closed THEN "idle" ELSE "send"]
        /\ closed' = TRUE /\ UNCHANGED <<closeC, drain>>
        /\ Inside = {} /\ \A u \in Threads : pc[u] # "send"
    BY <1>3 DEF CloseLock, Lock, At, Goto
  <2>2. Inside' = {}
    BY <2>1 DEF TypeOK, Inside
  <2>3. \A u \in Threads : pc'[u] = "send" => u = t /\ ~closed
    BY <2>1 DEF TypeOK
  <2>4. ~closed => closeC = 0 /\ drain = "runs"
    BY DEF ClosedOnce, TypeOK
  <2> QED  BY <2>1, <2>2, <2>3, <2>4 DEF ClosedOnce, At
<1>4. ASSUME NEW t \in Threads, CloseSend(t)  PROVE ClosedOnce'
  <2>1. /\ pc[t] = "send" /\ pc' = [pc EXCEPT ![t] = "idle"] /\ closeC' = closeC + 1
        /\ closed /\ closeC = 0 /\ drain = "runs" /\ UNCHANGED <<closed, drain>>
    BY <1>4 DEF CloseSend, ClosedOnce, At, Goto
  <2>2. closeC' = 1
    BY <2>1
  <2>3. Inside' = Inside /\ \A u \in Threads : pc'[u] # "send"
    BY <2>1 DEF TypeOK, Inside, ClosedOnce, At
  <2> QED  BY <2>1, <2>2, <2>3 DEF ClosedOnce, At
<1>5. ASSUME DrainClose  PROVE ClosedOnce'
  <2>1. closeC = 1 /\ closeC' = 0 /\ UNCHANGED <<closed, pc>>
    BY <1>5 DEF DrainClose, locals
  <2>2. closed /\ \A t \in Threads : pc[t] # "send"
    BY <2>1 DEF ClosedOnce, At
  <2> QED  BY <2>1, <2>2 DEF ClosedOnce, Inside, At
<1>6. ASSUME UNCHANGED <<pc, closing>>  PROVE ClosedOnce'
  BY <1>6 DEF ClosedOnce, Inside, At, closing
<1> QED  BY <1>1, <1>2, <1>3, <1>4, <1>5, <1>6, Moves

(***************************************************************************)
(* When drain has closed the channels nobody is inside Get or Put, and     *)
(* nobody sends on closeC, for any number of goroutines that call Close.   *)
(***************************************************************************)
THEOREM SafeCloseHolds == Safety => []SafeClose
<1>1. PoolInit => ClosedOnce
  BY DEF PoolInit, ClosedOnce, Inside, At
<1>2. ASSUME TypeOK, ClosedOnce, [PoolNext]_poolVars  PROVE ClosedOnce'
  <2>1. CASE UNCHANGED poolVars
    BY <1>2, <2>1 DEF poolVars, closing, locals, ClosedOnce, Inside, At
  <2> QED  BY <1>2, <2>1, ClosedStep
<1>3. ClosedOnce => SafeClose
  BY DEF ClosedOnce, SafeClose
<1> QED  BY <1>1, <1>2, <1>3, TypeCorrect, PTL DEF Safety

-----------------------------------------------------------------------------
(* The counters. *)

(***************************************************************************)
(* The increment that reaches the threshold sends one goroutine to reset   *)
(* the counter; until that one has, no other increment meets the           *)
(* threshold.                                                              *)
(***************************************************************************)
LEMMA Increment ==
    ASSUME NEW n \in Nat, NEW S, NEW t, OneIf(n, S)
    PROVE  OneIf(n + 1, IF n + 1 = Threshold THEN S \cup {t} ELSE S)
<1>1. Threshold \in Nat \ {0}
  BY PoolAssumption
<1> QED  BY <1>1 DEF OneIf

LEMMA Reset ==
    ASSUME NEW n \in Nat, NEW S, NEW t \in S, OneIf(n, S)
    PROVE  OneIf(0, S \ {t})
<1>1. Threshold \in Nat \ {0}
  BY PoolAssumption
<1> QED  BY <1>1 DEF OneIf

LEMMA CloseFrame ==
    ASSUME TypeOK, NEW t \in Threads, pc[t] \notin Counting, pc'[t] \notin Counting, Alone(t),
           NEW k \in 1..5
    PROVE  Missing(k)' = Missing(k) /\ Halving(k)' = Halving(k)
BY DEF Alone, Counting, Missing, Halving, Class

LEMMA CountersStep ==
    ASSUME TypeOK, Knows, OneResets, PoolNext
    PROVE  OneResets'
<1>t. Threshold \in Nat \ {0}
  BY PoolAssumption
<1>0. SUFFICES ASSUME NEW k \in 1..5
               PROVE  OneIf(sizeMiss[k], Missing(k))' /\ OneIf(sizeHalf[k], Halving(k))'
  BY DEF OneResets
<1>k. /\ OneIf(sizeMiss[k], Missing(k)) /\ OneIf(sizeHalf[k], Halving(k))
      /\ sizeMiss[k] \in Nat /\ sizeHalf[k] \in Nat
  BY DEF OneResets, TypeOK
<1>f. ASSUME Missing(k)' = Missing(k), Halving(k)' = Halving(k), UNCHANGED <<sizeMiss, sizeHalf>>
      PROVE  OneIf(sizeMiss[k], Missing(k))' /\ OneIf(sizeHalf[k], Halving(k))'
  BY <1>k, <1>f DEF OneIf
<1>1. ASSUME NEW t \in Threads, UserStep(t)
      PROVE  OneIf(sizeMiss[k], Missing(k))' /\ OneIf(sizeHalf[k], Halving(k))'
  <2>a. Alone(t) /\ Class(t) \in 0..5
    BY <1>1, ClassType DEF UserStep
  <2>o. \A u \in Threads \ {t} : /\ u \in Missing(k)' <=> u \in Missing(k)
                                 /\ u \in Halving(k)' <=> u \in Halving(k)
    BY <2>a DEF Alone, Missing, Halving, Class
  <2>s. Missing(k) \subseteq Threads /\ Missing(k)' \subseteq Threads
        /\ Halving(k) \subseteq Threads /\ Halving(k)' \subseteq Threads
    BY DEF Missing, Halving
  <2>1. CASE pc[t] \notin Counting /\ pc'[t] \notin Counting /\ UNCHANGED <<sizeMiss, sizeHalf>>
    BY <2>1, <2>a, CloseFrame, <1>f
  <2>2. CASE SetMiss(t)
    <3>1. pc[t] = "setMiss" /\ pc'[t] = "resetMiss" /\ UNCHANGED <<sizeMiss, sizeHalf, want>>
      BY <2>2, GotoMoves DEF SetMiss, At
    <3>2. Missing(k)' = Missing(k) /\ Halving(k)' = Halving(k)
      BY <2>o, <2>s, <3>1 DEF Missing, Halving, Class
    <3> QED  BY <3>1, <3>2, <1>f
  <2>3. CASE ResetMiss(t)
    <3>1. /\ pc[t] = "resetMiss" /\ pc'[t] = "idle" /\ UNCHANGED sizeHalf
          /\ sizeMiss' = [sizeMiss EXCEPT ![Class(t)] = 0]
      BY <2>3, ReturnMoves DEF ResetMiss, At
    <3>2. Class(t) \in 1..5
      BY <2>a, <3>1 DEF Knows, KnowsOf
    <3>3. Halving(k)' = Halving(k)
      BY <2>o, <2>s, <3>1 DEF Halving
    <3>4. Missing(k)' = Missing(k) \ {t} /\ (t \in Missing(k) <=> k = Class(t))
      BY <2>o, <2>s, <3>1 DEF Missing
    <3>5. sizeMiss'[k] = IF k = Class(t) THEN 0 ELSE sizeMiss[k]
      BY <3>1, <3>2 DEF TypeOK
    <3>6. OneIf(sizeMiss'[k], Missing(k)')
      <4>1. CASE k = Class(t)
        BY <4>1, <3>4, <3>5, <1>k, Reset
      <4>2. CASE k # Class(t)
        <5>1. Missing(k)' = Missing(k) /\ sizeMiss'[k] = sizeMiss[k]
          BY <4>2, <3>4, <3>5
        <5> QED  BY <5>1, <1>k
      <4> QED  BY <4>1, <4>2
    <3>7. OneIf(sizeHalf'[k], Halving(k)')
      BY <3>1, <3>3, <1>k
    <3> QED  BY <3>6, <3>7 DEF OneIf
  <2>4. CASE GetTooSmall(t)
    <3>1. /\ pc[t] \notin Counting /\ UNCHANGED sizeHalf
          /\ sizeMiss' = [sizeMiss EXCEPT ![Class(t)] = @ + 1]
          /\ IF sizeMiss'[Class(t)] = Threshold THEN pc'[t] = "setMiss" /\ want' = want
                                              ELSE pc'[t] \notin Counting
      BY <2>4, ReturnMoves, GotoMoves DEF GetTooSmall, At, Counting
    <3>2. Class(t) \in 1..5
      BY <2>4, <2>a DEF Knows, KnowsOf, GetTooSmall, At
    <3>3. Halving(k)' = Halving(k)
      BY <2>o, <2>s, <3>1 DEF Halving, Counting
    <3>4. sizeMiss'[k] = IF k = Class(t) THEN sizeMiss[k] + 1 ELSE sizeMiss[k]
      BY <3>1, <3>2 DEF TypeOK
    <3>5. Missing(k)' = IF k = Class(t) /\ sizeMiss[k] + 1 = Threshold THEN Missing(k) \cup {t} ELSE Missing(k)
      <4>1. t \notin Missing(k)
        BY <3>1 DEF Missing, Counting
      <4>2. t \in Missing(k)' <=> sizeMiss'[Class(t)] = Threshold /\ k = Class(t)
        BY <3>1 DEF Missing, Counting, Class
      <4>3. t \in Missing(k)' <=> k = Class(t) /\ sizeMiss[k] + 1 = Threshold
        BY <4>2, <3>4
      <4> QED  BY <4>1, <4>3, <2>o, <2>s
    <3>6. OneIf(sizeMiss'[k], Missing(k)')
      <4>1. CASE k = Class(t)
        <5>1. /\ sizeMiss'[k] = sizeMiss[k] + 1
              /\ Missing(k)' = IF sizeMiss[k] + 1 = Threshold THEN Missing(k) \cup {t} ELSE Missing(k)
          BY <4>1, <3>4, <3>5
        <5> QED  BY <5>1, <1>k, Increment
      <4>2. CASE k # Class(t)
        <5>1. Missing(k)' = Missing(k) /\ sizeMiss'[k] = sizeMiss[k]
          BY <4>2, <3>4, <3>5
        <5> QED  BY <5>1, <1>k
      <4> QED  BY <4>1, <4>2
    <3>7. OneIf(sizeHalf'[k], Halving(k)')
      BY <3>1, <3>3, <1>k
    <3> QED  BY <3>6, <3>7 DEF OneIf
  <2>5. CASE SetHalf(t)
    <3>1. pc[t] = "setHalf" /\ pc'[t] = "resetHalf" /\ UNCHANGED <<sizeMiss, sizeHalf, want>>
      BY <2>5, GotoMoves DEF SetHalf, At
    <3>2. Missing(k)' = Missing(k) /\ Halving(k)' = Halving(k)
      BY <2>o, <2>s, <3>1 DEF Missing, Halving, Class
    <3> QED  BY <3>1, <3>2, <1>f
  <2>6. CASE ResetHalf(t)
    <3>1. /\ pc[t] = "resetHalf" /\ pc'[t] = "idle" /\ UNCHANGED sizeMiss
          /\ sizeHalf' = [sizeHalf EXCEPT ![Class(t)] = 0]
      BY <2>6, ReturnMoves DEF ResetHalf, At
    <3>2. Class(t) \in 1..5
      BY <2>a, <3>1 DEF Knows, KnowsOf
    <3>3. Missing(k)' = Missing(k)
      BY <2>o, <2>s, <3>1 DEF Missing
    <3>4. Halving(k)' = Halving(k) \ {t} /\ (t \in Halving(k) <=> k = Class(t))
      BY <2>o, <2>s, <3>1 DEF Halving
    <3>5. sizeHalf'[k] = IF k = Class(t) THEN 0 ELSE sizeHalf[k]
      BY <3>1, <3>2 DEF TypeOK
    <3>6. OneIf(sizeHalf'[k], Halving(k)')
      <4>1. CASE k = Class(t)
        BY <4>1, <3>4, <3>5, <1>k, Reset
      <4>2. CASE k # Class(t)
        <5>1. Halving(k)' = Halving(k) /\ sizeHalf'[k] = sizeHalf[k]
          BY <4>2, <3>4, <3>5
        <5> QED  BY <5>1, <1>k
      <4> QED  BY <4>1, <4>2
    <3>7. OneIf(sizeMiss'[k], Missing(k)')
      BY <3>1, <3>3, <1>k
    <3> QED  BY <3>6, <3>7 DEF OneIf
  <2>7. CASE GetHalf(t)
    <3>1. /\ pc[t] \notin Counting /\ UNCHANGED sizeMiss
          /\ sizeHalf' = [sizeHalf EXCEPT ![Class(t)] = @ + 1]
          /\ IF sizeHalf'[Class(t)] = Threshold THEN pc'[t] = "setHalf" /\ want' = want
                                              ELSE pc'[t] \notin Counting
      BY <2>7, ReturnMoves, GotoMoves DEF GetHalf, At, Counting
    <3>2. Class(t) \in 1..5
      BY <2>7, <2>a DEF Knows, KnowsOf, GetHalf, At
    <3>3. Missing(k)' = Missing(k)
      BY <2>o, <2>s, <3>1 DEF Missing, Counting
    <3>4. sizeHalf'[k] = IF k = Class(t) THEN sizeHalf[k] + 1 ELSE sizeHalf[k]
      BY <3>1, <3>2 DEF TypeOK
    <3>5. Halving(k)' = IF k = Class(t) /\ sizeHalf[k] + 1 = Threshold THEN Halving(k) \cup {t} ELSE Halving(k)
      <4>1. t \notin Halving(k)
        BY <3>1 DEF Halving, Counting
      <4>2. t \in Halving(k)' <=> sizeHalf'[Class(t)] = Threshold /\ k = Class(t)
        BY <3>1 DEF Halving, Counting, Class
      <4>3. t \in Halving(k)' <=> k = Class(t) /\ sizeHalf[k] + 1 = Threshold
        BY <4>2, <3>4
      <4> QED  BY <4>1, <4>3, <2>o, <2>s
    <3>6. OneIf(sizeHalf'[k], Halving(k)')
      <4>1. CASE k = Class(t)
        <5>1. /\ sizeHalf'[k] = sizeHalf[k] + 1
              /\ Halving(k)' = IF sizeHalf[k] + 1 = Threshold THEN Halving(k) \cup {t} ELSE Halving(k)
          BY <4>1, <3>4, <3>5
        <5> QED  BY <5>1, <1>k, Increment
      <4>2. CASE k # Class(t)
        <5>1. Halving(k)' = Halving(k) /\ sizeHalf'[k] = sizeHalf[k]
          BY <4>2, <3>4, <3>5
        <5> QED  BY <5>1, <1>k
      <4> QED  BY <4>1, <4>2
    <3>7. OneIf(sizeMiss'[k], Missing(k)')
      BY <3>1, <3>3, <1>k
    <3> QED  BY <3>6, <3>7 DEF OneIf
  <2> QED  BY <1>1, <2>1, <2>2, <2>3, <2>4, <2>5, <2>6, <2>7 DEF UserStep, CountStep
<1>2. ASSUME NEW t \in Threads, CloseBegin(t) \/ CloseLock(t) \/ CloseSend(t)
      PROVE  OneIf(sizeMiss[k], Missing(k))' /\ OneIf(sizeHalf[k], Halving(k))'
  <2>1. /\ Alone(t) /\ pc[t] \notin Counting /\ pc'[t] \notin Counting
        /\ UNCHANGED <<sizeMiss, sizeHalf>>
    BY <1>2, GotoMoves DEF CloseBegin, CloseLock, CloseSend, At, Counting, sizes
  <2> QED  BY <2>1, <1>f, CloseFrame
<1>3. ASSUME UNCHANGED <<pc, want, sizeMiss, sizeHalf>>
      PROVE  OneIf(sizeMiss[k], Missing(k))' /\ OneIf(sizeHalf[k], Halving(k))'
  <2>1. Missing(k)' = Missing(k) /\ Halving(k)' = Halving(k)
    BY <1>3 DEF Missing, Halving, Class
  <2> QED  BY <1>3, <2>1, <1>f
<1> QED  BY <1>1, <1>2, <1>3, Moves DEF DrainClose, locals, sizes

(***************************************************************************)
(* A counter that has reached the threshold is on its way back to zero:    *)
(* although the increment, the test for equality and the reset are three   *)
(* steps, it is never stuck above the threshold, whatever the number of    *)
(* goroutines.                                                             *)
(***************************************************************************)
THEOREM CounterResetsHolds == Safety => []CounterResets
<1>1. PoolInit => OneResets
  <2>1. Threshold \in Nat \ {0}
    BY PoolAssumption
  <2> QED  BY <2>1 DEF PoolInit, OneResets, OneIf, Missing, Halving
<1>2. ASSUME PInv, OneResets, [PoolNext]_poolVars  PROVE OneResets'
  <2>1. CASE UNCHANGED poolVars
    BY <1>2, <2>1 DEF poolVars, sizes, locals, OneResets, OneIf, Missing, Halving, Class
  <2> QED  BY <1>2, <2>1, CountersStep DEF PInv
<1>3. OneResets => CounterResets
  BY DEF OneResets, OneIf, Missing, Halving, CounterResets
<1> QED  BY <1>1, <1>2, <1>3, PoolInvariance, PTL DEF Safety

-----------------------------------------------------------------------------
(* Buffers have one owner. *)

holders == {t \in Threads : buf[t] # None}
slots == UNION {{k} \X (1..Len(pool[k])) : k \in 0..5}

\* the places of a channel, and the array at a place
Idx(k) == 1..Len(pool[k])
Arr(k, i) == pool[k][i].id

(***************************************************************************)
(* No two goroutines, no two places in the channels, and no goroutine and  *)
(* place have the same array.                                              *)
(***************************************************************************)
Distinct ==
    /\ \A t \in Threads : buf[t] # None => buf[t].id # 0
    /\ \A t, u \in Threads : t # u /\ buf[t] # None => buf[t].id # buf[u].id
    /\ \A k \in 0..5 : \A i \in Idx(k) :
          Arr(k, i) # 0 /\ \A t \in Threads : buf[t].id # Arr(k, i)
    /\ \A k, l \in 0..5 : \A i \in Idx(k), j \in Idx(l) :
          Arr(k, i) = Arr(l, j) => k = l /\ i = j

\* the buffer a goroutine is about to put back is one
Carries ==
    \A t \in Threads :
        pc[t] \in {"half", "pushHalf", "setHalf", "short", "pushShort", "put"} => buf[t] # None

\* a goroutine ends up with nothing, or with an array nobody has
New(b) == b = None \/ (b \in Buf /\ b.id # 0 /\ b.id \notin InUse)

LEMMA InUseIds ==
    ASSUME TypeOK
    PROVE  /\ \A t \in Threads : buf[t].id \in InUse
           /\ \A k \in 0..5 : \A i \in Idx(k) : Arr(k, i) \in InUse
           /\ \A x \in InUse : \/ \E t \in Threads : x = buf[t].id
                               \/ \E k \in 0..5 : \E i \in Idx(k) : x = Arr(k, i)
<1>1. \A k \in 0..5 : pool[k] \in Seq(Buf)
  BY DEF TypeOK
<1>2. \A k \in 0..5 : ToSet(pool[k]) = {pool[k][i] : i \in 1..Len(pool[k])}
  BY <1>1 DEF ToSet
<1>3. \A t \in Threads : buf[t].id \in InUse
  BY DEF InUse
<1>4. ASSUME NEW k \in 0..5, NEW i \in 1..Len(pool[k])  PROVE pool[k][i].id \in InUse
  <2>1. pool[k][i] \in UNION {ToSet(pool[j]) : j \in 0..5}
    BY <1>2
  <2> QED  BY <2>1 DEF InUse
<1>5. ASSUME NEW x \in InUse
      PROVE  \/ \E t \in Threads : x = buf[t].id
             \/ \E k \in 0..5 : \E i \in 1..Len(pool[k]) : x = pool[k][i].id
  <2>1. CASE x \in {b.id : b \in UNION {ToSet(pool[k]) : k \in 0..5}}
    <3>1. PICK b \in UNION {ToSet(pool[k]) : k \in 0..5} : x = b.id
      BY <2>1
    <3>2. PICK k \in 0..5 : b \in ToSet(pool[k])
      OBVIOUS
    <3> QED  BY <1>2, <3>1, <3>2
  <2> QED  BY <1>5, <2>1 DEF InUse
<1> QED  BY <1>3, <1>4, <1>5 DEF Idx, Arr

LEMMA DistinctCounts ==
    ASSUME TypeOK, Distinct
    PROVE  OneOwner
<1> DEFINE f == [t \in holders |-> buf[t].id]
           g == [s \in slots |-> pool[s[1]][s[2]].id]
           A == {buf[t].id : t \in holders}
           B == {pool[s[1]][s[2]].id : s \in slots}
           row == [k \in 0..5 |-> {k} \X (1..Len(pool[k]))]
<1>s. \A s : s \in slots <=> \E k \in 0..5 : \E i \in 1..Len(pool[k]) : s = <<k, i>>
  BY DEF slots
<1>1. IsFiniteSet(holders)
  <2>1. holders \in SUBSET Threads /\ IsFiniteSet(Threads)
    BY PoolAssumption DEF holders
  <2> QED  BY <2>1, FS_Subset
<1>2. IsFiniteSet(slots)
  <2>0. 0 \in Int /\ 5 \in Int /\ 1 \in Int
    OBVIOUS
  <2>1. IsFiniteSet(0..5)
    BY <2>0, FS_Interval, Zenon
  <2> HIDE DEF row
  <2>2. IsFiniteSet({row[k] : k \in 0..5})
    BY <2>1, ImageFinite
  <2>3. {row[k] : k \in 0..5} = {{k} \X (1..Len(pool[k])) : k \in 0..5}
    BY DEF row
  <2>4. ASSUME NEW k \in 0..5  PROVE IsFiniteSet({k} \X (1..Len(pool[k])))
    <3>1. Len(pool[k]) \in Int
      BY DEF TypeOK
    <3>2. IsFiniteSet(1..Len(pool[k]))
      BY <2>0, <3>1, FS_Interval, Zenon
    <3>3. IsFiniteSet({k})
      BY FS_Singleton
    <3> QED  BY <3>2, <3>3, FS_Product
  <2>5. \A T \in {{k} \X (1..Len(pool[k])) : k \in 0..5} : IsFiniteSet(T)
    BY <2>4
  <2> QED  BY <2>2, <2>3, <2>5, FS_UNION DEF slots
<1>3. f \in Bijection(holders, A)
  <2>1. \A t, u \in holders : f[t] = f[u] => t = u
    BY DEF Distinct, holders
  <2> QED  BY <2>1 DEF Bijection, Injection, Surjection, IsInjective
<1>4. g \in Bijection(slots, B)
  <2>1. ASSUME NEW s \in slots, NEW r \in slots, g[s] = g[r]  PROVE s = r
    <3>1. PICK k \in 0..5 : \E i \in 1..Len(pool[k]) : s = <<k, i>>
      BY <1>s
    <3>2. PICK i \in 1..Len(pool[k]) : s = <<k, i>>
      BY <3>1
    <3>3. PICK l \in 0..5 : \E j \in 1..Len(pool[l]) : r = <<l, j>>
      BY <1>s
    <3>4. PICK j \in 1..Len(pool[l]) : r = <<l, j>>
      BY <3>3
    <3>5. pool[k][i].id = pool[l][j].id
      BY <2>1, <3>2, <3>4
    <3> QED  BY <3>2, <3>4, <3>5 DEF Distinct, Idx, Arr
  <2> QED  BY <2>1 DEF Bijection, Injection, Surjection, IsInjective
<1>5. IsFiniteSet(A) /\ Cardinality(A) = Cardinality(holders)
  BY <1>1, <1>3, FS_Bijection DEF ExistsBijection
<1>6. IsFiniteSet(B) /\ Cardinality(B) = Cardinality(slots)
  BY <1>2, <1>4, FS_Bijection DEF ExistsBijection
<1>b. \A x : x \in B <=> \E k \in 0..5 : \E i \in Idx(k) : x = Arr(k, i)
  <2>1. ASSUME NEW k \in 0..5, NEW i \in 1..Len(pool[k])  PROVE pool[k][i].id \in B
    <3>1. <<k, i>> \in slots /\ <<k, i>>[1] = k /\ <<k, i>>[2] = i
      BY <1>s
    <3> QED  BY <3>1
  <2>2. ASSUME NEW x \in B  PROVE \E k \in 0..5 : \E i \in 1..Len(pool[k]) : x = pool[k][i].id
    <3>1. PICK s \in slots : x = pool[s[1]][s[2]].id
      OBVIOUS
    <3>2. PICK k \in 0..5 : \E i \in 1..Len(pool[k]) : s = <<k, i>>
      BY <1>s
    <3> QED  BY <3>1, <3>2
  <2> QED  BY <2>1, <2>2 DEF Idx, Arr
<1> HIDE DEF B
<1>7. A \cap B = {}
  BY <1>b DEF Distinct, holders
<1>8. InUse \ {0} = A \cup B
  <2>1. None.id = 0
    BY DEF None
  <2>2. \A t \in Threads : buf[t].id # 0 <=> t \in holders
    BY <2>1 DEF Distinct, holders
  <2>3. \A x \in B : x # 0
    BY <1>b DEF Distinct
  <2>4. ASSUME NEW x \in InUse \ {0}  PROVE x \in A \cup B
    BY <2>2, <1>b, InUseIds
  <2>5. ASSUME NEW x \in A \cup B  PROVE x \in InUse \ {0}
    <3>1. x \in B => x \in InUse
      BY <1>b, InUseIds
    <3>2. x \in A => x \in InUse /\ x # 0
      BY <2>2, InUseIds DEF holders
    <3> QED  BY <2>3, <2>5, <3>1, <3>2
  <2> QED  BY <2>4, <2>5
<1>9. Cardinality(A \cup B) = Cardinality(A) + Cardinality(B)
  <2>1. Cardinality(A \cup B) = Cardinality(A) + Cardinality(B) - Cardinality(A \cap B)
    BY <1>5, <1>6, FS_Union
  <2>2. Cardinality(A \cap B) = 0
    BY <1>7, FS_EmptySet
  <2>3. Cardinality(A) \in Nat /\ Cardinality(B) \in Nat
    BY <1>5, <1>6, FS_CardinalityType
  <2> QED  BY <2>1, <2>2, <2>3
<1> HIDE DEF A
<1> QED  BY <1>5, <1>6, <1>8, <1>9 DEF OneOwner, holders, slots

LEMMA PlaceOfArray ==
    ASSUME Distinct, NEW k \in 0..5, NEW l \in 0..5, NEW i \in Idx(k), NEW j \in Idx(l),
           Arr(k, i) = Arr(l, j)
    PROVE  k = l /\ i = j
<1>1. \A x \in Idx(k), y \in Idx(l) : Arr(k, x) = Arr(l, y) => k = l /\ x = y
  BY DEF Distinct
<1> QED  BY <1>1

(***************************************************************************)
(* A goroutine that gets a new array, or nothing, keeps arrays distinct.   *)
(***************************************************************************)
LEMMA NewArray ==
    ASSUME TypeOK, Distinct, NEW b, New(b)
    PROVE  /\ b # None => b.id # 0 /\ \A u \in Threads : b.id # buf[u].id
           /\ \A k \in 0..5 : \A i \in Idx(k) : b.id # Arr(k, i)
<1>1. None.id = 0
  BY DEF None
<1>2. b # None => b.id # 0 /\ b.id \notin InUse
  BY DEF New
<1> QED  BY <1>1, <1>2, InUseIds DEF Distinct

(***************************************************************************)
(* Arrays stay distinct when one goroutine changes its buffer and the      *)
(* places that remain, or come to be, hold none of the goroutines' arrays. *)
(***************************************************************************)
LEMMA KeepDistinct ==
    ASSUME TypeOK, Distinct, NEW t \in Threads, NEW b, buf' = [buf EXCEPT ![t] = b],
           b # None => b.id # 0 /\ \A u \in Threads \ {t} : b.id # buf[u].id,
           \A k \in 0..5 : \A i \in Idx(k)' :
              /\ Arr(k, i)' # 0 /\ Arr(k, i)' # b.id
              /\ \A u \in Threads \ {t} : buf[u].id # Arr(k, i)',
           \A k, l \in 0..5 : \A i \in Idx(k)', j \in Idx(l)' :
              Arr(k, i)' = Arr(l, j)' => k = l /\ i = j
    PROVE  Distinct'
<1>0. None.id = 0
  BY DEF None
<1>1. \A u \in Threads : buf'[u] = IF u = t THEN b ELSE buf[u]
  BY DEF TypeOK
<1>2. \A u \in Threads : buf'[u] # None => buf'[u].id # 0
  BY <1>1 DEF Distinct
<1>3. \A u, v \in Threads : u # v /\ buf'[u] # None => buf'[u].id # buf'[v].id
  <2>1. ASSUME NEW u \in Threads, NEW v \in Threads, u # v, buf'[u] # None
        PROVE  buf'[u].id # buf'[v].id
    <3>1. CASE u = t
      BY <1>1, <2>1, <3>1
    <3>2. CASE u # t /\ v # t
      BY <1>1, <2>1, <3>2 DEF Distinct
    <3>3. CASE u # t /\ v = t
      <4>1. buf'[u] = buf[u] /\ buf'[v] = b /\ buf[u] # None
        BY <1>1, <2>1, <3>3
      <4>2. buf[u].id # 0
        BY <4>1 DEF Distinct
      <4> QED  BY <1>0, <3>3, <4>1, <4>2
    <3> QED  BY <3>1, <3>2, <3>3
  <2> QED  BY <2>1
<1>4. ASSUME NEW k \in 0..5, NEW i \in Idx(k)'
      PROVE  Arr(k, i)' # 0 /\ \A u \in Threads : buf'[u].id # Arr(k, i)'
  BY <1>1
<1> QED  BY <1>2, <1>3, <1>4 DEF Distinct

LEMMA NewDistinct ==
    ASSUME TypeOK, Distinct, NEW t \in Threads, NEW b, New(b), buf' = [buf EXCEPT ![t] = b],
           UNCHANGED pool
    PROVE  Distinct'
<1>1. \A k \in 0..5 : Idx(k)' = Idx(k) /\ \A i : Arr(k, i)' = Arr(k, i)
  BY DEF Idx, Arr
<1>2. b # None => b.id # 0 /\ \A u \in Threads \ {t} : b.id # buf[u].id
  BY NewArray
<1>3. \A k \in 0..5 : \A i \in Idx(k)' :
         /\ Arr(k, i)' # 0 /\ Arr(k, i)' # b.id
         /\ \A u \in Threads \ {t} : buf[u].id # Arr(k, i)'
  BY <1>1, NewArray DEF Distinct
<1>4. \A k, l \in 0..5 : \A i \in Idx(k)', j \in Idx(l)' :
         Arr(k, i)' = Arr(l, j)' => k = l /\ i = j
  BY <1>1 DEF Distinct
<1> QED  BY <1>2, <1>3, <1>4, KeepDistinct

(***************************************************************************)
(* A buffer leaves its channel, and those behind it move up.               *)
(***************************************************************************)
LEMMA TailPlaces ==
    ASSUME TypeOK, Distinct, NEW k \in 0..5, pool[k] # << >>, pool' = [pool EXCEPT ![k] = Tail(@)]
    PROVE  /\ \A l \in 0..5 : \A i \in Idx(l)' :
                 /\ Arr(l, i)' # 0 /\ Arr(l, i)' # Head(pool[k]).id
                 /\ \A u \in Threads : buf[u].id # Arr(l, i)'
                 /\ \E j \in Idx(l) : Arr(l, i)' = Arr(l, j)
           /\ \A l, m \in 0..5 : \A i \in Idx(l)', j \in Idx(m)' :
                 Arr(l, i)' = Arr(m, j)' => l = m /\ i = j
           /\ Head(pool[k]).id # 0 /\ \A u \in Threads : Head(pool[k]).id # buf[u].id
<1> DEFINE next(l, i) == IF l = k THEN i + 1 ELSE i
<1>0. pool[k] \in Seq(Buf)
  BY DEF TypeOK
<1>1. Len(pool[k]) \in Nat \ {0}
  BY <1>0
<1>2. Len(Tail(pool[k])) = Len(pool[k]) - 1
      /\ \A i \in 1..(Len(pool[k]) - 1) : Tail(pool[k])[i] = pool[k][i + 1]
  BY <1>0, <1>1
<1>3. pool'[k] = Tail(pool[k]) /\ \A l \in 0..5 : l # k => pool'[l] = pool[l]
  BY DEF TypeOK
<1>4. ASSUME NEW l \in 0..5, NEW i \in Idx(l)'
      PROVE  /\ i \in Int /\ next(l, i) \in Idx(l) /\ Arr(l, i)' = Arr(l, next(l, i))
             /\ l = k => next(l, i) # 1
  <2>1. CASE l = k
    <3>1. i \in 1..(Len(pool[k]) - 1)
      BY <1>2, <1>3, <2>1 DEF Idx
    <3>2. i \in Int /\ i + 1 \in 1..Len(pool[k]) /\ i + 1 # 1
      BY <1>1, <3>1
    <3>3. pool'[l][i] = pool[k][i + 1]
      BY <1>2, <1>3, <2>1, <3>1
    <3> QED  BY <2>1, <3>2, <3>3 DEF Idx, Arr
  <2>2. CASE l # k
    <3>1. pool'[l] = pool[l]
      BY <1>3, <2>2
    <3> QED  BY <2>2, <3>1 DEF Idx, Arr
  <2> QED  BY <2>1, <2>2
<1>5. Head(pool[k]).id = Arr(k, 1) /\ 1 \in Idx(k)
  BY <1>0, <1>1 DEF Arr, Idx
<1>6. ASSUME NEW l \in 0..5, NEW i \in Int, NEW j \in Int, next(l, i) = next(l, j)  PROVE i = j
  BY <1>6
<1> HIDE DEF next
<1>7. ASSUME NEW l \in 0..5, NEW i \in Idx(l)'
      PROVE  /\ Arr(l, i)' # 0 /\ Arr(l, i)' # Head(pool[k]).id
             /\ \A u \in Threads : buf[u].id # Arr(l, i)'
             /\ \E j \in Idx(l) : Arr(l, i)' = Arr(l, j)
  <2>1. /\ next(l, i) \in Idx(l) /\ Arr(l, i)' = Arr(l, next(l, i))
        /\ l = k => next(l, i) # 1
    BY <1>4
  <2>2. Arr(l, next(l, i)) # 0 /\ \A u \in Threads : buf[u].id # Arr(l, next(l, i))
    BY <2>1 DEF Distinct
  <2>3. Arr(l, next(l, i)) # Arr(k, 1)
    BY <1>5, <2>1 DEF Distinct
  <2> QED  BY <1>5, <2>1, <2>2, <2>3
<1>8. ASSUME NEW l \in 0..5, NEW m \in 0..5, NEW i \in Idx(l)', NEW j \in Idx(m)',
             Arr(l, i)' = Arr(m, j)'
      PROVE  l = m /\ i = j
  <2>1. /\ next(l, i) \in Idx(l) /\ Arr(l, i)' = Arr(l, next(l, i)) /\ i \in Int
        /\ next(m, j) \in Idx(m) /\ Arr(m, j)' = Arr(m, next(m, j)) /\ j \in Int
    BY <1>4
  <2>2. l = m /\ next(l, i) = next(m, j)
    <3>1. Arr(l, next(l, i)) = Arr(m, next(m, j))
      BY <1>8, <2>1
    <3> QED  BY <2>1, <3>1, PlaceOfArray
  <2> QED  BY <1>6, <2>1, <2>2
<1>9. Head(pool[k]).id # 0 /\ \A u \in Threads : Head(pool[k]).id # buf[u].id
  BY <1>5 DEF Distinct
<1> QED  BY <1>7, <1>8, <1>9

LEMMA TailDistinct ==
    ASSUME TypeOK, Distinct, NEW k \in 0..5, pool[k] # << >>, pool' = [pool EXCEPT ![k] = Tail(@)],
           \/ UNCHANGED buf
           \/ \E t \in Threads : buf' = [buf EXCEPT ![t] = Head(pool[k])]
           \/ \E t \in Threads : \E b : New(b) /\ buf' = [buf EXCEPT ![t] = b]
    PROVE  Distinct'
<1>p. /\ \A l \in 0..5 : \A i \in Idx(l)' :
            /\ Arr(l, i)' # 0 /\ Arr(l, i)' # Head(pool[k]).id
            /\ \A u \in Threads : buf[u].id # Arr(l, i)'
            /\ \E j \in Idx(l) : Arr(l, i)' = Arr(l, j)
      /\ \A l, m \in 0..5 : \A i \in Idx(l)', j \in Idx(m)' :
            Arr(l, i)' = Arr(m, j)' => l = m /\ i = j
      /\ Head(pool[k]).id # 0 /\ \A u \in Threads : Head(pool[k]).id # buf[u].id
  BY TailPlaces
<1>1. CASE UNCHANGED buf
  BY <1>1, <1>p DEF Distinct
<1>2. ASSUME NEW t \in Threads, buf' = [buf EXCEPT ![t] = Head(pool[k])]  PROVE Distinct'
  <2>1. \A l \in 0..5 : \A i \in Idx(l)' :
           /\ Arr(l, i)' # 0 /\ Arr(l, i)' # Head(pool[k]).id
           /\ \A u \in Threads \ {t} : buf[u].id # Arr(l, i)'
    BY <1>p
  <2> QED  BY <1>2, <1>p, <2>1, KeepDistinct
<1>3. ASSUME NEW t \in Threads, NEW b, New(b), buf' = [buf EXCEPT ![t] = b]  PROVE Distinct'
  <2>0. \A l \in 0..5 : \A i \in Idx(l) : b.id # Arr(l, i)
    BY <1>3, NewArray
  <2>1. \A l \in 0..5 : \A i \in Idx(l)' :
           /\ Arr(l, i)' # 0 /\ Arr(l, i)' # b.id
           /\ \A u \in Threads \ {t} : buf[u].id # Arr(l, i)'
    BY <1>p, <2>0
  <2>2. b # None => b.id # 0 /\ \A u \in Threads \ {t} : b.id # buf[u].id
    BY <1>3, NewArray
  <2> QED  BY <1>3, <1>p, <2>1, <2>2, KeepDistinct
<1> QED  BY <1>1, <1>2, <1>3

(***************************************************************************)
(* A goroutine puts its buffer back and does not keep it.                  *)
(***************************************************************************)
LEMMA SendDistinct ==
    ASSUME TypeOK, Distinct, NEW k \in 0..5, NEW t \in Threads, buf[t] # None, Send(k, buf[t]),
           NEW b, New(b), buf' = [buf EXCEPT ![t] = b]
    PROVE  Distinct'
<1>1. CASE UNCHANGED pool
  BY <1>1, NewDistinct
<1>2. CASE pool' = [pool EXCEPT ![k] = Append(@, buf[t])]
  <2> DEFINE n == Len(pool[k]) + 1
  <2>0. pool[k] \in Seq(Buf) /\ buf[t] \in Buf
    BY DEF TypeOK
  <2>1. n \in Nat /\ Len(pool[k]) \in Nat
    BY <2>0
  <2>2. Len(Append(pool[k], buf[t])) = n
        /\ \A i \in 1..n : Append(pool[k], buf[t])[i] = IF i = n THEN buf[t] ELSE pool[k][i]
    BY <2>0, <2>1
  <2>3. pool'[k] = Append(pool[k], buf[t]) /\ \A l \in 0..5 : l # k => pool'[l] = pool[l]
    BY <1>2 DEF TypeOK
  <2>4. ASSUME NEW l \in 0..5, NEW i \in Idx(l)'
        PROVE  \/ l = k /\ i = n /\ Arr(l, i)' = buf[t].id
               \/ i \in Idx(l) /\ Arr(l, i)' = Arr(l, i)
    <3>1. CASE l = k
      <4>1. i \in 1..n
        BY <2>2, <2>3, <3>1 DEF Idx
      <4>2. pool'[l][i] = IF i = n THEN buf[t] ELSE pool[k][i]
        BY <2>2, <2>3, <3>1, <4>1
      <4>3. i # n => i \in 1..Len(pool[k])
        BY <2>1, <4>1
      <4> HIDE DEF n
      <4> QED  BY <3>1, <4>2, <4>3 DEF Idx, Arr
    <3>2. CASE l # k
      BY <2>3, <3>2 DEF Idx, Arr
    <3> QED  BY <3>1, <3>2
  <2> HIDE DEF n
  <2>5. ASSUME NEW l \in 0..5, NEW m \in 0..5, NEW i \in Idx(l)', NEW j \in Idx(m)',
               Arr(l, i)' = Arr(m, j)'
        PROVE  l = m /\ i = j
    <3>1. CASE i \in Idx(l) /\ Arr(l, i)' = Arr(l, i) /\ j \in Idx(m) /\ Arr(m, j)' = Arr(m, j)
      <4>1. Arr(l, i) = Arr(m, j)
        BY <2>5, <3>1
      <4> QED  BY <3>1, <4>1, PlaceOfArray
    <3>2. \A h \in 0..5 : \A x \in Idx(h) : Arr(h, x) # buf[t].id
      BY DEF Distinct
    <3> QED  BY <2>4, <2>5, <3>1, <3>2
  <2>6. b.id # buf[t].id /\ (b # None => b.id # 0 /\ \A u \in Threads \ {t} : b.id # buf[u].id)
    <3>1. None.id = 0 /\ buf[t].id # 0
      BY DEF None, Distinct
    <3> QED  BY <3>1, NewArray
  <2>7. ASSUME NEW l \in 0..5, NEW i \in Idx(l)'
        PROVE  /\ Arr(l, i)' # 0 /\ Arr(l, i)' # b.id
               /\ \A u \in Threads \ {t} : buf[u].id # Arr(l, i)'
    <3>1. CASE Arr(l, i)' = buf[t].id
      BY <2>6, <3>1 DEF Distinct
    <3>2. CASE i \in Idx(l) /\ Arr(l, i)' = Arr(l, i)
      BY <3>2, NewArray DEF Distinct
    <3> QED  BY <2>4, <3>1, <3>2
  <2> QED  BY <2>5, <2>6, <2>7, KeepDistinct
<1> QED  BY <1>1, <1>2 DEF Send

LEMMA MakeIsNew ==
    ASSUME TypeOK, NEW c \in Nat
    PROVE  New(Make(c))
BY Fresh DEF New

LEMMA ReturnSets ==
    ASSUME NEW t, NEW b, Return(t, b)
    PROVE  buf' = [buf EXCEPT ![t] = b]
BY DEF Return

LEMMA OwnStep ==
    ASSUME TypeOK, Distinct, Carries, PoolNext
    PROVE  Distinct'
<1>a. /\ baseline0 \in Nat /\ Lengths \subseteq Nat
      /\ \A f \in Foreign : f[1] \in Nat /\ f[2] \in Nat /\ f[1] <= f[2]
  BY PoolAssumption
<1>f. ASSUME UNCHANGED <<pool, buf>>  PROVE Distinct'
  BY <1>f DEF Distinct, Idx, Arr
<1>n. New(None)
  BY DEF New
<1>1. ASSUME NEW t \in Threads, NEW n \in Lengths, GetEnter(t, n)  PROVE Distinct'
  <2>1. New(Make(n))
    BY <1>a, MakeIsNew
  <2> QED  BY <1>1, <1>f, <2>1, NewDistinct DEF GetEnter
<1>2. ASSUME NEW t \in Threads, GetStep(t)  PROVE Distinct'
  <2>c. want[t] \in Nat /\ sz[t] \in Nat /\ Class(t) \in 0..5
    BY ClassType DEF TypeOK
  <2>m. New(Make(want[t])) /\ New(Make(sz[t])) /\ New(Make(baseline0))
    BY <1>a, <2>c, MakeIsNew
  <2>r. UNCHANGED pool /\ Return(t, Make(want[t])) => Distinct'
    BY <2>m, ReturnSets, NewDistinct
  <2>1. CASE GetMiss(t)
    <3>1. CASE Return(t, Make(baseline0))
      BY <2>1, <2>m, <3>1, ReturnSets, NewDistinct DEF GetMiss
    <3> QED  BY <2>1, <3>1, <1>f DEF GetMiss
  <2>2. CASE GetRecv(t)
    <3> DEFINE k == Class(t)
               b == Head(pool[k])
    <3>1. pool[k] # << >> /\ pool' = [pool EXCEPT ![k] = Tail(@)]
      BY <2>2 DEF GetRecv
    <3>2. buf' = [buf EXCEPT ![t] = b] \/ Return(t, b) \/ Return(t, Make(baseline0))
      BY <2>2 DEF GetRecv
    <3>3. buf' = [buf EXCEPT ![t] = b] \/ buf' = [buf EXCEPT ![t] = Make(baseline0)]
      BY <3>2, ReturnSets
    <3> QED  BY <2>c, <2>m, <3>1, <3>3, TailDistinct
  <2>3. CASE GetHalf(t) \/ SetHalf(t) \/ GetLoad(t) \/ SetMiss(t)
    BY <2>3, <1>f DEF GetHalf, SetHalf, GetLoad, SetMiss
  <2>4. CASE PushHalf(t)
    <3>1. buf[t] # None
      BY <2>4 DEF PushHalf, Carries, At
    <3>2. Send(Class(t), buf[t]) /\ buf' = [buf EXCEPT ![t] = Make(want[t])]
      BY <2>4, ReturnSets DEF PushHalf
    <3> QED  BY <2>c, <2>m, <3>1, <3>2, SendDistinct
  <2>5. CASE ResetHalf(t) \/ GetCAS(t) \/ ResetMiss(t)
    BY <2>5, <2>r DEF ResetHalf, GetCAS, ResetMiss
  <2>6. CASE GetShort(t)
    BY <2>6, <1>f, <1>n, NewDistinct DEF GetShort
  <2>7. CASE PushShort(t)
    <3>1. buf[t] # None
      BY <2>7 DEF PushShort, Carries, At
    <3>2. Send(Class(t), buf[t]) /\ buf' = [buf EXCEPT ![t] = None]
      BY <2>7 DEF PushShort
    <3> QED  BY <2>c, <1>n, <3>1, <3>2, SendDistinct
  <2>8. CASE GetMake(t)
    BY <2>8, <2>m, ReturnSets, NewDistinct DEF GetMake
  <2>9. CASE GetTooSmall(t)
    BY <2>9, <2>r, <1>f DEF GetTooSmall
  <2> QED  BY <1>2, <2>1, <2>2, <2>3, <2>4, <2>5, <2>6, <2>7, <2>8, <2>9 DEF GetStep
<1>3. ASSUME NEW t \in Threads, PutEnter(t) \/ LetGo(t)  PROVE Distinct'
  <2>1. CASE Return(t, None) /\ UNCHANGED pool
    BY <2>1, <1>n, ReturnSets, NewDistinct
  <2> QED  BY <1>3, <1>f, <2>1 DEF PutEnter, LetGo
<1>4. ASSUME NEW t \in Threads, PutSend(t)  PROVE Distinct'
  <2>1. buf[t].cap \in Int
    BY DEF TypeOK, Buf
  <2>2. poolNum(buf[t].cap) \in 0..5
    BY <2>1, PoolNumConvex
  <2>3. buf[t] # None
    BY <1>4 DEF PutSend, Carries, At
  <2>4. Send(poolNum(buf[t].cap), buf[t]) /\ buf' = [buf EXCEPT ![t] = None]
    BY <1>4, ReturnSets DEF PutSend
  <2> QED  BY <1>n, <2>2, <2>3, <2>4, SendDistinct
<1>5. ASSUME NEW t \in Threads, NEW f \in Foreign, Elsewhere(t, f)  PROVE Distinct'
  <2>1. New(Make(f[2]))
    BY <1>a, MakeIsNew
  <2> QED  BY <1>5, <2>1, NewDistinct DEF Elsewhere
<1>6. ASSUME NEW t \in Threads, CloseBegin(t) \/ CloseLock(t) \/ CloseSend(t)  PROVE Distinct'
  BY <1>6, <1>f DEF CloseBegin, CloseLock, CloseSend
<1>7. ASSUME NEW k \in 0..5, DrainTick(k)  PROVE Distinct'
  BY <1>7, TailDistinct DEF DrainTick, locals
<1>8. ASSUME DrainClose  PROVE Distinct'
  BY <1>8, <1>f DEF DrainClose, locals
<1> QED  BY <1>1, <1>2, <1>3, <1>4, <1>5, <1>6, <1>7, <1>8 DEF PoolNext

LEMMA CarriesStep ==
    ASSUME TypeOK, Distinct, Carries, PoolNext
    PROVE  Carries'
<1> DEFINE Carrying == {"half", "pushHalf", "setHalf", "short", "pushShort", "put"}
<1>o. ASSUME NEW t \in Threads, pc'[t] \in Carrying => buf'[t] # None,
             \A u \in Threads \ {t} : pc'[u] = pc[u] /\ buf'[u] = buf[u]
      PROVE  Carries'
  BY <1>o DEF Carries
<1>r. ASSUME NEW t \in Threads, NEW b, Return(t, b)  PROVE Carries'
  <2>1. pc'[t] = "idle" /\ \A u \in Threads \ {t} : pc'[u] = pc[u] /\ buf'[u] = buf[u]
    BY <1>r DEF TypeOK, Return, Goto
  <2> QED  BY <2>1, <1>o
<1>g. ASSUME NEW t \in Threads, NEW l, Goto(t, l), l \notin Carrying \/ buf[t] # None, UNCHANGED buf
      PROVE  Carries'
  <2>1. pc'[t] = l /\ \A u \in Threads \ {t} : pc'[u] = pc[u] /\ buf'[u] = buf[u]
    BY <1>g DEF TypeOK, Goto
  <2> QED  BY <2>1, <1>g, <1>o
<1>1. ASSUME NEW t \in Threads, NEW n \in Lengths, GetEnter(t, n)  PROVE Carries'
  <2>1. pc'[t] \in {"idle", "recv"} /\ \A u \in Threads \ {t} : pc'[u] = pc[u] /\ buf'[u] = buf[u]
    BY <1>1 DEF TypeOK, GetEnter, At, Goto
  <2> QED  BY <2>1, <1>o
<1>2. ASSUME NEW t \in Threads, GetStep(t)  PROVE Carries'
  <2>c. Class(t) \in 0..5
    BY ClassType
  <2>1. CASE GetMiss(t)
    BY <2>1, <1>r, <1>g DEF GetMiss
  <2>2. CASE GetRecv(t)
    <3> DEFINE k == Class(t)
               b == Head(pool[k])
    <3>1. pool[k] # << >> /\ pool[k] \in Seq(Buf)
      BY <2>2, <2>c DEF GetRecv, TypeOK
    <3>2. 1 \in Idx(k) /\ b.id = Arr(k, 1)
      BY <3>1 DEF Idx, Arr
    <3>3. b.id # 0
      BY <2>c, <3>2 DEF Distinct
    <3>4. b # None
      BY <3>3 DEF None
    <3>5. \/ \E l : Goto(t, l) /\ buf' = [buf EXCEPT ![t] = b]
          \/ Return(t, b) \/ Return(t, Make(baseline0))
      BY <2>2 DEF GetRecv
    <3> HIDE DEF b
    <3>6. ASSUME NEW l, Goto(t, l), buf' = [buf EXCEPT ![t] = b]  PROVE Carries'
      <4>1. buf'[t] = b /\ \A u \in Threads \ {t} : pc'[u] = pc[u] /\ buf'[u] = buf[u]
        BY <3>6 DEF TypeOK, Goto
      <4> QED  BY <3>4, <4>1, <1>o
    <3> QED  BY <3>5, <3>6, <1>r
  <2>3. CASE GetHalf(t)
    <3>1. buf[t] # None
      BY <2>3 DEF GetHalf, Carries, At
    <3> QED  BY <2>3, <3>1, <1>g DEF GetHalf
  <2>4. CASE PushHalf(t) \/ ResetHalf(t) \/ GetMake(t) \/ GetCAS(t) \/ ResetMiss(t)
    BY <2>4, <1>r DEF PushHalf, ResetHalf, GetMake, GetCAS, ResetMiss
  <2>5. CASE SetHalf(t)
    BY <2>5, <1>g DEF SetHalf
  <2>6. CASE GetShort(t)
    <3>1. buf[t] # None
      BY <2>6 DEF GetShort, Carries, At
    <3>2. \/ Goto(t, "pushShort") /\ buf' = buf
          \/ Goto(t, "load") /\ buf' = [buf EXCEPT ![t] = None]
      BY <2>6 DEF GetShort
    <3>3. CASE Goto(t, "load") /\ buf' = [buf EXCEPT ![t] = None]
      <4>1. pc'[t] = "load" /\ \A u \in Threads \ {t} : pc'[u] = pc[u] /\ buf'[u] = buf[u]
        BY <3>3 DEF TypeOK, Goto
      <4> QED  BY <4>1, <1>o
    <3> QED  BY <3>1, <3>2, <3>3, <1>g
  <2>7. CASE PushShort(t)
    <3>1. pc'[t] = "load" /\ \A u \in Threads \ {t} : pc'[u] = pc[u] /\ buf'[u] = buf[u]
      BY <2>7 DEF TypeOK, PushShort, Goto
    <3> QED  BY <3>1, <1>o
  <2>8. CASE GetLoad(t)
    <3>1. Goto(t, "make") \/ Goto(t, "cas") \/ Goto(t, "miss")
      BY <2>8 DEF GetLoad
    <3> QED  BY <2>8, <3>1, <1>g DEF GetLoad
  <2>9. CASE GetTooSmall(t)
    BY <2>9, <1>r, <1>g DEF GetTooSmall
  <2>10. CASE SetMiss(t)
    BY <2>10, <1>g DEF SetMiss
  <2> QED  BY <1>2, <2>1, <2>2, <2>3, <2>4, <2>5, <2>6, <2>7, <2>8, <2>9, <2>10 DEF GetStep
<1>3. ASSUME NEW t \in Threads, PutEnter(t)  PROVE Carries'
  BY <1>3, <1>r, <1>g DEF PutEnter
<1>4. ASSUME NEW t \in Threads, PutSend(t) \/ LetGo(t)  PROVE Carries'
  BY <1>4, <1>r DEF PutSend, LetGo
<1>5. ASSUME NEW t \in Threads, NEW f \in Foreign, Elsewhere(t, f)  PROVE Carries'
  <2>1. pc'[t] = "idle" /\ \A u \in Threads \ {t} : pc'[u] = pc[u] /\ buf'[u] = buf[u]
    BY <1>5 DEF TypeOK, Elsewhere, At
  <2> QED  BY <2>1, <1>o
<1>6. ASSUME NEW t \in Threads, CloseBegin(t) \/ CloseLock(t) \/ CloseSend(t)  PROVE Carries'
  <2>1. (Goto(t, "lock") \/ Goto(t, "idle") \/ Goto(t, "send")) /\ UNCHANGED buf
    BY <1>6 DEF CloseBegin, CloseLock, CloseSend
  <2> QED  BY <2>1, <1>g
<1>7. ASSUME UNCHANGED locals  PROVE Carries'
  BY <1>7 DEF locals, Carries
<1> QED  BY <1>1, <1>2, <1>3, <1>4, <1>5, <1>6, <1>7 DEF PoolNext, DrainTick, DrainClose

(***************************************************************************)
(* A buffer has one owner: it is in one channel once, or one goroutine     *)
(* holds it, whatever the interleaving of Get, Put, drain and Close.       *)
(***************************************************************************)
THEOREM OneOwnerHolds == Safety => []OneOwner
<1>1. PoolInit => Distinct /\ Carries
  <2>1. ASSUME PoolInit  PROVE \A k \in 0..5 : Idx(k) = {}
    BY <2>1 DEF PoolInit, Idx
  <2> QED  BY <2>1 DEF PoolInit, Distinct, Carries
<1>2. ASSUME TypeOK, Distinct, Carries, [PoolNext]_poolVars  PROVE Distinct' /\ Carries'
  <2>1. CASE UNCHANGED poolVars
    BY <1>2, <2>1 DEF poolVars, locals, Distinct, Carries, Idx, Arr
  <2> QED  BY <1>2, <2>1, OwnStep, CarriesStep
<1>3. TypeOK /\ Distinct => OneOwner
  BY DistinctCounts
<1> QED  BY <1>1, <1>2, <1>3, TypeCorrect, PTL DEF Safety

=============================================================================
