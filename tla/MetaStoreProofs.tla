-------------------------- MODULE MetaStoreProofs ----------------------------
(***************************************************************************)
(* Proofs about module MetaStore, for any set of descriptor numbers: that  *)
(* SetMeta is atomic and durable, and that the files implement the cell of *)
(* module MetaCell.  The client stores increasing numbers and keeps the    *)
(* manifests of calls that failed; the file operations of SetMeta may      *)
(* fail, its directory sync and the restore of GetMeta do not.  Without    *)
(* any one of these conditions the properties do not hold.                 *)
(*                                                                         *)
(* The invariant says what each file may hold at each step of setMeta; the *)
(* properties follow from PickIs, which says what GetMeta then finds.      *)
(***************************************************************************)
EXTENDS MetaStore, WellFoundedInduction, TLAPS

\* what the cell may hold
Held == {meta} \cup doubt

(***************************************************************************)
(* The numbers of unsettled calls are above the settled one and bounded,   *)
(* and their manifests and the settled one's exist.                        *)
(***************************************************************************)
Numbers ==
    /\ \A d \in doubt : d > meta /\ d \in files
    /\ \E b \in Nat : \A d \in doubt : d <= b
    /\ meta # None => meta \in files

(***************************************************************************)
(* CURRENT, and what it falls back to when a rename is lost, is settled or *)
(* in doubt; a rename is not durable only before the directory is synced;  *)
(* there is no CURRENT.bak before the first CURRENT.                       *)
(***************************************************************************)
CurrentHeld ==
    /\ cur \in Held
    /\ undo # << >> => /\ undo = <<undo[1]>> /\ undo[1] \in Held /\ cur \in Nums
                       /\ step = "sync" \/ kind = "down"
    /\ cur = None \/ (undo # << >> /\ undo[1] = None) => bak = None

(***************************************************************************)
(* A pending file is of a call in doubt, or obsolete.                      *)
(***************************************************************************)
PendingOld ==
    \A n \in Nums : /\ pend[n] \in {None, Bad, n}
                    /\ pend[n] # None => n \in doubt \/ n <= meta

(***************************************************************************)
(* What the operation in progress knows.                                   *)
(***************************************************************************)
InProgress ==
    /\ step = "none" <=> kind \in {"none", "down"}
    /\ kind \in {"set", "get"} => target \in Held /\ target \in Nums
    /\ kind = "set" => step # "clean" /\ target \in doubt /\ \A d \in doubt : d <= target
    /\ kind = "get" => \A n \in Nums : pend[n] # None =>
                          n \in todo \/ (n = target /\ step \in {"pendwrite", "rename"})
    /\ step \in {"bak", "bakwrite"} => cur # None
    /\ step = "rename" => pend[target] = target
    /\ step \in {"sync", "clean"} => cur = target

MInv == TypeOK /\ Numbers /\ CurrentHeld /\ PendingOld /\ InProgress
-----------------------------------------------------------------------------
(* What GetMeta finds. *)

(***************************************************************************)
(* A bounded set of numbers that is not empty has a greatest one.          *)
(***************************************************************************)
LEMMA GreatestIs ==
    ASSUME NEW S \in SUBSET Nat, S # {}, NEW b \in Nat, \A x \in S : x <= b
    PROVE  Greatest(S) \in S /\ \A y \in S : y <= Greatest(S)
<1> DEFINE T == {i \in Nat : b - i \in S}
<1>1. T \subseteq Nat /\ T # {}
  <2>1. PICK x \in S : TRUE
    OBVIOUS
  <2>2. b - x \in Nat /\ b - (b - x) = x
    BY <2>1
  <2>3. b - x \in T
    BY <2>1, <2>2
  <2> QED  BY <2>3
<1>2. \E i \in T : \A j \in T : ~(<<j, i>> \in OpToRel(<, Nat))
  BY <1>1, WFMin, NatLessThanWellFounded
<1>3. PICK i \in T : \A j \in T : ~(j < i)
  BY <1>1, <1>2 DEF OpToRel
<1>4. b - i \in S /\ i \in Nat
  BY <1>3
<1>5. ASSUME NEW y \in S  PROVE y <= b - i
  <2>1. y \in Nat /\ b - y \in Nat /\ b - (b - y) = y
    OBVIOUS
  <2>2. b - y \in T
    BY <2>1
  <2>3. ~(b - y < i)
    BY <1>3, <2>2
  <2> QED  BY <1>4, <2>1, <2>3
<1>6. \E x \in S : \A y \in S : y <= x
  BY <1>4, <1>5
<1> QED  BY <1>6 DEF Greatest

(***************************************************************************)
(* CURRENT is always usable, so that CURRENT.bak is not looked at.         *)
(***************************************************************************)
LEMMA CurCurIs ==
    ASSUME TypeOK, Numbers, CurrentHeld
    PROVE  CurCur = cur
<1>1. Nums \subseteq Nat /\ files \subseteq Nums
  BY MetaAssumption DEF TypeOK
<1>2. None \notin files
  BY <1>1 DEF None
<1>3. CASE cur = None
  BY <1>2, <1>3 DEF CurrentHeld, CurCur, Ok
<1>4. CASE cur # None
  <2>1. cur \in files
    BY <1>4 DEF CurrentHeld, Held, Numbers
  <2> QED  BY <2>1 DEF CurCur, Ok
<1> QED  BY <1>3, <1>4

(***************************************************************************)
(* GetMeta finds CURRENT, or a greater number that is in doubt.            *)
(***************************************************************************)
LEMMA PickIs ==
    ASSUME TypeOK, Numbers, CurrentHeld, PendingOld
    PROVE  \/ Pick = cur
           \/ Pick \in doubt /\ Pick > cur /\ pend[Pick] # None
<1> DEFINE S == {n \in PendNums : Ok(pend[n])}
<1>0. Nums \subseteq Nat /\ files \subseteq Nums /\ meta \in Nums \cup {None} /\ doubt \subseteq Nums
      /\ cur \in Nums \cup {None}
  BY MetaAssumption DEF TypeOK
<1>1. CASE S = {}
  BY <1>1, CurCurIs DEF Pick, PendCur
<1>2. CASE S # {}
  <2>1. \A n \in S : n \in Nat /\ n \in Nums /\ pend[n] = n /\ (n \in doubt \/ n <= meta)
    BY <1>0 DEF PendNums, Ok, PendingOld, None, Bad
  <2>2. PICK b \in Nat : \A d \in doubt : d <= b
    BY DEF Numbers
  <2>3. \E c \in Nat : \A n \in S : n <= c
    <3>1. CASE meta = None \/ meta <= b
      <4>1. \A n \in S : n <= b
        BY <1>0, <2>1, <2>2, <3>1 DEF None
      <4> QED  BY <4>1
    <3>2. CASE meta \in Nat /\ ~(meta <= b)
      <4>1. \A n \in S : n <= meta
        BY <1>0, <2>1, <2>2, <3>2
      <4> QED  BY <3>2, <4>1
    <3> QED  BY <1>0, <3>1, <3>2
  <2>4. S \in SUBSET Nat
    BY <2>1
  <2> DEFINE g == Greatest(S)
  <2>5. g \in S
    BY <1>2, <2>3, <2>4, GreatestIs
  <2>6. PendCur = g
    BY <1>2, <2>1, <2>5 DEF PendCur
  <2> HIDE DEF S, g
  <2>7. g \in Nat /\ g \in Nums /\ pend[g] = g /\ (g \in doubt \/ g <= meta)
    BY <2>1, <2>5
  <2>8. Pick = IF cur = None \/ g > cur THEN g ELSE cur
    BY <1>0, <2>6, <2>7, CurCurIs DEF Pick, None
  <2>9. CASE cur = None \/ g > cur
    <3>1. g > cur /\ Pick = g
      BY <1>0, <2>7, <2>8, <2>9 DEF None
    <3>2. cur = meta \/ (cur \in doubt /\ cur > meta)
      BY DEF CurrentHeld, Held, Numbers
    <3>3. g \in doubt
      BY <1>0, <2>7, <3>1, <3>2 DEF None
    <3>4. pend[g] # None
      BY <2>7 DEF None
    <3> QED  BY <3>1, <3>3, <3>4
  <2>10. CASE ~(cur = None \/ g > cur)
    BY <2>8, <2>10
  <2> QED  BY <2>9, <2>10
<1> QED  BY <1>1, <1>2

LEMMA PickHeld ==
    ASSUME TypeOK, Numbers, CurrentHeld, PendingOld, Pick # None
    PROVE  Pick \in Held /\ Pick \in Nums /\ Pick \in files
<1>1. Pick \in Held
  BY PickIs DEF CurrentHeld, Held
<1> QED  BY <1>1 DEF Held, Numbers, TypeOK

-----------------------------------------------------------------------------
(* The invariant. *)

LEMMA UndoSequence ==
    ASSUME TypeOK, CurrentHeld, undo # << >>
    PROVE  undo[Len(undo)] = undo[1] /\ SubSeq(undo, 1, Len(undo) - 1) = << >>
           /\ undo[1] \in Nums \cup {None}
<1>1. undo = <<undo[1]>> /\ undo \in Seq(Nums \cup {None})
  BY DEF CurrentHeld, TypeOK
<1>2. Len(undo) = 1
  BY <1>1
<1> QED  BY <1>1, <1>2

(***************************************************************************)
(* Settling target, which is in doubt or settled, keeps the numbers in     *)
(* order.                                                                  *)
(***************************************************************************)
LEMMA SettleNumbers ==
    ASSUME TypeOK, Numbers, target \in Held, target \in Nums, meta' = target, doubt' = {},
           UNCHANGED files
    PROVE  Numbers'
<1>1. target \in files
  <2>1. Nums \subseteq Nat
    BY MetaAssumption
  <2>2. target # None
    BY <2>1 DEF None
  <2> QED  BY <2>2 DEF Held, Numbers
<1>2. \E b \in Nat : \A d \in {} : d <= b
  OBVIOUS
<1> QED  BY <1>1, <1>2 DEF Numbers


LEMMA InvStep ==
    ASSUME Increasing = TRUE, RemoveDoubted = FALSE, Faults \subseteq {"set"}, MInv, Next
    PROVE  MInv'
<1> USE DEF MInv
<1>0. Nums \subseteq Nat
  BY MetaAssumption
<1>1. ASSUME NEW n \in Nums, Create(n)  PROVE MInv'
  <2>1. TypeOK'
    BY <1>0, <1>1 DEF Create, op, hist, TypeOK, Content, None, Bad
  <2>2. Numbers'
    BY <1>0, <1>1 DEF Create, op, hist, TypeOK, Numbers, None, Bad
  <2>3. CurrentHeld'
    BY <1>0, <1>1 DEF Create, op, hist, TypeOK, CurrentHeld, Held, InProgress, None, Bad
  <2>4. PendingOld'
    BY <1>0, <1>1 DEF Create, op, hist, TypeOK, PendingOld, Held, InProgress, None, Bad
  <2>5. InProgress'
    BY <1>0, <1>1 DEF Create, op, hist, TypeOK, InProgress, Held, CurrentHeld, None, Bad
  <2> QED  BY <2>1, <2>2, <2>3, <2>4, <2>5
<1>2. ASSUME NEW n \in Nums, Remove(n)  PROVE MInv'
  <2>1. TypeOK'
    BY <1>0, <1>2 DEF Remove, op, hist, TypeOK, Content, None, Bad
  <2>2. Numbers'
    BY <1>0, <1>2 DEF Remove, op, hist, TypeOK, Numbers, None, Bad
  <2>3. CurrentHeld'
    BY <1>0, <1>2 DEF Remove, op, hist, TypeOK, CurrentHeld, Held, InProgress, None, Bad
  <2>4. PendingOld'
    BY <1>0, <1>2 DEF Remove, op, hist, TypeOK, PendingOld, Held, InProgress, None, Bad
  <2>5. InProgress'
    BY <1>0, <1>2 DEF Remove, op, hist, TypeOK, InProgress, Held, CurrentHeld, None, Bad
  <2> QED  BY <2>1, <2>2, <2>3, <2>4, <2>5
<1>3. ASSUME NEW n \in Nums, SetMeta(n)  PROVE MInv'
  <2>1. TypeOK'
    BY <1>0, <1>3 DEF SetMeta, disk, TypeOK, Content, None, Bad
  <2>2. Numbers'
    <3>1. \A d \in doubt \cup {n} : d > meta /\ d \in files /\ d <= n
      BY <1>0, <1>3 DEF SetMeta, TypeOK, Numbers
    <3>2. n \in Nat
      BY <1>0
    <3>3. \E b \in Nat : \A d \in doubt \cup {n} : d <= b
      BY <3>1, <3>2
    <3> QED  BY <1>3, <3>1, <3>3 DEF SetMeta, Numbers, disk
  <2>3. CurrentHeld'
    BY <1>0, <1>3 DEF SetMeta, disk, TypeOK, CurrentHeld, Held, InProgress, None, Bad
  <2>4. PendingOld'
    BY <1>0, <1>3 DEF SetMeta, disk, TypeOK, PendingOld, Held, InProgress, None, Bad
  <2>5. InProgress'
    BY <1>0, <1>3 DEF SetMeta, disk, TypeOK, InProgress, Held, CurrentHeld, None, Bad
  <2> QED  BY <2>1, <2>2, <2>3, <2>4, <2>5
<1>4. ASSUME GetMeta  PROVE MInv'
  <2>0. Pick \in Held /\ Pick \in Nums /\ Pick \in files
    BY <1>4, PickHeld DEF GetMeta
  <2>a. CASE ~NeedsRestore /\ meta' = Pick /\ doubt' = {} /\ UNCHANGED op
    <3>1. Pick = cur /\ \A n \in Nums : pend[n] = None
      BY <2>a DEF NeedsRestore, PendNums
    <3>2. kind = "none" /\ UNCHANGED disk
      BY <1>4 DEF GetMeta
    <3>3. step = "none" /\ undo = << >>
      BY <3>2 DEF InProgress, CurrentHeld
    <3>4. TypeOK'
      BY <2>0, <2>a, <3>2 DEF TypeOK, disk, op
    <3>5. Numbers'
      <4>1. \E b \in Nat : \A d \in {} : d <= b
        OBVIOUS
      <4> QED  BY <2>0, <2>a, <3>2, <4>1 DEF Numbers, disk
    <3>6. CurrentHeld'
      BY <2>a, <3>1, <3>2, <3>3 DEF CurrentHeld, Held, disk
    <3>7. PendingOld'
      BY <2>a, <3>1, <3>2 DEF PendingOld, disk
    <3>8. InProgress'
      BY <2>a, <3>2, <3>3 DEF InProgress, op
    <3> QED  BY <3>4, <3>5, <3>6, <3>7, <3>8
  <2>b. CASE /\ kind' = "get" /\ target' = Pick /\ step' = "check" /\ todo' = PendNums
             /\ UNCHANGED hist
    <3>1. kind = "none" /\ UNCHANGED disk
      BY <1>4 DEF GetMeta
    <3>2. step = "none" /\ undo = << >>
      BY <3>1 DEF InProgress, CurrentHeld
    <3>3. TypeOK'
      BY <2>0, <2>b, <3>1 DEF TypeOK, disk, hist, PendNums
    <3>4. Numbers' /\ PendingOld'
      BY <2>b, <3>1 DEF Numbers, PendingOld, disk, hist
    <3>5. CurrentHeld'
      BY <2>b, <3>1, <3>2 DEF CurrentHeld, Held, disk, hist
    <3>6. InProgress'
      BY <2>0, <2>b, <3>1 DEF InProgress, Held, PendNums, disk, hist
    <3> QED  BY <3>3, <3>4, <3>5, <3>6
  <2> QED  BY <1>4, <2>a, <2>b DEF GetMeta
<1>5. ASSUME CheckSame  PROVE MInv'
  <2>1. TypeOK'
    BY <1>0, <1>5
       DEF CheckSame, Goto, Idle, SetDone, disk, hist, TypeOK, Content, InProgress, None, Bad
  <2>2. Numbers'
    <3>1. target \in Held /\ target \in Nums /\ UNCHANGED files
      BY <1>5 DEF CheckSame, InProgress, SetDone, disk
    <3>2. CASE meta' = target /\ doubt' = {}
      BY <3>1, <3>2, SettleNumbers
    <3>3. CASE UNCHANGED hist
      BY <3>1, <3>3 DEF Numbers, hist
    <3> QED  BY <1>5, <3>2, <3>3 DEF CheckSame, SetDone
  <2>3. CurrentHeld'
    BY <1>0, <1>5
       DEF CheckSame, Goto, Idle, SetDone, disk, hist, TypeOK, CurrentHeld, Held, InProgress,
           None, Bad
  <2>4. PendingOld'
    <3>1. CASE kind = "set" /\ meta' = target /\ doubt' = {}
      <4>1. \A n \in Nums : n \in doubt \/ n <= meta => n <= target
        BY <1>0, <3>1 DEF TypeOK, Numbers, InProgress, None
      <4>2. UNCHANGED pend
        BY <1>5 DEF CheckSame, disk
      <4> QED  BY <3>1, <4>1, <4>2 DEF PendingOld
    <3>2. CASE UNCHANGED hist
      BY <1>5, <3>2 DEF CheckSame, PendingOld, hist, disk
    <3> QED  BY <1>5, <3>1, <3>2 DEF CheckSame, SetDone
  <2>5. InProgress'
    BY <1>0, <1>5
       DEF CheckSame, Goto, Idle, SetDone, disk, hist, TypeOK, InProgress, Held, CurrentHeld,
           None, Bad
  <2> QED  BY <2>1, <2>2, <2>3, <2>4, <2>5
<1>6. ASSUME CheckOther  PROVE MInv'
  <2>1. TypeOK'
    BY <1>0, <1>6 DEF CheckOther, Goto, disk, hist, TypeOK, Content, None, Bad
  <2>2. Numbers'
    BY <1>0, <1>6 DEF CheckOther, Goto, disk, hist, Numbers, None, Bad
  <2>3. CurrentHeld'
    BY <1>0, <1>6 DEF CheckOther, Goto, disk, hist, TypeOK, CurrentHeld, Held, InProgress, None, Bad
  <2>4. PendingOld'
    BY <1>0, <1>6 DEF CheckOther, Goto, disk, hist, TypeOK, PendingOld, Held, InProgress, None, Bad
  <2>5. InProgress'
    BY <1>0, <1>6 DEF CheckOther, Goto, disk, hist, TypeOK, InProgress, Held, CurrentHeld, None, Bad
  <2> QED  BY <2>1, <2>2, <2>3, <2>4, <2>5
<1>7. ASSUME BakOpen  PROVE MInv'
  <2>1. TypeOK'
    BY <1>0, <1>7 DEF BakOpen, Goto, hist, TypeOK, Content, None, Bad
  <2>2. Numbers'
    BY <1>0, <1>7 DEF BakOpen, Goto, hist, Numbers, None, Bad
  <2>3. CurrentHeld'
    BY <1>0, <1>7 DEF BakOpen, Goto, hist, TypeOK, CurrentHeld, Held, InProgress, None, Bad
  <2>4. PendingOld'
    BY <1>0, <1>7 DEF BakOpen, Goto, hist, TypeOK, PendingOld, Held, InProgress, None, Bad
  <2>5. InProgress'
    BY <1>0, <1>7 DEF BakOpen, Goto, hist, TypeOK, InProgress, Held, CurrentHeld, None, Bad
  <2> QED  BY <2>1, <2>2, <2>3, <2>4, <2>5
<1>8. ASSUME BakWrite  PROVE MInv'
  <2>1. TypeOK'
    BY <1>0, <1>8 DEF BakWrite, Goto, hist, TypeOK, Content, None, Bad
  <2>2. Numbers'
    BY <1>0, <1>8 DEF BakWrite, Goto, hist, Numbers, None, Bad
  <2>3. CurrentHeld'
    BY <1>0, <1>8 DEF BakWrite, Goto, hist, TypeOK, CurrentHeld, Held, InProgress, None, Bad
  <2>4. PendingOld'
    BY <1>0, <1>8 DEF BakWrite, Goto, hist, TypeOK, PendingOld, Held, InProgress, None, Bad
  <2>5. InProgress'
    BY <1>0, <1>8 DEF BakWrite, Goto, hist, TypeOK, InProgress, Held, CurrentHeld, None, Bad
  <2> QED  BY <2>1, <2>2, <2>3, <2>4, <2>5
<1>9. ASSUME PendOpen  PROVE MInv'
  <2>1. TypeOK'
    <3>1. target \in Nums
      BY <1>9 DEF PendOpen, InProgress, TypeOK
    <3> QED  BY <1>9, <3>1 DEF PendOpen, Goto, hist, TypeOK, Content
  <2>2. Numbers'
    BY <1>0, <1>9 DEF PendOpen, Goto, hist, Numbers, None, Bad
  <2>3. CurrentHeld'
    BY <1>0, <1>9 DEF PendOpen, Goto, hist, TypeOK, CurrentHeld, Held, InProgress, None, Bad
  <2>4. PendingOld'
    BY <1>0, <1>9 DEF PendOpen, Goto, hist, TypeOK, PendingOld, Held, InProgress, None, Bad
  <2>5. InProgress'
    BY <1>0, <1>9 DEF PendOpen, Goto, hist, TypeOK, InProgress, Held, CurrentHeld, None, Bad
  <2> QED  BY <2>1, <2>2, <2>3, <2>4, <2>5
<1>10. ASSUME PendWrite  PROVE MInv'
  <2>1. TypeOK'
    <3>1. target \in Nums
      BY <1>10 DEF PendWrite, InProgress, TypeOK
    <3> QED  BY <1>10, <3>1 DEF PendWrite, Goto, hist, TypeOK, Content
  <2>2. Numbers'
    BY <1>0, <1>10 DEF PendWrite, Goto, hist, Numbers, None, Bad
  <2>3. CurrentHeld'
    BY <1>0, <1>10 DEF PendWrite, Goto, hist, TypeOK, CurrentHeld, Held, InProgress, None, Bad
  <2>4. PendingOld'
    BY <1>0, <1>10 DEF PendWrite, Goto, hist, TypeOK, PendingOld, Held, InProgress, None, Bad
  <2>5. InProgress'
    BY <1>0, <1>10 DEF PendWrite, Goto, hist, TypeOK, InProgress, Held, CurrentHeld, None, Bad
  <2> QED  BY <2>1, <2>2, <2>3, <2>4, <2>5
<1>11. ASSUME Rename  PROVE MInv'
  <2>0. undo = << >> /\ undo' = <<cur>> /\ cur' = target /\ target \in Nums /\ target \in Held
    <3>1. step = "rename" /\ kind \in {"set", "get"} /\ cur' = pend[target] /\ undo' = Append(undo, cur)
      BY <1>11 DEF Rename, InProgress, TypeOK
    <3>2. undo = << >>
      BY <3>1 DEF CurrentHeld
    <3>3. Append(<< >>, cur) = <<cur>>
      OBVIOUS
    <3> QED  BY <3>1, <3>2, <3>3 DEF InProgress
  <2>1. TypeOK'
    BY <1>11, <2>0 DEF Rename, Goto, hist, TypeOK, Content
  <2>2. Numbers'
    BY <1>0, <1>11 DEF Rename, Goto, hist, Numbers, None, Bad
  <2>3. CurrentHeld'
    <3>1. undo' = <<undo'[1]>> /\ undo'[1] = cur /\ step' = "sync" /\ UNCHANGED <<bak, meta, doubt>>
      BY <1>11, <2>0 DEF Rename, Goto, hist
    <3>2. cur' # None
      BY <1>0, <2>0 DEF None
    <3> QED  BY <2>0, <3>1, <3>2 DEF CurrentHeld, Held
  <2>4. PendingOld'
    BY <1>0, <1>11 DEF Rename, Goto, hist, TypeOK, PendingOld, Held, InProgress, None, Bad
  <2>5. InProgress'
    BY <1>0, <1>11 DEF Rename, Goto, hist, TypeOK, InProgress, Held, CurrentHeld, None, Bad
  <2> QED  BY <2>1, <2>2, <2>3, <2>4, <2>5
<1>12. ASSUME SyncDir  PROVE MInv'
  <2>1. TypeOK'
    <3>1. undo' = << >> /\ << >> \in Seq(Nums \cup {None}) /\ UNCHANGED <<cur, bak, pend, files>>
      BY <1>12 DEF SyncDir
    <3>2. target \in Nums
      BY <1>12 DEF SyncDir, SetDone, InProgress
    <3> QED  BY <1>12, <3>1, <3>2 DEF SyncDir, SetDone, Goto, Idle, hist, TypeOK
  <2>2. Numbers'
    <3>1. target \in Held /\ target \in Nums /\ UNCHANGED files
      BY <1>12 DEF SyncDir, InProgress, SetDone
    <3>2. CASE meta' = target /\ doubt' = {}
      BY <3>1, <3>2, SettleNumbers
    <3>3. CASE UNCHANGED hist
      BY <3>1, <3>3 DEF Numbers, hist
    <3> QED  BY <1>12, <3>2, <3>3 DEF SyncDir, SetDone
  <2>3. CurrentHeld'
    BY <1>0, <1>12
       DEF SyncDir, Goto, Idle, SetDone, hist, TypeOK, CurrentHeld, Held, InProgress, None, Bad
  <2>4. PendingOld'
    <3>1. CASE kind = "set" /\ meta' = target /\ doubt' = {}
      <4>1. \A n \in Nums : n \in doubt \/ n <= meta => n <= target
        BY <1>0, <3>1 DEF TypeOK, Numbers, InProgress, None
      <4>2. UNCHANGED pend
        BY <1>12 DEF SyncDir
      <4> QED  BY <3>1, <4>1, <4>2 DEF PendingOld
    <3>2. CASE UNCHANGED hist
      BY <1>12, <3>2 DEF SyncDir, PendingOld, hist
    <3> QED  BY <1>12, <3>1, <3>2 DEF SyncDir, SetDone
  <2>5. InProgress'
    BY <1>0, <1>12
       DEF SyncDir, Goto, Idle, SetDone, hist, TypeOK, InProgress, Held, CurrentHeld, None, Bad
  <2> QED  BY <2>1, <2>2, <2>3, <2>4, <2>5
<1>13. ASSUME IOError  PROVE MInv'
  <2>1. TypeOK'
    BY <1>0, <1>13 DEF IOError, Idle, disk, hist, TypeOK, Content, None, Bad
  <2>2. Numbers'
    BY <1>0, <1>13 DEF IOError, Idle, disk, hist, Numbers, None, Bad
  <2>3. CurrentHeld'
    BY <1>0, <1>13 DEF IOError, Idle, disk, hist, TypeOK, CurrentHeld, Held, InProgress, None, Bad
  <2>4. PendingOld'
    BY <1>0, <1>13 DEF IOError, Idle, disk, hist, TypeOK, PendingOld, Held, InProgress, None, Bad
  <2>5. InProgress'
    BY <1>0, <1>13 DEF IOError, Idle, disk, hist, TypeOK, InProgress, Held, CurrentHeld, None, Bad
  <2> QED  BY <2>1, <2>2, <2>3, <2>4, <2>5
<1>14. ASSUME NEW n \in Nums, CleanOne(n)  PROVE MInv'
  <2>1. TypeOK'
    BY <1>0, <1>14 DEF CleanOne, hist, TypeOK, Content, None, Bad
  <2>2. Numbers'
    BY <1>0, <1>14 DEF CleanOne, hist, Numbers, None, Bad
  <2>3. CurrentHeld'
    BY <1>0, <1>14 DEF CleanOne, hist, TypeOK, CurrentHeld, Held, InProgress, None, Bad
  <2>4. PendingOld'
    BY <1>0, <1>14 DEF CleanOne, hist, TypeOK, PendingOld, Held, InProgress, None, Bad
  <2>5. InProgress'
    BY <1>0, <1>14 DEF CleanOne, hist, TypeOK, InProgress, Held, CurrentHeld, None, Bad
  <2> QED  BY <2>1, <2>2, <2>3, <2>4, <2>5
<1>15. ASSUME GetDone  PROVE MInv'
  <2>1. TypeOK'
    BY <1>0, <1>15 DEF GetDone, Idle, disk, TypeOK, Content, InProgress, None, Bad
  <2>2. Numbers'
    <3>1. target \in Held /\ target \in Nums /\ meta' = target /\ doubt' = {} /\ UNCHANGED files
      BY <1>15 DEF GetDone, InProgress, TypeOK, disk
    <3> QED  BY <3>1, SettleNumbers
  <2>3. CurrentHeld'
    BY <1>0, <1>15 DEF GetDone, Idle, disk, TypeOK, CurrentHeld, Held, InProgress, None, Bad
  <2>4. PendingOld'
    BY <1>0, <1>15 DEF GetDone, Idle, disk, TypeOK, PendingOld, Held, InProgress, None, Bad
  <2>5. InProgress'
    BY <1>0, <1>15 DEF GetDone, Idle, disk, TypeOK, InProgress, Held, CurrentHeld, None, Bad
  <2> QED  BY <2>1, <2>2, <2>3, <2>4, <2>5
<1>16. ASSUME Crash  PROVE MInv'
  <2>1. TypeOK'
    BY <1>0, <1>16 DEF Crash, disk, hist, TypeOK, Content, None, Bad
  <2>2. Numbers'
    BY <1>0, <1>16 DEF Crash, disk, hist, Numbers, None, Bad
  <2>3. CurrentHeld'
    BY <1>0, <1>16 DEF Crash, disk, hist, TypeOK, CurrentHeld, Held, InProgress, None, Bad
  <2>4. PendingOld'
    BY <1>0, <1>16 DEF Crash, disk, hist, TypeOK, PendingOld, Held, InProgress, None, Bad
  <2>5. InProgress'
    BY <1>0, <1>16 DEF Crash, disk, hist, TypeOK, InProgress, Held, CurrentHeld, None, Bad
  <2> QED  BY <2>1, <2>2, <2>3, <2>4, <2>5
<1>17. ASSUME LoseRename  PROVE MInv'
  <2>0. /\ undo # << >> /\ undo' = << >> /\ cur' = undo[1] /\ undo[1] \in Nums \cup {None}
        /\ cur \in Nums /\ cur \in Held /\ undo[1] \in Held /\ kind = "down" /\ step = "none"
    BY <1>17, UndoSequence DEF LoseRename, CurrentHeld, InProgress
  <2>p. pend' = [pend EXCEPT ![cur] = cur] /\ UNCHANGED <<bak, files, op, hist>>
    BY <1>17 DEF LoseRename
  <2>1. TypeOK'
    BY <2>0, <2>p DEF TypeOK, Content, op, hist
  <2>2. Numbers'
    BY <2>p DEF Numbers, hist
  <2>3. CurrentHeld'
    BY <2>0, <2>p DEF CurrentHeld, Held, hist
  <2>4. PendingOld'
    <3>1. cur \in doubt \/ cur <= meta
      BY <1>0, <2>0 DEF Held
    <3> QED  BY <2>0, <2>p, <3>1 DEF TypeOK, PendingOld, hist
  <2>5. InProgress'
    BY <2>0, <2>p DEF InProgress, op
  <2> QED  BY <2>1, <2>2, <2>3, <2>4, <2>5
<1>18. ASSUME Reopen  PROVE MInv'
  <2>1. TypeOK'
    BY <1>0, <1>18 DEF Reopen, Idle, hist, TypeOK, Content, None, Bad
  <2>2. Numbers'
    BY <1>0, <1>18 DEF Reopen, Idle, hist, Numbers, None, Bad
  <2>3. CurrentHeld'
    BY <1>0, <1>18 DEF Reopen, Idle, hist, TypeOK, CurrentHeld, Held, InProgress, None, Bad
  <2>4. PendingOld'
    BY <1>0, <1>18 DEF Reopen, Idle, hist, TypeOK, PendingOld, Held, InProgress, None, Bad
  <2>5. InProgress'
    BY <1>0, <1>18 DEF Reopen, Idle, hist, TypeOK, InProgress, Held, CurrentHeld, None, Bad
  <2> QED  BY <2>1, <2>2, <2>3, <2>4, <2>5
<1> QED  BY <1>1, <1>2, <1>3, <1>4, <1>5, <1>6, <1>7, <1>8, <1>9,
            <1>10, <1>11, <1>12, <1>13, <1>14, <1>15, <1>16, <1>17, <1>18
         DEF Next

LEMMA Invariance ==
    ASSUME Increasing = TRUE, RemoveDoubted = FALSE, Faults \subseteq {"set"}
    PROVE  Spec => []MInv
<1>1. Init => MInv
  <2>1. ASSUME Init  PROVE TypeOK
    BY <2>1 DEF Init, TypeOK, Content
  <2>2. ASSUME Init  PROVE Numbers
    <3>1. \E b \in Nat : \A d \in {} : d <= b
      OBVIOUS
    <3> QED  BY <2>2, <3>1 DEF Init, Numbers
  <2>3. ASSUME Init  PROVE CurrentHeld /\ PendingOld /\ InProgress
    BY <2>3 DEF Init, CurrentHeld, Held, PendingOld, InProgress
  <2> QED  BY <2>1, <2>2, <2>3 DEF MInv
<1>2. ASSUME MInv, [Next]_vars  PROVE MInv'
  <2>1. CASE UNCHANGED vars
    <3>1. UNCHANGED <<cur, bak, pend, files, undo, kind, target, step, todo, meta, doubt>>
      BY <2>1 DEF vars, disk, op, hist
    <3> QED  BY <1>2, <3>1 DEF MInv, TypeOK, Content, Numbers, CurrentHeld, Held, PendingOld, InProgress
  <2> QED  BY <1>2, <2>1, InvStep
<1> QED  BY <1>1, <1>2, PTL DEF Spec

(***************************************************************************)
(* The variables keep their types, through crashes, lost renames and       *)
(* failed file operations.                                                 *)
(***************************************************************************)
THEOREM TypeCorrect ==
    ASSUME Increasing = TRUE, RemoveDoubted = FALSE, Faults \subseteq {"set"}
    PROVE  Spec => []TypeOK
<1>1. MInv => TypeOK
  BY DEF MInv
<1> QED  BY <1>1, Invariance, PTL

(***************************************************************************)
(* SetMeta is atomic and durable for any set of descriptors: at every      *)
(* point, and after a crash at every point, GetMeta would find the settled *)
(* descriptor or one of a SetMeta that was interrupted since.  The client  *)
(* stores increasing numbers and keeps the manifests of calls that failed; *)
(* file operations of SetMeta may fail, its directory sync and GetMeta's   *)
(* restore do not.                                                         *)
(***************************************************************************)
THEOREM RegisterHolds ==
    ASSUME Increasing = TRUE, RemoveDoubted = FALSE, Faults \subseteq {"set"}
    PROVE  Spec => []Register
<1>1. MInv => Register
  <2>1. ASSUME MInv  PROVE Pick = cur \/ Pick \in doubt
    BY <2>1, PickIs DEF MInv
  <2> QED  BY <2>1 DEF MInv, CurrentHeld, Held, Register
<1> QED  BY <1>1, Invariance, PTL

-----------------------------------------------------------------------------
(* The cell. *)

LEMMA PickSame ==
    ASSUME UNCHANGED <<cur, bak, pend, files>>
    PROVE  Pick' = Pick
<1>1. PendNums' = PendNums
  BY DEF PendNums
<1>2. PendCur' = PendCur
  BY <1>1 DEF PendCur, Ok
<1>3. CurCur' = CurCur
  BY DEF CurCur, Ok
<1> QED  BY <1>2, <1>3 DEF Pick

(***************************************************************************)
(* A SetMeta that succeeds leaves its descriptor for GetMeta.              *)
(***************************************************************************)
LEMMA SetLeaves ==
    ASSUME MInv, kind = "set", cur = target
    PROVE  Pick = target /\ target \in doubt /\ target \in Nums
<1>1. /\ target \in doubt /\ target \in Nums /\ \A d \in doubt : d <= target
      /\ Nums \subseteq Nat /\ doubt \subseteq Nums
  BY MetaAssumption DEF MInv, InProgress, TypeOK
<1>2. Pick = cur \/ (Pick \in doubt /\ Pick > cur)
  BY PickIs DEF MInv
<1>3. ASSUME Pick \in doubt, Pick > cur  PROVE FALSE
  <2>1. Pick \in Nat /\ Pick <= target /\ target \in Nat /\ Pick > target
    BY <1>1, <1>3
  <2> QED  BY <2>1
<1> QED  BY <1>1, <1>2, <1>3

(***************************************************************************)
(* GetMeta returns what is in CURRENT when it has removed the pending      *)
(* files.                                                                  *)
(***************************************************************************)
LEMMA GetLeaves ==
    ASSUME MInv, GetDone
    PROVE  Pick = target /\ target # None
<1>1. kind = "get" /\ todo = {} /\ step = "clean" /\ cur = target /\ target \in Nums
  BY DEF MInv, TypeOK, InProgress, GetDone
<1>2. \A n \in Nums : pend[n] = None
  BY <1>1 DEF MInv, InProgress
<1>3. Pick = cur \/ (Pick \in doubt /\ pend[Pick] # None)
  BY PickIs DEF MInv
<1>4. doubt \subseteq Nums /\ Nums \subseteq Nat
  BY MetaAssumption DEF MInv, TypeOK
<1>5. Pick = target
  BY <1>1, <1>2, <1>3, <1>4
<1>6. target # None
  BY <1>1, <1>4 DEF None
<1> QED  BY <1>5, <1>6

LEMMA CellStep ==
    ASSUME Faults \subseteq {"set"}, MInv, Register', Next
    PROVE  [Cell!Next]_<<Pick, meta, doubt>>
<1>f. ASSUME UNCHANGED hist  PROVE Cell!Next
  BY <1>f DEF hist, Register, Cell!Next, Cell!Flip
<1>s. ASSUME kind = "set", cur = target, meta' = target, doubt' = {},
             UNCHANGED <<cur, bak, pend, files>>
      PROVE  Cell!Next
  <2>1. Pick' = target /\ target \in doubt /\ target \in Nums
    BY <1>s, SetLeaves, PickSame
  <2> QED  BY <1>s, <2>1 DEF Cell!Next, Cell!SetOK
<1>1. ASSUME NEW n \in Nums, SetMeta(n)  PROVE Cell!Next
  <2>1. Pick' = Pick
    BY <1>1, PickSame DEF SetMeta, disk
  <2> QED  BY <1>1, <2>1 DEF SetMeta, Cell!Next, Cell!SetBegin
<1>2. CASE GetMeta
  <2>1. Pick' = Pick /\ Pick # None
    BY <1>2, PickSame DEF GetMeta, disk
  <2>2. CASE meta' = Pick /\ doubt' = {}
    BY <2>1, <2>2 DEF Cell!Next, Cell!GetOK
  <2> QED  BY <1>2, <1>f, <2>2 DEF GetMeta
<1>3. CASE CheckSame
  BY <1>3, <1>f, <1>s DEF CheckSame, SetDone, disk
<1>4. CASE SyncDir
  <2>1. cur = target
    BY <1>4 DEF SyncDir, MInv, InProgress
  <2> QED  BY <1>4, <2>1, <1>f, <1>s DEF SyncDir, SetDone
<1>5. CASE GetDone
  <2>1. Pick' = Pick /\ Pick = target /\ target # None /\ meta' = target /\ doubt' = {}
    BY <1>5, GetLeaves, PickSame DEF GetDone, disk
  <2> QED  BY <2>1 DEF Cell!Next, Cell!GetOK
<1>6. CASE IOError
  <2>1. UNCHANGED hist
    BY <1>6 DEF IOError
  <2> QED  BY <2>1, <1>f
<1>7. CASE \/ \E n \in Nums : Create(n) \/ Remove(n) \/ CleanOne(n)
           \/ CheckOther \/ BakOpen \/ BakWrite \/ PendOpen \/ PendWrite \/ Rename
           \/ Crash \/ LoseRename \/ Reopen
  <2>1. UNCHANGED hist
    BY <1>7 DEF Create, Remove, CleanOne, CheckOther, BakOpen, BakWrite, PendOpen, PendWrite,
                Rename, Crash, LoseRename, Reopen
  <2> QED  BY <2>1, <1>f
<1> QED  BY <1>1, <1>2, <1>3, <1>4, <1>5, <1>6, <1>7 DEF Next

(***************************************************************************)
(* The files implement the abstract cell, under the same discipline of the *)
(* client and the same faults: a SetMeta that returns nil leaves its       *)
(* descriptor for GetMeta, and GetMeta settles what it returns.            *)
(***************************************************************************)
THEOREM CellImplemented ==
    ASSUME Increasing = TRUE, RemoveDoubted = FALSE, Faults \subseteq {"set"}
    PROVE  Spec => ImplementsCell
<1>1. Init => Cell!Init
  <2>1. ASSUME Init  PROVE Pick = None
    <3>1. PendNums = {} /\ CurCur = None
      BY <2>1 DEF Init, PendNums, CurCur, Ok
    <3>2. PendCur = None
      BY <3>1 DEF PendCur
    <3> QED  BY <3>1, <3>2 DEF Pick
  <2> QED  BY <2>1 DEF Init, Cell!Init
<1>2. ASSUME MInv, Register', [Next]_vars  PROVE [Cell!Next]_<<Pick, meta, doubt>>
  <2>1. CASE UNCHANGED vars
    <3>1. UNCHANGED <<Pick, meta, doubt>>
      BY <2>1, PickSame DEF vars, disk, hist
    <3> QED  BY <3>1
  <2> QED  BY <1>2, <2>1, CellStep
<1> QED  BY <1>1, <1>2, Invariance, RegisterHolds, PTL DEF Spec, ImplementsCell, Cell!Spec

=============================================================================
