----------------------------- MODULE PeerProofs -----------------------------
(***************************************************************************)
(* Proofs about module Peer, for any number of protocols, topics, helpers  *)
(* and callers: typing, the single right to write, the one write that may  *)
(* begin after the peer was closed, the life the server relies on, and     *)
(* that no goroutine waits for room to report its error.                   *)
(*                                                                         *)
(* The invariant adds two facts to the properties.  NotStarted: before run *)
(* starts nobody holds the right to write, so that the first token is the  *)
(* only one.  NoneLate: while the peer is not closed no late write has     *)
(* begun, so that a token that run hands out leaves OneLateWrite true.     *)
(* The room for errors is a second invariant on top of that one, with      *)
(* NoneReported for the moment at which run starts everybody at once.      *)
(***************************************************************************)
EXTENDS Peer, FiniteSetTheorems, TLAPS

NotStarted ==
    run = "new" => /\ writeStart = 0 /\ writeErr = "empty"
                   /\ pc = [w \in Threads |-> "off"]

NoneLate == ~Closed => late = 0

WriteInv == WriteToken /\ OneLateWrite /\ NotStarted /\ NoneLate

PInv == TypeOK /\ WriteInv

-----------------------------------------------------------------------------
(***************************************************************************)
(* The channels of errors have a finite capacity.                          *)
(***************************************************************************)
LEMMA Capacities == Cardinality(Topics) \in Nat /\ Cardinality(Protos) \in Nat
  BY PeerAssumption, FS_CardinalityType

(***************************************************************************)
(* A step that leaves the token where it is and neither starts run nor     *)
(* takes it back keeps WriteInv.                                           *)
(***************************************************************************)
LEMMA TokenUntouched ==
    ASSUME PInv, run # "new", run' # "new",
           run' = "loop" => run = "loop",
           Closed => Closed',
           Publishers' = Publishers,
           UNCHANGED <<writeStart, writeErr, late>>
    PROVE  WriteInv'
  BY DEF PInv, WriteInv, WriteToken, OneLateWrite, NotStarted, NoneLate

(***************************************************************************)
(* A thread that goes neither to nor from publishing leaves the set of     *)
(* publishing threads alone.                                               *)
(***************************************************************************)
LEMMA PublishersSame ==
    ASSUME TypeOK, NEW w \in Threads, NEW to, to # "pub", pc[w] # "pub",
           pc' = [pc EXCEPT ![w] = to]
    PROVE  Publishers' = Publishers
  BY DEF TypeOK, Publishers

(***************************************************************************)
(* The initial state satisfies the invariant.                              *)
(***************************************************************************)
LEMMA InitInv == Init => PInv
<1> SUFFICES ASSUME Init PROVE PInv
  OBVIOUS
<1>1. TypeOK
  <2>1. crashed \in BOOLEAN
    BY Zenon DEF Init
  <2>2. readErr \in 0..Cardinality(Topics) /\ protoErr \in 0..Cardinality(Protos)
        /\ writeStart \in 0..1 /\ late \in Nat
    BY Capacities DEF Init
  <2>3. rl \in [Topics -> {"off", "sub", "reg", "next", "handle", "del", "done"}]
    BY DEF Init
  <2>4. sub \in [Topics -> {"none", "open", "closed"}]
    BY DEF Init
  <2>5. pc \in [Threads -> {"off", "idle", "write", "pub", "return", "done"}]
    BY DEF Init
  <2>6. dcall \in [Callers -> {"idle", "select", "back"}]
    BY DEF Init
  <2> QED
    BY <2>1, <2>2, <2>3, <2>4, <2>5, <2>6 DEF Init, TypeOK
<1>2. Publishers = {}
  BY DEF Init, Publishers
<1>3. WriteInv
  BY <1>2 DEF Init, WriteInv, WriteToken, OneLateWrite, NotStarted, NoneLate, Closed
<1> QED
  BY <1>1, <1>3 DEF PInv

-----------------------------------------------------------------------------
(***************************************************************************)
(* Every step keeps the types.                                             *)
(***************************************************************************)
LEMMA NextType == PInv /\ [Next]_vars => TypeOK'
<1> SUFFICES ASSUME PInv, [Next]_vars PROVE TypeOK'
  OBVIOUS
<1>0. TypeOK /\ Cardinality(Topics) \in Nat /\ Cardinality(Protos) \in Nat
  BY Capacities DEF PInv
<1>1. CASE RunStart \/ CloseDone \/ WgWait
  BY <1>0, <1>1 DEF TypeOK, RunStart, CloseDone, WgWait
<1>2. CASE RecvWriteErr
  <2>1. writeStart' \in 0..1
    BY <1>0, <1>2 DEF RecvWriteErr, PInv, WriteInv, WriteToken, TypeOK
  <2> QED
    BY <1>0, <1>2, <2>1 DEF RecvWriteErr, Break, TypeOK
<1>3. CASE RecvReadErr \/ RecvProtoErr
  BY <1>0, <1>3 DEF RecvReadErr, RecvProtoErr, Break, TypeOK
<1>4. ASSUME NEW c \in Callers, RecvDisc(c) \/ Disconnect(c) \/ DisconnectClosed(c)
      PROVE  TypeOK'
  BY <1>0, <1>4 DEF RecvDisc, Disconnect, DisconnectClosed, Break, TypeOK
<1>5. ASSUME NEW t \in Topics, CloseSub(t) PROVE TypeOK'
  BY <1>0, <1>5 DEF CloseSub, TypeOK
<1>6. ASSUME NEW t \in Topics, SubOK(t) \/ SubFail(t) \/ Register(t) \/ NextMsg(t) \/ NextErr(t)
      PROVE  TypeOK'
  BY <1>0, <1>6 DEF SubOK, SubFail, Register, NextMsg, NextErr, ReadStep, ReportRead,
     readLoopCount, TypeOK
<1>7. ASSUME NEW t \in Topics, NEW then \in {"idle", "write", "return"}, Deliver(t, then)
      PROVE  TypeOK'
  BY <1>0, <1>7 DEF Deliver, ReadStep, TypeOK
<1>8. ASSUME NEW t \in Topics, HandleClosed(t) \/ Delete(t) PROVE TypeOK'
  BY <1>0, <1>8 DEF HandleClosed, Delete, ReadStep, ReportRead, readLoopCount, TypeOK
<1>9. CASE MapFatal
  BY <1>0, <1>9 DEF MapFatal, TypeOK
<1>10. ASSUME NEW p \in Protos, ReadFail(p) \/ ProtoReturn(p) PROVE TypeOK'
  BY <1>0, <1>10 DEF ReadFail, ProtoReturn, ThreadStep, TypeOK
<1>11. ASSUME NEW h \in Helpers, HelperTick(h) PROVE TypeOK'
  BY <1>0, <1>11 DEF HelperTick, ThreadStep, TypeOK
<1>12. ASSUME NEW w \in Threads, WriteBegin(w) \/ WriteClosed(w) PROVE TypeOK'
  BY <1>0, <1>12 DEF WriteBegin, WriteClosed, ThreadStep, Fail, TypeOK
<1>13. ASSUME NEW w \in Threads, NEW res \in {"nil", "err"}, WriteEnd(w, res)
       PROVE  TypeOK'
  BY <1>0, <1>13 DEF WriteEnd, ThreadStep, TypeOK
<1>14. CASE UNCHANGED vars
  BY <1>0, <1>14 DEF vars, TypeOK
<1> QED
  BY <1>1, <1>2, <1>3, <1>4, <1>5, <1>6, <1>7, <1>8, <1>9, <1>10, <1>11, <1>12,
     <1>13, <1>14 DEF Next

-----------------------------------------------------------------------------
(***************************************************************************)
(* Nothing but RunStart happens before run has started, as far as threads  *)
(* and the token are concerned.                                            *)
(***************************************************************************)
LEMMA Started ==
    ASSUME PInv, NEW w \in Threads, pc[w] # "off"
    PROVE  run # "new"
  BY DEF PInv, WriteInv, NotStarted

(***************************************************************************)
(* Every step keeps the token invariant.                                   *)
(***************************************************************************)
LEMMA NextWrite == PInv /\ [Next]_vars => WriteInv'
<1> SUFFICES ASSUME PInv, [Next]_vars PROVE WriteInv'
  OBVIOUS
<1> USE DEF Closed
<1>0. TypeOK /\ WriteInv
  BY DEF PInv
<1>1. CASE RunStart
  <2>1. Publishers' = {}
    BY <1>1 DEF RunStart, Publishers
  <2>2. late = 0 /\ writeErr = "empty" /\ writeStart' = 1 /\ run' = "loop"
        /\ writeErr' = "empty" /\ late' = 0
    BY <1>0, <1>1 DEF RunStart, WriteInv, NoneLate, NotStarted
  <2> QED
    BY <2>1, <2>2 DEF WriteInv, WriteToken, OneLateWrite, NotStarted, NoneLate
<1>2. CASE RecvWriteErr
  <2>1. Publishers' = Publishers /\ Publishers = {} /\ writeStart = 0 /\ late = 0
    BY <1>0, <1>2 DEF RecvWriteErr, WriteInv, WriteToken, NoneLate, Publishers, TypeOK
  <2>2. CASE writeErr = "nil"
    BY <1>2, <2>1, <2>2
       DEF RecvWriteErr, WriteInv, WriteToken, OneLateWrite, NotStarted, NoneLate
  <2>3. CASE writeErr # "nil"
    BY <1>2, <2>1, <2>3
       DEF RecvWriteErr, Break, WriteInv, WriteToken, OneLateWrite, NotStarted, NoneLate
  <2> QED
    BY <2>2, <2>3
<1>3. ASSUME UNCHANGED <<pc, writeStart, writeErr, late>>,
             run # "new", run' # "new", run' = "loop" => run = "loop",
             Closed => Closed'
      PROVE  WriteInv'
  <2>1. Publishers' = Publishers
    BY <1>3 DEF Publishers
  <2> QED
    BY <1>3, <2>1, TokenUntouched
<1>4. ASSUME UNCHANGED <<pc, writeStart, writeErr, late, run>> PROVE WriteInv'
  <2>1. Publishers' = Publishers
    BY <1>4 DEF Publishers
  <2> QED
    BY <1>0, <1>4, <2>1 DEF WriteInv, WriteToken, OneLateWrite, NotStarted, NoneLate
<1>5. ASSUME NEW w \in Threads, NEW to, to # "pub", pc[w] \notin {"off", "pub"},
             pc' = [pc EXCEPT ![w] = to],
             UNCHANGED <<run, writeStart, writeErr, late>>
      PROVE  WriteInv'
  <2>1. Publishers' = Publishers
    BY <1>0, <1>5, PublishersSame
  <2>2. run # "new"
    BY <1>5, Started
  <2> QED
    BY <1>5, <2>1, <2>2, TokenUntouched
<1>6. CASE CloseDone \/ WgWait \/ RecvReadErr \/ RecvProtoErr
  BY <1>3, <1>6 DEF CloseDone, WgWait, RecvReadErr, RecvProtoErr, Break
<1>7. ASSUME NEW c \in Callers, RecvDisc(c) \/ Disconnect(c) \/ DisconnectClosed(c)
      PROVE  WriteInv'
  BY <1>3, <1>4, <1>7 DEF RecvDisc, Disconnect, DisconnectClosed, Break
<1>8. ASSUME NEW t \in Topics,
             \/ CloseSub(t) \/ SubOK(t) \/ SubFail(t) \/ Register(t) \/ NextMsg(t)
             \/ NextErr(t) \/ HandleClosed(t) \/ Delete(t)
      PROVE  WriteInv'
  BY <1>4, <1>8 DEF CloseSub, SubOK, SubFail, Register, NextMsg, NextErr,
     HandleClosed, Delete, ReadStep
<1>9. ASSUME NEW t \in Topics, NEW then \in {"idle", "write", "return"}, Deliver(t, then)
      PROVE  WriteInv'
  <2>1. ProtoOf[t] \in Threads
    BY PeerAssumption DEF Threads
  <2> QED
    BY <1>5, <1>9, <2>1 DEF Deliver, ReadStep
<1>10. CASE MapFatal
  BY <1>4, <1>10 DEF MapFatal
<1>11. ASSUME NEW w \in Threads,
              ReadFail(w) \/ ProtoReturn(w) \/ HelperTick(w) \/ WriteClosed(w)
       PROVE  WriteInv'
  BY <1>5, <1>11 DEF ReadFail, ProtoReturn, HelperTick, WriteClosed, ThreadStep, Fail
<1>12. ASSUME NEW w \in Threads, WriteBegin(w) PROVE WriteInv'
  <2>1. writeStart = 1 /\ Publishers = {} /\ writeErr = "empty" /\ run # "new"
    BY <1>0, <1>12, Started
       DEF WriteBegin, ThreadStep, WriteInv, WriteToken, TypeOK
  <2>2. Publishers' = {w}
    BY <1>0, <1>12, <2>1 DEF WriteBegin, ThreadStep, Publishers, TypeOK
  <2>3. late = 0 /\ writeStart' = 0 /\ writeErr' = "empty" /\ run' = run
        /\ late' \in {0, 1} /\ (~Closed => late' = 0)
    BY <1>0, <1>12, <2>1
       DEF WriteBegin, ThreadStep, WriteInv, OneLateWrite, TypeOK
  <2>4. WriteToken'
    BY <2>2, <2>3 DEF WriteToken
  <2>5. OneLateWrite'
    <3>1. CASE late' = 0
      BY <2>3, <3>1 DEF OneLateWrite
    <3>2. CASE late' = 1
      BY <2>3, <3>2 DEF OneLateWrite
    <3> QED
      BY <2>3, <3>1, <3>2
  <2>6. NotStarted' /\ NoneLate'
    BY <2>1, <2>3, Zenon DEF NotStarted, NoneLate
  <2> QED
    BY <2>4, <2>5, <2>6 DEF WriteInv
<1>13. ASSUME NEW w \in Threads, NEW res \in {"nil", "err"}, WriteEnd(w, res)
       PROVE  WriteInv'
  <2>1. w \in Publishers /\ run # "new"
    BY <1>13, Started DEF WriteEnd, ThreadStep, Publishers
  <2>2. writeStart = 0 /\ Publishers = {w}
    BY <1>0, <2>1 DEF WriteInv, WriteToken, TypeOK
  <2>3. Publishers' = {}
    BY <1>0, <1>13, <2>2 DEF WriteEnd, ThreadStep, Publishers, TypeOK
  <2>4. writeErr' = res /\ UNCHANGED <<run, writeStart, late>>
    BY <1>13 DEF WriteEnd, ThreadStep
  <2> QED
    BY <1>0, <2>1, <2>2, <2>3, <2>4
       DEF WriteInv, WriteToken, OneLateWrite, NotStarted, NoneLate
<1>14. CASE UNCHANGED vars
  BY <1>4, <1>14 DEF vars
<1> QED
  BY <1>1, <1>2, <1>6, <1>7, <1>8, <1>9, <1>10, <1>11, <1>12, <1>13, <1>14
     DEF Next, Threads

(***************************************************************************)
(* The invariant holds in every reachable state.                           *)
(***************************************************************************)
LEMMA Invariant == Safety => []PInv
<1>1. PInv /\ [Next]_vars => PInv'
  BY NextType, NextWrite DEF PInv
<1> QED
  BY InitInv, <1>1, PTL DEF Safety

-----------------------------------------------------------------------------
(***************************************************************************)
(* The state of a peer is well typed: in particular the channels writeErr, *)
(* readErr, protoErr and writeStart never exceed their capacity.           *)
(***************************************************************************)
THEOREM TypeCorrect == Safety => []TypeOK
<1>1. PInv => TypeOK
  BY DEF PInv
<1> QED
  BY Invariant, <1>1, PTL

(***************************************************************************)
(* The right to write is a single token that run never loses while it      *)
(* loops (Peer.run, protoRW.WriteMsg).                                     *)
(***************************************************************************)
THEOREM WriteTokenHolds == Safety => []WriteToken
<1>1. PInv => WriteToken
  BY DEF PInv, WriteInv
<1> QED
  BY Invariant, <1>1, PTL

(***************************************************************************)
(* At most one write begins after the peer was closed (WriteMsg).          *)
(***************************************************************************)
THEOREM OneLateWriteHolds == Safety => []OneLateWrite
<1>1. PInv => OneLateWrite
  BY DEF PInv, WriteInv
<1> QED
  BY Invariant, <1>1, PTL

-----------------------------------------------------------------------------
(***************************************************************************)
(* Every step of a peer is a step of the life the server relies on, or     *)
(* leaves it alone.                                                        *)
(***************************************************************************)
LEMMA StepLife == [Next]_vars => [Abstract!Next]_life
<1> SUFFICES ASSUME [Next]_vars PROVE [Abstract!Next]_life
  OBVIOUS
<1> USE DEF life, Abstract!Next, Abstract!Begin, Abstract!Leave, Abstract!Close,
            Abstract!Hold, Abstract!Release, Abstract!Join, Abstract!Drop
<1>0. ASSUME WgWait PROVE [Abstract!Next]_life
  <2>1. ~Held
    BY <1>0 DEF WgWait, WgLive, Held
  <2> QED
    BY <1>0, <2>1 DEF WgWait
<1>1. CASE RunStart \/ RecvWriteErr \/ RecvReadErr \/ RecvProtoErr \/ CloseDone
  BY <1>1 DEF RunStart, RecvWriteErr, RecvReadErr, RecvProtoErr, CloseDone, Break
<1>2. ASSUME NEW c \in Callers, RecvDisc(c) PROVE [Abstract!Next]_life
  BY <1>2 DEF RecvDisc, Break
<1>3. CASE UNCHANGED run
  BY <1>3
<1>4. CASE \E c \in Callers : Disconnect(c) \/ DisconnectClosed(c)
  BY <1>3, <1>4 DEF Disconnect, DisconnectClosed
<1>5. ASSUME NEW t \in Topics,
             \/ CloseSub(t) \/ SubOK(t) \/ SubFail(t) \/ Register(t) \/ NextMsg(t)
             \/ NextErr(t) \/ HandleClosed(t) \/ Delete(t)
             \/ \E then \in {"idle", "write", "return"} : Deliver(t, then)
      PROVE  [Abstract!Next]_life
  BY <1>3, <1>5 DEF CloseSub, SubOK, SubFail, Register, NextMsg, NextErr,
     HandleClosed, Delete, Deliver, ReadStep
<1>6. CASE MapFatal
  BY <1>3, <1>6 DEF MapFatal
<1>7. ASSUME NEW w \in Threads,
             \/ ReadFail(w) \/ ProtoReturn(w) \/ HelperTick(w)
             \/ WriteBegin(w) \/ WriteClosed(w)
             \/ \E res \in {"nil", "err"} : WriteEnd(w, res)
      PROVE  [Abstract!Next]_life
  BY <1>3, <1>7 DEF ReadFail, ProtoReturn, HelperTick, WriteBegin, WriteClosed,
     WriteEnd, ThreadStep
<1>8. CASE UNCHANGED vars
  BY <1>3, <1>8 DEF vars
<1> QED
  BY <1>0, <1>1, <1>2, <1>4, <1>5, <1>6, <1>7, <1>8 DEF Next, Threads

(***************************************************************************)
(* The goroutines of a peer implement PeerLife, which is all the server    *)
(* assumes of them: run is started once, closed is closed once and only    *)
(* after the loop was left, and run returns after that, never while a      *)
(* read loop uses an open subscription.                                    *)
(***************************************************************************)
THEOREM LifeImplemented == Safety => ImplementsLife
<1>1. Init => Abstract!Init
  BY DEF Init, Abstract!Init, life
<1> QED
  BY <1>1, StepLife, PTL DEF Safety, ImplementsLife, Abstract!Spec

-----------------------------------------------------------------------------
(* Room for errors: the counting argument behind ErrorRoom. *)

Unread == {t \in Topics : rl[t] \notin {"del", "done"}}
Unreturned == {p \in Protos : pc[p] # "done"}

(***************************************************************************)
(* Before run starts no read loop and no protocol exists and nothing has   *)
(* been reported: run makes its channels for exactly the goroutines it     *)
(* starts.                                                                 *)
(***************************************************************************)
NoneReported ==
    run = "new" => /\ readErr = 0 /\ protoErr = 0
                   /\ rl = [t \in Topics |-> "off"]

RoomInv == ErrorRoom /\ NoneReported

(***************************************************************************)
(* The goroutines that are still to report are finitely many.              *)
(***************************************************************************)
LEMMA ReportersFinite ==
    /\ IsFiniteSet(Unread) /\ Cardinality(Unread) \in Nat
    /\ IsFiniteSet(Unreturned) /\ Cardinality(Unreturned) \in Nat
    /\ Cardinality(Unread) <= Cardinality(Topics)
    /\ Cardinality(Unreturned) <= Cardinality(Protos)
<1>1. Unread \in SUBSET Topics /\ Unreturned \in SUBSET Protos
  BY DEF Unread, Unreturned
<1> QED
  BY <1>1, PeerAssumption, FS_Subset, FS_CardinalityType

(***************************************************************************)
(* A finite set that holds an element has at least one.                    *)
(***************************************************************************)
LEMMA AtLeastOne ==
    ASSUME NEW S, IsFiniteSet(S), NEW e \in S
    PROVE  Cardinality(S) \in Nat \ {0}
BY FS_CardinalityType, FS_EmptySet

(***************************************************************************)
(* A step in which nobody reports, and nobody new is expected to, keeps    *)
(* the room; run may take an error out of its channel.                     *)
(***************************************************************************)
LEMMA RoomSame ==
    ASSUME PInv, RoomInv, run # "new", run' # "new",
           readErr' <= readErr, readErr' \in Nat, protoErr' <= protoErr, protoErr' \in Nat,
           Unread' \subseteq Unread, Unreturned' \subseteq Unreturned
    PROVE  RoomInv'
<1>1. /\ readErr + Cardinality(Unread) <= Cardinality(Topics)
      /\ protoErr + Cardinality(Unreturned) <= Cardinality(Protos)
  BY DEF RoomInv, ErrorRoom, readLoopCount, Unread, Unreturned
<1>2. /\ Cardinality(Unread') \in Nat /\ Cardinality(Unread') <= Cardinality(Unread)
      /\ Cardinality(Unreturned') \in Nat
      /\ Cardinality(Unreturned') <= Cardinality(Unreturned)
  BY ReportersFinite, FS_Subset, FS_CardinalityType
<1>3. readErr \in Nat /\ protoErr \in Nat
  BY Capacities DEF PInv, TypeOK
<1>4. /\ readErr' + Cardinality(Unread') <= Cardinality(Topics)
      /\ protoErr' + Cardinality(Unreturned') <= Cardinality(Protos)
  BY <1>1, <1>2, <1>3, Capacities, ReportersFinite
<1> QED
  BY <1>4 DEF RoomInv, ErrorRoom, NoneReported, readLoopCount, Unread, Unreturned

(***************************************************************************)
(* A read loop that reports its error is not expected to report another    *)
(* one: what it takes from the channel it took from the count before.      *)
(***************************************************************************)
LEMMA RoomRead ==
    ASSUME PInv, RoomInv, NEW t \in Topics, rl[t] \notin {"off", "del", "done"},
           NEW to \in {"del", "done"}, ReadStep(t, rl[t], to), ReportRead,
           pc' = pc
    PROVE  RoomInv'
<1>0. TypeOK
  BY DEF PInv
<1>1. /\ readErr + Cardinality(Unread) <= Cardinality(Topics)
      /\ protoErr + Cardinality(Unreturned) <= Cardinality(Protos)
      /\ readErr \in Nat /\ readErr' = readErr + 1
      /\ run # "new" /\ run' = run /\ protoErr' = protoErr
  BY <1>0, Capacities
     DEF RoomInv, ErrorRoom, NoneReported, readLoopCount, Unread, Unreturned, TypeOK, ReportRead,
         ReadStep
<1>2. t \in Unread /\ Unread' = Unread \ {t} /\ Unreturned' = Unreturned
  BY <1>0 DEF Unread, Unreturned, TypeOK, ReadStep
<1>3. Cardinality(Unread') = Cardinality(Unread) - 1
  BY <1>2, ReportersFinite, FS_RemoveElement
<1>4. readErr' + Cardinality(Unread') <= Cardinality(Topics)
  BY <1>1, <1>3, Capacities, ReportersFinite
<1> QED
  BY <1>1, <1>2, <1>4
     DEF RoomInv, ErrorRoom, NoneReported, readLoopCount, Unread, Unreturned

(***************************************************************************)
(* The same for a protocol that returns.                                   *)
(***************************************************************************)
LEMMA RoomReturn ==
    ASSUME PInv, RoomInv, NEW p \in Protos, ProtoReturn(p)
    PROVE  RoomInv'
<1>0. TypeOK
  BY DEF PInv
<1>1. /\ readErr + Cardinality(Unread) <= Cardinality(Topics)
      /\ protoErr + Cardinality(Unreturned) <= Cardinality(Protos)
      /\ protoErr \in Nat /\ protoErr' = protoErr + 1
      /\ run' = run /\ readErr' = readErr
  BY <1>0, Capacities
     DEF RoomInv, ErrorRoom, readLoopCount, Unread, Unreturned, TypeOK, ProtoReturn,
         ThreadStep
<1>2. run # "new"
  BY <1>0 DEF PInv, WriteInv, NotStarted, ProtoReturn, ThreadStep, Threads
<1>3. p \in Unreturned /\ Unreturned' = Unreturned \ {p} /\ Unread' = Unread
  BY <1>0 DEF Unread, Unreturned, TypeOK, ProtoReturn, ThreadStep, Threads
<1>4. Cardinality(Unreturned') = Cardinality(Unreturned) - 1
  BY <1>3, ReportersFinite, FS_RemoveElement
<1>5. protoErr' + Cardinality(Unreturned') <= Cardinality(Protos)
  BY <1>1, <1>4, Capacities, ReportersFinite
<1> QED
  BY <1>1, <1>2, <1>3, <1>5
     DEF RoomInv, ErrorRoom, NoneReported, readLoopCount, Unread, Unreturned

(***************************************************************************)
(* Every step keeps the room for errors.                                   *)
(***************************************************************************)
LEMMA NextRoom == PInv /\ RoomInv /\ [Next]_vars => RoomInv'
<1> SUFFICES ASSUME PInv, RoomInv, [Next]_vars PROVE RoomInv'
  OBVIOUS
<1>0. TypeOK /\ readErr \in Nat /\ protoErr \in Nat
  BY Capacities DEF PInv, TypeOK
<1>1. CASE RunStart
  <2>1. readErr' = 0 /\ protoErr' = 0 /\ run' = "loop"
    BY <1>1 DEF RunStart, RoomInv, NoneReported
  <2>2. Unread' = Topics /\ Unreturned' = Protos
    BY <1>1 DEF RunStart, Unread, Unreturned, Threads
  <2> QED
    BY <2>1, <2>2, Capacities
       DEF RoomInv, ErrorRoom, NoneReported, readLoopCount, Unread, Unreturned
<1>2. CASE RecvWriteErr \/ RecvReadErr \/ RecvProtoErr \/ CloseDone \/ WgWait
  <2>1. /\ run # "new" /\ run' # "new" /\ UNCHANGED <<rl, pc>>
        /\ readErr' <= readErr /\ readErr' \in Nat
        /\ protoErr' <= protoErr /\ protoErr' \in Nat
    BY <1>0, <1>2
       DEF RecvWriteErr, RecvReadErr, RecvProtoErr, CloseDone, WgWait, Break
  <2> QED
    BY <2>1, RoomSame DEF Unread, Unreturned
<1>3. ASSUME UNCHANGED <<readErr, protoErr>>, run # "new", run' # "new",
             Unread' \subseteq Unread, Unreturned' \subseteq Unreturned
      PROVE  RoomInv'
  BY <1>0, <1>3, RoomSame
<1>4. ASSUME NEW c \in Callers, RecvDisc(c) \/ Disconnect(c) \/ DisconnectClosed(c)
      PROVE  RoomInv'
  <2>1. run # "new" /\ run' # "new" /\ UNCHANGED <<readErr, protoErr, rl, pc>>
    BY <1>4 DEF RecvDisc, Disconnect, DisconnectClosed, Break, Closed
  <2> QED
    BY <1>3, <2>1 DEF Unread, Unreturned
<1>5. ASSUME NEW t \in Topics, CloseSub(t) PROVE RoomInv'
  <2>1. run # "new" /\ run' # "new" /\ UNCHANGED <<readErr, protoErr, rl, pc>>
    BY <1>5 DEF CloseSub
  <2> QED
    BY <1>3, <2>1 DEF Unread, Unreturned
<1>6. ASSUME NEW t \in Topics, NEW from, NEW to, ReadStep(t, from, to),
             from # "off", to \in {"del", "done"} \/ from \notin {"del", "done"}
      PROVE  run # "new" /\ run' # "new" /\ Unread' \subseteq Unread
  BY <1>0, <1>6 DEF RoomInv, NoneReported, ReadStep, TypeOK, Unread
<1>7. ASSUME NEW t \in Topics, SubOK(t) \/ Register(t) \/ NextMsg(t) \/ Delete(t)
      PROVE  RoomInv'
  <2>1. /\ UNCHANGED <<readErr, protoErr, pc>>
        /\ \/ ReadStep(t, "sub", "reg")
           \/ ReadStep(t, "reg", "next")
           \/ ReadStep(t, "next", "handle")
           \/ ReadStep(t, "del", "done")
    BY <1>7 DEF SubOK, Register, NextMsg, Delete, ReadStep
  <2>2. run # "new" /\ run' # "new" /\ Unread' \subseteq Unread
    BY <1>6, <2>1
  <2> QED
    BY <1>3, <2>1, <2>2 DEF Unreturned
<1>8. ASSUME NEW t \in Topics, SubFail(t) \/ NextErr(t) \/ HandleClosed(t)
      PROVE  RoomInv'
  <2>1. /\ ReportRead /\ pc' = pc
        /\ \/ ReadStep(t, "sub", "done")
           \/ ReadStep(t, "next", "del")
           \/ ReadStep(t, "handle", "del")
    BY <1>8 DEF SubFail, NextErr, HandleClosed
  <2>2. /\ rl[t] \notin {"off", "del", "done"}
        /\ \E to \in {"del", "done"} : ReadStep(t, rl[t], to)
    BY <2>1 DEF ReadStep
  <2> QED
    BY <2>1, <2>2, RoomRead
<1>9. ASSUME NEW w \in Threads, NEW from, NEW to, from \notin {"off", "done"},
             pc[w] = from, pc' = [pc EXCEPT ![w] = to]
      PROVE  run # "new" /\ Unreturned' \subseteq Unreturned
  BY <1>0, <1>9 DEF PInv, WriteInv, NotStarted, TypeOK, Unreturned
<1>10. ASSUME NEW t \in Topics, NEW then \in {"idle", "write", "return"},
              Deliver(t, then)
       PROVE  RoomInv'
  <2>1. /\ ReadStep(t, "handle", "next") /\ UNCHANGED <<readErr, protoErr>>
        /\ ProtoOf[t] \in Threads /\ pc[ProtoOf[t]] = "idle"
        /\ pc' = [pc EXCEPT ![ProtoOf[t]] = then]
    BY <1>10, PeerAssumption DEF Deliver, ReadStep, Threads
  <2>2. run # "new" /\ run' # "new" /\ Unread' \subseteq Unread
    BY <1>6, <2>1
  <2>3. Unreturned' \subseteq Unreturned
    BY <1>9, <2>1
  <2> QED
    BY <1>3, <2>1, <2>2, <2>3
<1>11. CASE MapFatal
  <2>1. run # "new" /\ run' # "new"
    BY <1>11 DEF MapFatal, RoomInv, NoneReported, Writing
  <2> QED
    BY <1>3, <1>11, <2>1 DEF MapFatal, Unread, Unreturned
<1>12. ASSUME NEW p \in Protos, ProtoReturn(p) PROVE RoomInv'
  BY <1>12, RoomReturn
<1>13. ASSUME NEW w \in Threads,
              \/ ReadFail(w) \/ HelperTick(w) \/ WriteBegin(w) \/ WriteClosed(w)
              \/ \E res \in {"nil", "err"} : WriteEnd(w, res)
       PROVE  RoomInv'
  <2>1. /\ UNCHANGED <<readErr, protoErr, rl, run>>
        /\ pc[w] \in {"idle", "write", "pub"}
        /\ \E to : pc' = [pc EXCEPT ![w] = to]
    BY <1>13 DEF ReadFail, HelperTick, WriteBegin, WriteClosed, WriteEnd, ThreadStep
  <2>2. run # "new" /\ Unreturned' \subseteq Unreturned
    BY <1>9, <2>1
  <2> QED
    BY <1>3, <2>1, <2>2 DEF Unread
<1>14. CASE UNCHANGED vars
  BY <1>14 DEF vars, RoomInv, ErrorRoom, NoneReported, readLoopCount
<1> QED
  BY <1>1, <1>2, <1>4, <1>5, <1>7, <1>8, <1>10, <1>11, <1>12, <1>13, <1>14
     DEF Next, Threads

(***************************************************************************)
(* The room for errors holds, with the invariant, in every reachable       *)
(* state.                                                                  *)
(***************************************************************************)
LEMMA RoomInvariant == Safety => [](PInv /\ RoomInv)
<1>1. Init => RoomInv
  <2> SUFFICES ASSUME Init PROVE RoomInv
    OBVIOUS
  <2> QED
    BY Capacities, ReportersFinite
       DEF Init, RoomInv, ErrorRoom, NoneReported, readLoopCount, Unread, Unreturned
<1> QED
  BY <1>1, InitInv, NextRoom, Invariant, PTL DEF Safety

(***************************************************************************)
(* Every read loop and every protocol that is still to report an error has *)
(* room in its channel, also when run has stopped receiving.               *)
(***************************************************************************)
THEOREM ErrorRoomHolds == Safety => []ErrorRoom
<1>1. RoomInv => ErrorRoom
  BY DEF RoomInv
<1> QED
  BY <1>1, RoomInvariant, PTL

(***************************************************************************)
(* No goroutine of the wait group is ever stuck in the send of its error:  *)
(* a read loop that has not reported, and a protocol that has not          *)
(* returned, find their channel below its capacity.                        *)
(***************************************************************************)
SendsNeverBlock ==
    /\ \A t \in Topics : rl[t] \notin {"del", "done"} => readErr < readLoopCount
    /\ \A p \in Protos : pc[p] = "return" => protoErr < Cardinality(Protos)

(***************************************************************************)
(* The sends on errc and protoErr never block (readLoop, startProtocols),  *)
(* so wg.Wait never waits for one of them.                                 *)
(***************************************************************************)
THEOREM SendsNeverBlockHolds == Safety => []SendsNeverBlock
<1>1. PInv /\ RoomInv => SendsNeverBlock
  <2> SUFFICES ASSUME PInv, RoomInv PROVE SendsNeverBlock
    OBVIOUS
  <2>1. /\ readErr + Cardinality(Unread) <= Cardinality(Topics)
        /\ protoErr + Cardinality(Unreturned) <= Cardinality(Protos)
        /\ readErr \in Nat /\ protoErr \in Nat
    BY Capacities
       DEF PInv, TypeOK, RoomInv, ErrorRoom, readLoopCount, Unread, Unreturned
  <2>2. ASSUME NEW t \in Topics, rl[t] \notin {"del", "done"}
        PROVE  readErr < readLoopCount
    <3>1. Cardinality(Unread) \in Nat \ {0}
      BY <2>2, ReportersFinite, AtLeastOne DEF Unread
    <3> QED
      BY <2>1, <3>1, Capacities DEF readLoopCount
  <2>3. ASSUME NEW p \in Protos, pc[p] = "return"
        PROVE  protoErr < Cardinality(Protos)
    <3>1. Cardinality(Unreturned) \in Nat \ {0}
      BY <2>3, ReportersFinite, AtLeastOne DEF Unreturned
    <3> QED
      BY <2>1, <3>1, Capacities
  <2> QED
    BY <2>2, <2>3 DEF SendsNeverBlock
<1> QED
  BY <1>1, RoomInvariant, PTL

=============================================================================
