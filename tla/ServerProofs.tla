---------------------------- MODULE ServerProofs ----------------------------
(***************************************************************************)
(* Proofs about module Server, for any number of nodes, peer objects,      *)
(* callers and stoppers and for any MaxPeers: typing, that the limit on    *)
(* peers holds although it is tested before the peer is added, that a live *)
(* peer always owns the entry of its node, that the home node is known     *)
(* when a peer is made, that the completion signal of Peers and PeerCount  *)
(* meets its caller, and that a Stop which waited left no peer behind.     *)
(*                                                                         *)
(* First come the proofs about the discovery by itself, module Discover,   *)
(* for every set of connections: the typing invariant, that the listener's *)
(* view and the database never drift apart, that the database holds        *)
(* relayed nodes only, and that Conn and Disc alternate for every node.    *)
(*                                                                         *)
(* Capacity is not inductive by itself: between the test at the receipt of *)
(* Conn and the send on checkpointAddPeer one has to know that there is    *)
(* still room, and when the node comes back that its entry is still free.  *)
(* Pending says both.                                                      *)
(***************************************************************************)
EXTENDS Server, FiniteSetTheorems, SequenceTheorems, TLAPS

-----------------------------------------------------------------------------
(* The discovery *)

DInv == DTypeOK /\ Accounting /\ OnlyRelayed

(***************************************************************************)
(* The filter passes p2p-circuit connections only, for what isPrivate      *)
(* tests is the protocol name of the multiaddr (filter.go).                *)
(***************************************************************************)
LEMMA FilterRelayed ==
    ASSUME NEW swarm \in SUBSET Conns, NEW c \in Filter(swarm)
    PROVE  c \in Conns /\ isP2pCircuit(c)
BY ConnsAssumption DEF Filter, isPrivate, isPrivateIP

(***************************************************************************)
(* A map that MakeNodesMap makes of a filtered snapshot has node ids as    *)
(* keys, and each key's value is a relayed connection of that node.        *)
(***************************************************************************)
LEMMA SnapshotMap ==
    ASSUME NEW swarm \in SUBSET Conns, NEW m \in MakeNodesMap(Filter(swarm))
    PROVE  /\ DOMAIN m \subseteq IDs
           /\ m \in [DOMAIN m -> Conns]
           /\ \A i \in DOMAIN m : isP2pCircuit(m[i]) /\ m[i].id = i
<1> DEFINE W == Filter(swarm)
           K == {c.id : c \in W}
<1>1. m \in [K -> W] /\ \A i \in DOMAIN m : m[i].id = i
  BY DEF MakeNodesMap
<1>2. W \subseteq Conns /\ \A c \in W : isP2pCircuit(c)
  BY FilterRelayed
<1>3. K \subseteq IDs
  BY <1>2 DEF IDs
<1> HIDE DEF W, K
<1> QED
  BY <1>1, <1>2, <1>3

(***************************************************************************)
(* Initially nothing was reported and the database is empty.               *)
(***************************************************************************)
LEMMA DInitInv == DInit => DInv
<1> SUFFICES ASSUME DInit PROVE DInv
  OBVIOUS
<1> USE DEF DInit
<1>1. home \in BOOLEAN
  BY Zenon
<1>2. DOMAIN nodes = {} /\ nodes \in [DOMAIN nodes -> Conns]
  BY SMT
<1>3. DTypeOK
  BY <1>1, <1>2 DEF DTypeOK
<1>4. Accounting /\ OnlyRelayed
  BY <1>2 DEF Accounting, OnlyRelayed
<1> QED
  BY <1>3, <1>4 DEF DInv

(***************************************************************************)
(* Every step of the discovery goroutine and of Stop keeps the invariant.  *)
(***************************************************************************)
LEMMA DNextInv == DInv /\ [DNext]_dvars => DInv'
<1> SUFFICES ASSUME DInv, [DNext]_dvars PROVE DInv'
  OBVIOUS
<1> USE DEF DInv, DTypeOK, Accounting, OnlyRelayed
<1>1. CASE DStart
  BY <1>1 DEF DStart
<1>2. CASE Begin
  BY <1>2 DEF Begin
<1>3. ASSUME NEW selfOK \in BOOLEAN, NEW swarm \in SUBSET Conns, Tick(selfOK, swarm)
      PROVE  DInv'
  <2>1. CASE Skip(selfOK, swarm) /\ UNCHANGED <<dpc, nodes, discs, conns>>
    <3>1. home' \in BOOLEAN
      BY <1>3, Zenon DEF Tick
    <3> QED
      BY <1>3, <2>1, <3>1 DEF Tick
  <2>2. CASE ~Skip(selfOK, swarm)
    <3>1. PICK latest \in MakeNodesMap(Filter(swarm)) :
              /\ nodes' = latest
              /\ discs' = Removed(latest)
              /\ conns' = Added(latest)
              /\ dpc' = "notify"
      BY <1>3, <2>2 DEF Tick
    <3>2. /\ DOMAIN nodes' \subseteq IDs
          /\ nodes' \in [DOMAIN nodes' -> Conns]
          /\ \A i \in DOMAIN nodes' : isP2pCircuit(nodes'[i]) /\ nodes'[i].id = i
      BY <3>1, SnapshotMap, Zenon
    <3>3. home' \in BOOLEAN
      BY <1>3, Zenon DEF Tick
    <3>4. dquit' = dquit /\ dstop' = dstop /\ told' = told
      BY <1>3 DEF Tick
    <3>5. told = DOMAIN nodes
      BY <1>3 DEF Tick
    <3>6. discs' = DOMAIN nodes \ DOMAIN nodes' /\ conns' = DOMAIN nodes' \ DOMAIN nodes
      BY <3>1 DEF Removed, Added
    <3>7. DTypeOK'
      BY <3>1, <3>2, <3>3, <3>4, <3>6
    <3>8. Accounting'
      BY <3>1, <3>4, <3>5, <3>6
    <3>9. OnlyRelayed'
      BY <3>2, Zenon DEF isP2pCircuit
    <3> QED
      BY <3>7, <3>8, <3>9
  <2> QED
    BY <1>3, <2>1, <2>2 DEF Tick
<1>4. ASSUME NEW n \in IDs, SendDisc(n) PROVE DInv'
  BY <1>4 DEF SendDisc
<1>5. ASSUME NEW n \in IDs, SendConn(n) PROVE DInv'
  BY <1>5 DEF SendConn
<1>6. CASE RoundEnd
  BY <1>6 DEF RoundEnd
<1>7. CASE QuitRecv
  BY <1>7 DEF QuitRecv
<1>8. CASE StopSend
  BY <1>8 DEF StopSend
<1>9. CASE StopWait
  BY <1>9 DEF StopWait
<1>10. CASE UNCHANGED dvars
  BY <1>10 DEF dvars, isP2pCircuit
<1> QED
  BY <1>1, <1>2, <1>3, <1>4, <1>5, <1>6, <1>7, <1>8, <1>9, <1>10 DEF DNext

(***************************************************************************)
(* The state of the discovery goroutine is well-typed.                     *)
(***************************************************************************)
THEOREM DTypeCorrect == DSafety => []DTypeOK
<1>1. DInv => DTypeOK
  BY DEF DInv
<1> QED
  BY <1>1, DInitInv, DNextInv, PTL DEF DSafety

(***************************************************************************)
(* The listener was told exactly the database, up to the notifications of  *)
(* the round under way (Choose, Replace and the two send loops).           *)
(***************************************************************************)
THEOREM DAccounting == DSafety => []Accounting
<1>1. DInv => Accounting
  BY DEF DInv
<1> QED
  BY <1>1, DInitInv, DNextInv, PTL DEF DSafety

(***************************************************************************)
(* The database holds relayed nodes only, under their own id (Filter,      *)
(* MakeNodesMap, Replace).                                                 *)
(***************************************************************************)
THEOREM DOnlyRelayed == DSafety => []OnlyRelayed
<1>1. DInv => OnlyRelayed
  BY DEF DInv
<1> QED
  BY <1>1, DInitInv, DNextInv, PTL DEF DSafety

(***************************************************************************)
(* Conn and Disc alternate for every node on the listener's side.          *)
(***************************************************************************)
THEOREM DAlternation == DSafety => Alternation
<1> DEFINE A == \A n \in IDs : /\ SendConn(n) => n \notin told
                               /\ SendDisc(n) => n \in told
<1>1. DInv /\ [DNext]_dvars => [A]_dvars
  BY DEF DInv, Accounting, SendConn, SendDisc
<1>2. DSafety => [][A]_dvars
  <2> HIDE DEF A
  <2> QED
    BY <1>1, DInitInv, DNextInv, PTL DEF DSafety
<1> QED
  BY <1>2 DEF Alternation

-----------------------------------------------------------------------------
(* The server *)

(***************************************************************************)
(* The node on its way to checkpointAddPeer, or in it, has no entry yet,   *)
(* and while it is on its way there is room for it.                        *)
(***************************************************************************)
Pending ==
    /\ srv = "checkpoint" => cur \in IDs /\ peers[cur] = NoRef /\ NumPeers < MaxPeers
    /\ checkpoint # << >> => peers[Head(checkpoint)] = NoRef

Inv == DInv /\ STypeOK /\ Capacity /\ Pending /\ Ownership

-----------------------------------------------------------------------------
(***************************************************************************)
(* A nonempty sequence of at most one element has exactly one.             *)
(***************************************************************************)
LEMMA OneElement ==
    ASSUME NEW S, NEW s \in Seq(S), s # << >>, Len(s) <= 1
    PROVE  Len(s) = 1
<1>1. Len(s) \in Nat \ {0}
  BY EmptySeq, Zenon
<1> QED
  BY <1>1, SMT

(***************************************************************************)
(* The number of peers is a natural number.                                *)
(***************************************************************************)
LEMMA NumPeersNat == IsFiniteSet(Connected) /\ NumPeers \in Nat
<1>1. Connected \in SUBSET IDs
  BY DEF Connected
<1>2. IsFiniteSet(Connected)
  BY <1>1, ServerAssumption, FS_Subset
<1> QED
  BY <1>2, FS_CardinalityType DEF NumPeers

(***************************************************************************)
(* Filling a free entry of the map peers adds one peer.                    *)
(***************************************************************************)
LEMMA CountAdd ==
    ASSUME STypeOK, NEW n \in IDs, NEW r \in Refs, peers[n] = NoRef,
           peers' = [peers EXCEPT ![n] = r]
    PROVE  NumPeers' = NumPeers + 1
<1>1. Connected' = Connected \cup {n} /\ n \notin Connected
  BY ServerAssumption DEF Connected, STypeOK
<1> QED
  BY <1>1, NumPeersNat, FS_AddElement DEF NumPeers

(***************************************************************************)
(* Deleting an entry of the map peers removes one peer.                    *)
(***************************************************************************)
LEMMA CountRemove ==
    ASSUME STypeOK, NEW n \in IDs, peers[n] # NoRef,
           peers' = [peers EXCEPT ![n] = NoRef]
    PROVE  NumPeers' = NumPeers - 1
<1>1. Connected' = Connected \ {n} /\ n \in Connected
  BY DEF Connected, STypeOK
<1> QED
  BY <1>1, NumPeersNat, FS_RemoveElement DEF NumPeers

(***************************************************************************)
(* A step that changes neither the map nor the channel, nor which peer     *)
(* objects are in use, keeps the invariant's parts about them.             *)
(***************************************************************************)
LEMMA Quiet ==
    ASSUME Inv, UNCHANGED <<peers, pnode, checkpoint>>,
           \A r \in Refs : life'[r] = "free" <=> life[r] = "free",
           srv' = "checkpoint" =>
               \/ srv = "checkpoint" /\ cur' = cur
               \/ cur' \in IDs /\ peers[cur'] = NoRef /\ NumPeers < MaxPeers
    PROVE  (Capacity /\ Pending /\ Ownership)'
<1>1. Connected' = Connected /\ NumPeers' = NumPeers
  BY DEF Connected, NumPeers
<1>2. Capacity' /\ Pending'
  BY <1>1 DEF Inv, Capacity, Pending
<1>3. \A i \in Connected : peers[i] \in Refs
  BY DEF Inv, STypeOK, Connected
<1>4. Ownership'
  BY <1>1, <1>3 DEF Inv, Ownership
<1> QED
  BY <1>2, <1>4

(***************************************************************************)
(* The drop of a finished peer frees its own entry and no other: used for  *)
(* both receives from delpeer.                                             *)
(***************************************************************************)
LEMMA DropKeeps ==
    ASSUME Inv, NEW r \in Refs, DelPeer(r), UNCHANGED <<checkpoint, srv>>,
           srv # "checkpoint"
    PROVE  /\ life' \in [Refs -> {"free", "running", "closing", "closed", "held", "ended"}]
           /\ peers' \in [IDs -> Refs \cup {NoRef}]
           /\ pnode' \in [Refs -> IDs \cup {NoNode}]
           /\ (Capacity /\ Pending /\ Ownership)'
<1> USE DEF DelPeer
<1>1. /\ pnode[r] \in IDs /\ peers[pnode[r]] = r
      /\ STypeOK
  BY DEF Inv, Ownership
<1>2. /\ life' \in [Refs -> {"free", "running", "closing", "closed", "held", "ended"}]
      /\ peers' \in [IDs -> Refs \cup {NoRef}]
      /\ pnode' \in [Refs -> IDs \cup {NoNode}]
  BY <1>1 DEF STypeOK
<1>3. NumPeers' = NumPeers - 1
  BY <1>1, CountRemove, ServerAssumption
<1>4. Capacity'
  BY <1>1, <1>3, NumPeersNat, ServerAssumption DEF Inv, Capacity, STypeOK
<1>5. Pending'
  BY <1>1 DEF Inv, Pending, STypeOK
<1>6. \A q \in Refs \ {r} : life[q] # "free" => pnode[q] # pnode[r]
  BY <1>1 DEF Inv, Ownership
<1>7. \A q \in Refs : life'[q] # "free" => pnode'[q] \in IDs /\ peers'[pnode'[q]] = q
  BY <1>1, <1>6 DEF Inv, Ownership, STypeOK
<1>8. \A i \in Connected' : i \in Connected /\ i # pnode[r] /\ peers'[i] = peers[i]
  BY <1>1 DEF Connected, STypeOK
<1>9. \A i \in Connected' : peers[i] # r /\ peers[i] \in Refs
  BY <1>1, <1>8 DEF Inv, Ownership, Connected, STypeOK
<1>10. \A i \in Connected' : life'[peers'[i]] # "free" /\ pnode'[peers'[i]] = i
  BY <1>8, <1>9 DEF Inv, Ownership, STypeOK
<1>11. Ownership'
  BY <1>7, <1>10 DEF Ownership
<1> QED
  BY <1>2, <1>4, <1>5, <1>11

-----------------------------------------------------------------------------
(***************************************************************************)
(* In the initial state there is no peer and no pending node.              *)
(***************************************************************************)
LEMMA InitInv == Init => Inv
<1> SUFFICES ASSUME Init PROVE Inv
  OBVIOUS
<1> USE DEF Init
<1>1. DInv
  BY DInitInv
<1>2. running \in BOOLEAN /\ quit \in BOOLEAN /\ homenode \in BOOLEAN
  BY Zenon
<1>3. STypeOK
  BY <1>2 DEF STypeOK, CheckpointCap
<1>4. Connected = {}
  BY DEF Connected
<1>5. NumPeers = 0
  BY <1>4, FS_EmptySet DEF NumPeers
<1>6. Capacity /\ Pending
  BY <1>5, ServerAssumption DEF Capacity, Pending
<1>7. Ownership
  BY <1>4 DEF Ownership
<1> QED
  BY <1>1, <1>3, <1>6, <1>7 DEF Inv

(***************************************************************************)
(* A step of the server is a step of its discovery goroutine or leaves the *)
(* goroutine alone: the composition adds nothing to module Discover.       *)
(***************************************************************************)
LEMMA ServerStepsDiscover == [Next]_vars => [DNext]_dvars
<1> SUFFICES ASSUME [Next]_vars PROVE [DNext]_dvars
  OBVIOUS
<1> USE DEF DNext
<1>1. CASE Start
  BY <1>1 DEF Start
<1>2. ASSUME NEW n \in IDs, RecvConn(n) \/ RecvDisc(n) PROVE [DNext]_dvars
  BY <1>2 DEF RecvConn, RecvDisc
<1>3. CASE WaitDone
  BY <1>3 DEF WaitDone
<1>4. CASE RunDone
  BY <1>4 DEF RunDone
<1>5. CASE DiscoverStep
  BY <1>5 DEF DiscoverStep
<1>6. ASSUME NEW c \in Stoppers, Stop(c) \/ StopReturn(c) PROVE UNCHANGED dvars
  BY <1>6 DEF Stop, StopReturn
<1>7. ASSUME NEW c \in Callers,
             PeerOp(c) \/ PeerOpQuit(c) \/ RecvPeerOp(c) \/ SendPeerOpDone(c)
      PROVE  UNCHANGED dvars
  BY <1>7 DEF PeerOp, PeerOpQuit, RecvPeerOp, SendPeerOpDone
<1>8. ASSUME NEW r \in Refs,
             \/ RecvCheckpoint(r) \/ RecvDelPeer(r) \/ QuitDisconnect(r) \/ WaitDelPeer(r)
             \/ PeerLeave(r) \/ PeerClose(r) \/ PeerJoin(r)
             \/ PeerHold(r) \/ PeerRelease(r)
      PROVE  UNCHANGED dvars
  BY <1>8 DEF RecvCheckpoint, RecvDelPeer, QuitDisconnect, WaitDelPeer, PeerLeave,
              PeerClose, PeerJoin, PeerHold, PeerRelease, PeerMove
<1>9. SendCheckpoint \/ DisconnectReturn \/ RecvQuit \/ QuitDisconnected => UNCHANGED dvars
  BY DEF SendCheckpoint, DisconnectReturn, RecvQuit, QuitDisconnected
<1>10. CASE UNCHANGED vars
  BY <1>10 DEF vars
<1> QED
  BY <1>1, <1>2, <1>3, <1>4, <1>5, <1>6, <1>7, <1>8, <1>9, <1>10 DEF Next

(***************************************************************************)
(* Disconnect moves a running peer to closing and touches no other.        *)
(***************************************************************************)
LEMMA DisconnectKeeps ==
    ASSUME STypeOK, NEW r, Disconnect(r)
    PROVE  /\ life' \in [Refs -> {"free", "running", "closing", "closed", "held", "ended"}]
           /\ \A q \in Refs : life'[q] = "free" <=> life[q] = "free"
BY DEF STypeOK, Disconnect

(***************************************************************************)
(* Every step of the server keeps the invariant.                           *)
(***************************************************************************)
LEMMA NextInv == Inv /\ [Next]_vars => Inv'
<1> SUFFICES ASSUME Inv, [Next]_vars PROVE Inv'
  OBVIOUS
<1>0. DInv' /\ STypeOK
  BY ServerStepsDiscover, DNextInv DEF Inv
<1> DEFINE Goal == STypeOK' /\ (Capacity /\ Pending /\ Ownership)'
<1> SUFFICES Goal
  BY <1>0 DEF Inv
<1>1. CASE Start
  <2>1. running' \in BOOLEAN
    BY <1>1, Zenon DEF Start
  <2>2. STypeOK'
    BY <1>0, <1>1, <2>1 DEF STypeOK, Start
  <2> QED
    BY <1>1, <2>2, Quiet DEF Start
<1>2. ASSUME NEW c \in Stoppers, Stop(c) PROVE Goal
  <2>1. running' \in BOOLEAN /\ quit' \in BOOLEAN
    BY <1>0, <1>2, Zenon DEF STypeOK, Stop
  <2>2. STypeOK'
    BY <1>0, <1>2, <2>1 DEF STypeOK, Stop
  <2> QED
    BY <1>2, <2>2, Quiet DEF Stop
<1>3. ASSUME NEW c \in Stoppers, StopReturn(c) PROVE Goal
  <2>1. STypeOK'
    BY <1>0, <1>3 DEF STypeOK, StopReturn
  <2> QED
    BY <1>3, <2>1, Quiet DEF StopReturn
<1>4. ASSUME NEW c \in Callers,
             PeerOp(c) \/ PeerOpQuit(c) \/ RecvPeerOp(c) \/ SendPeerOpDone(c)
      PROVE  Goal
  <2>1. STypeOK'
    BY <1>0, <1>4 DEF STypeOK, PeerOp, PeerOpQuit, RecvPeerOp, SendPeerOpDone
  <2> QED
    BY <1>4, <2>1, Quiet DEF PeerOp, PeerOpQuit, RecvPeerOp, SendPeerOpDone
<1>5. ASSUME NEW n \in IDs, RecvConn(n) PROVE Goal
  <2>1. homenode' \in BOOLEAN
    BY <1>5, Zenon DEF RecvConn
  <2>2. STypeOK'
    BY <1>0, <1>5, <2>1 DEF STypeOK, RecvConn
  <2>3. srv' = "checkpoint" => cur' \in IDs /\ peers[cur'] = NoRef /\ NumPeers < MaxPeers
    BY <1>5, NumPeersNat, ServerAssumption DEF RecvConn, Refused
  <2> QED
    BY <1>5, <2>2, <2>3, Quiet DEF RecvConn
<1>6. CASE SendCheckpoint
  <2>0. /\ checkpoint \in Seq(IDs) /\ Len(checkpoint) = 0
        /\ checkpoint' = Append(checkpoint, cur)
        /\ srv = "checkpoint"
    <3>1. checkpoint \in Seq(IDs) /\ Len(checkpoint) < 1
      BY <1>0, <1>6 DEF STypeOK, SendCheckpoint, CheckpointCap
    <3> QED
      BY <1>6, <3>1, LenProperties DEF SendCheckpoint
  <2>1. checkpoint = << >> /\ checkpoint' = <<cur>> /\ cur \in IDs /\ peers[cur] = NoRef
    <3>1. checkpoint = << >>
      BY <2>0, EmptySeq
    <3>2. cur \in IDs /\ peers[cur] = NoRef
      BY <2>0 DEF Inv, Pending
    <3>3. Append(<< >>, cur) = <<cur>>
      OBVIOUS
    <3> QED
      BY <2>0, <3>1, <3>2, <3>3
  <2>2. STypeOK'
    BY <1>0, <1>6, <2>1 DEF STypeOK, SendCheckpoint, CheckpointCap
  <2>3. Connected' = Connected /\ NumPeers' = NumPeers
    BY <1>6 DEF SendCheckpoint, Connected, NumPeers
  <2>4. Capacity' /\ Pending'
    BY <1>6, <2>1, <2>3, NumPeersNat, ServerAssumption
       DEF Inv, Pending, Capacity, SendCheckpoint
  <2>5. Ownership'
    BY <1>6, <2>3 DEF Inv, Ownership, SendCheckpoint
  <2> QED
    BY <2>2, <2>4, <2>5
<1>7. ASSUME NEW n \in IDs, RecvDisc(n) PROVE Goal
  <2>1. STypeOK'
    BY <1>0, <1>7 DEF STypeOK, RecvDisc
  <2> QED
    BY <1>7, <2>1, Quiet DEF RecvDisc
<1>8. CASE DisconnectReturn
  <2>1. STypeOK'
    BY <1>0, <1>8, DisconnectKeeps DEF STypeOK, DisconnectReturn
  <2> QED
    BY <1>0, <1>8, <2>1, DisconnectKeeps, Quiet DEF DisconnectReturn
<1>9. ASSUME NEW r \in Refs, RecvCheckpoint(r) PROVE Goal
  <2> DEFINE n == Head(checkpoint)
  <2>0. /\ checkpoint \in Seq(IDs) /\ checkpoint # << >> /\ Len(checkpoint) <= 1
        /\ checkpoint' = Tail(checkpoint)
    BY <1>0, <1>9 DEF STypeOK, RecvCheckpoint, CheckpointCap
  <2>1. /\ n \in IDs /\ peers[n] = NoRef
        /\ Len(checkpoint) = 1 /\ checkpoint' = << >>
    <3>1. Len(checkpoint) = 1
      BY <2>0, OneElement, Zenon
    <3>2. n \in IDs /\ checkpoint' \in Seq(IDs) /\ Len(checkpoint') = 0
      BY <2>0, <3>1, HeadTailProperties
    <3>3. checkpoint' = << >>
      BY <3>2, EmptySeq
    <3> HIDE DEF n
    <3>4. peers[Head(checkpoint)] = NoRef
      BY <2>0 DEF Inv, Pending
    <3> QED
      BY <3>1, <3>2, <3>3, <3>4 DEF n
  <2> HIDE DEF n
  <2>2. /\ peers' = [peers EXCEPT ![n] = r]
        /\ life' = [life EXCEPT ![r] = "running"]
        /\ pnode' = [pnode EXCEPT ![r] = n]
        /\ life[r] = "free" /\ srv = "select" /\ srv' = srv
    BY <1>9 DEF RecvCheckpoint, n
  <2>3. STypeOK'
    <3>1. checkpoint' \in Seq(IDs) /\ Len(checkpoint') <= CheckpointCap
      BY <2>1 DEF CheckpointCap
    <3>2. /\ peers' \in [IDs -> Refs \cup {NoRef}]
          /\ life' \in [Refs -> {"free", "running", "closing", "closed", "held", "ended"}]
          /\ pnode' \in [Refs -> IDs \cup {NoNode}]
      BY <1>0, <2>1, <2>2 DEF STypeOK
    <3>3. UNCHANGED <<srv, cur, running, quit, homenode, todo, opc, stopc>>
      BY <1>9 DEF RecvCheckpoint
    <3>4. CheckpointCap' = CheckpointCap
      BY DEF CheckpointCap
    <3> QED
      BY <1>0, <3>1, <3>2, <3>3, <3>4, Zenon DEF STypeOK
  <2>4. NumPeers' = NumPeers + 1
    BY <1>0, <2>1, <2>2, CountAdd
  <2>5. Capacity' /\ Pending'
    BY <2>1, <2>2, <2>4, NumPeersNat, ServerAssumption DEF Inv, Capacity, Pending
  <2>6. \A q \in Refs \ {r} : life[q] # "free" => pnode[q] # n
    BY <2>1, ServerAssumption DEF Inv, Ownership
  <2>7. \A q \in Refs : life'[q] # "free" => pnode'[q] \in IDs /\ peers'[pnode'[q]] = q
    BY <1>0, <2>1, <2>2, <2>6 DEF Inv, Ownership, STypeOK
  <2>8. \A i \in Connected : peers[i] \in Refs /\ peers[i] # r
    BY <1>0, <2>2 DEF Inv, Ownership, STypeOK, Connected
  <2>9. \A i \in Connected' : life'[peers'[i]] # "free" /\ pnode'[peers'[i]] = i
    <3> SUFFICES ASSUME NEW i \in Connected'
                 PROVE  life'[peers'[i]] # "free" /\ pnode'[peers'[i]] = i
      OBVIOUS
    <3>1. CASE i = n
      BY <1>0, <2>1, <2>2, <3>1 DEF STypeOK
    <3>2. CASE i # n
      <4>1. i \in Connected /\ peers'[i] = peers[i]
        BY <1>0, <2>2, <3>2 DEF Connected, STypeOK
      <4> QED
        BY <1>0, <2>2, <2>8, <4>1 DEF Inv, Ownership, STypeOK
    <3> QED
      BY <3>1, <3>2
  <2>10. Ownership'
    BY <2>7, <2>9 DEF Ownership
  <2> QED
    BY <2>3, <2>5, <2>10
<1>10. ASSUME NEW r \in Refs, RecvDelPeer(r) \/ WaitDelPeer(r) PROVE Goal
  <2>1. DelPeer(r) /\ UNCHANGED <<checkpoint, srv>> /\ srv # "checkpoint"
    BY <1>10 DEF RecvDelPeer, WaitDelPeer
  <2>2. STypeOK'
    BY <1>0, <1>10, <2>1, DropKeeps DEF STypeOK, RecvDelPeer, WaitDelPeer
  <2> QED
    BY <2>1, <2>2, DropKeeps
<1>11. CASE RecvQuit
  <2>1. ActivePeers \subseteq Refs
    BY <1>0 DEF ActivePeers, Connected, STypeOK
  <2>2. STypeOK'
    BY <1>0, <1>11, <2>1 DEF STypeOK, RecvQuit
  <2> QED
    BY <1>11, <2>2, Quiet DEF RecvQuit
<1>12. ASSUME NEW r \in Refs, QuitDisconnect(r) PROVE Goal
  <2>1. STypeOK'
    BY <1>0, <1>12, DisconnectKeeps DEF STypeOK, QuitDisconnect
  <2> QED
    BY <1>0, <1>12, <2>1, DisconnectKeeps, Quiet DEF QuitDisconnect
<1>13. CASE QuitDisconnected \/ WaitDone \/ RunDone
  <2>1. STypeOK'
    BY <1>0, <1>13 DEF STypeOK, QuitDisconnected, WaitDone, RunDone
  <2> QED
    BY <1>13, <2>1, Quiet DEF QuitDisconnected, WaitDone, RunDone
<1>14. ASSUME NEW r \in Refs, PeerLeave(r) \/ PeerClose(r) \/ PeerJoin(r)
              \/ PeerHold(r) \/ PeerRelease(r) PROVE Goal
  <2> USE DEF PeerLeave, PeerClose, PeerJoin,
                    PeerHold, PeerRelease, PeerMove
  <2>1. STypeOK'
    BY <1>0, <1>14 DEF STypeOK
  <2>2. \A q \in Refs : life'[q] = "free" <=> life[q] = "free"
    BY <1>0, <1>14 DEF STypeOK
  <2> QED
    BY <1>14, <2>1, <2>2, Quiet
<1>15. CASE DiscoverStep \/ UNCHANGED vars
  <2>1. UNCHANGED svars
    BY <1>15 DEF DiscoverStep, vars
  <2>2. STypeOK'
    BY <1>0, <2>1 DEF STypeOK, svars
  <2> QED
    BY <2>1, <2>2, Quiet DEF svars
<1> QED
  BY <1>1, <1>2, <1>3, <1>4, <1>5, <1>6, <1>7, <1>8, <1>9, <1>10, <1>11, <1>12, <1>13,
     <1>14, <1>15 DEF Next

(***************************************************************************)
(* The invariant holds in every reachable state.                           *)
(***************************************************************************)
LEMMA Invariance == Safety => []Inv
BY InitInv, NextInv, PTL DEF Safety

(***************************************************************************)
(* The state of the server and its discoverer is well-typed.               *)
(***************************************************************************)
THEOREM TypeCorrect == Safety => []TypeOK
<1>1. Inv => TypeOK
  BY DEF Inv, DInv, TypeOK
<1> QED
  BY <1>1, Invariance, PTL

(***************************************************************************)
(* The server never has more than MaxPeers peers, the pending node counted *)
(* (run's cases discover.Conn and checkpointAddPeer).                      *)
(***************************************************************************)
THEOREM CapacityHolds == Safety => []Capacity
<1>1. Inv => Capacity
  BY DEF Inv
<1> QED
  BY <1>1, Invariance, PTL

(***************************************************************************)
(* A live peer owns the entry of its node, and no entry outlives its peer  *)
(* (run's cases checkpointAddPeer and delpeer).                            *)
(***************************************************************************)
THEOREM OwnershipHolds == Safety => []Ownership
<1>1. Inv => Ownership
  BY DEF Inv
<1> QED
  BY <1>1, Invariance, PTL

-----------------------------------------------------------------------------
(***************************************************************************)
(* The discovery goroutine reports nothing before DB.home is known (the    *)
(* first test of the tick handler).                                        *)
(***************************************************************************)
HomeFirst == dpc = "notify" => home

(***************************************************************************)
(* Spin-down: run has left its select for good only when the map is empty. *)
(***************************************************************************)
Emptied == srv \in {"discstop", "done"} => Connected = {}

LoopInv == HomeFirst /\ HomeKnown /\ OpPairing /\ Emptied

(***************************************************************************)
(* The flag home is set before the first round of notifications and stays  *)
(* set (DB.home).                                                          *)
(***************************************************************************)
LEMMA HomeStep ==
    ASSUME HomeFirst, [DNext]_dvars
    PROVE  HomeFirst' /\ (home => home')
<1> USE DEF HomeFirst
<1>1. CASE DStart
  BY <1>1 DEF DStart
<1>2. CASE Begin
  BY <1>2 DEF Begin
<1>3. ASSUME NEW selfOK \in BOOLEAN, NEW swarm \in SUBSET Conns, Tick(selfOK, swarm)
      PROVE  HomeFirst' /\ (home => home')
  <2>1. dpc = "select" /\ (home => home') /\ (selfOK => home')
    BY <1>3, Zenon DEF Tick
  <2>2. dpc' = dpc \/ home \/ selfOK
    BY <1>3, Zenon DEF Tick, Skip
  <2> QED
    BY <2>1, <2>2
<1>4. ASSUME NEW n \in IDs, SendDisc(n) \/ SendConn(n)
      PROVE  HomeFirst' /\ (home => home')
  BY <1>4 DEF SendDisc, SendConn
<1>5. CASE RoundEnd \/ QuitRecv
  BY <1>5 DEF RoundEnd, QuitRecv
<1>6. CASE StopSend \/ StopWait
  BY <1>6 DEF StopSend, StopWait
<1>7. CASE UNCHANGED dvars
  BY <1>7 DEF dvars
<1> QED
  BY <1>1, <1>2, <1>3, <1>4, <1>5, <1>6, <1>7 DEF DNext

(***************************************************************************)
(* Only a Conn that is not refused starts a pending node, and homenode is  *)
(* set with it: every step keeps HomeKnown.                                *)
(***************************************************************************)
LEMMA HomeKnownStep ==
    ASSUME Inv, HomeFirst, HomeKnown, [Next]_vars
    PROVE  HomeKnown'
<1> USE DEF HomeKnown
<1>0. STypeOK
  BY DEF Inv
<1>1. ASSUME NEW n \in IDs, RecvConn(n) PROVE HomeKnown'
  <2>1. homenode'
    BY <1>1, Zenon DEF RecvConn, SendConn, HomeFirst
  <2> QED
    BY <2>1
<1>2. CASE SendCheckpoint
  <2>1. srv = "checkpoint" /\ homenode' = homenode
    BY <1>2 DEF SendCheckpoint
  <2> QED
    BY <2>1
<1>3. ASSUME NEW r \in Refs, RecvCheckpoint(r) PROVE HomeKnown'
  <2>1. checkpoint # << >> /\ homenode' = homenode
    BY <1>3 DEF RecvCheckpoint
  <2> QED
    BY <2>1
<1>4. ASSUME NEW r \in Refs, RecvDelPeer(r) \/ WaitDelPeer(r) PROVE HomeKnown'
  <2>1. /\ UNCHANGED <<srv, checkpoint, homenode>>
        /\ peers' = [peers EXCEPT ![pnode[r]] = NoRef]
    BY <1>4 DEF RecvDelPeer, WaitDelPeer, DelPeer
  <2>2. Connected' \subseteq Connected
    BY <1>0, <2>1 DEF Connected, STypeOK
  <2> QED
    BY <2>1, <2>2
<1>5. ASSUME UNCHANGED <<checkpoint, peers, homenode>>,
             srv' = "checkpoint" => srv = "checkpoint"
      PROVE  HomeKnown'
  <2>1. Connected' = Connected
    BY <1>5 DEF Connected
  <2> QED
    BY <1>5, <2>1
<1>6. CASE Start
  BY <1>5, <1>6 DEF Start
<1>7. ASSUME NEW c \in Stoppers, Stop(c) \/ StopReturn(c) PROVE HomeKnown'
  BY <1>5, <1>7 DEF Stop, StopReturn
<1>8. ASSUME NEW c \in Callers,
             PeerOp(c) \/ PeerOpQuit(c) \/ RecvPeerOp(c) \/ SendPeerOpDone(c)
      PROVE  HomeKnown'
  BY <1>5, <1>8 DEF PeerOp, PeerOpQuit, RecvPeerOp, SendPeerOpDone
<1>9. ASSUME NEW n \in IDs, RecvDisc(n) PROVE HomeKnown'
  BY <1>5, <1>9 DEF RecvDisc
<1>10. CASE DisconnectReturn \/ RecvQuit \/ QuitDisconnected \/ WaitDone \/ RunDone
  BY <1>5, <1>10 DEF DisconnectReturn, RecvQuit, QuitDisconnected, WaitDone, RunDone
<1>11. ASSUME NEW r \in Refs,
              QuitDisconnect(r) \/ PeerLeave(r) \/ PeerClose(r) \/ PeerJoin(r)
              \/ PeerHold(r) \/ PeerRelease(r)
       PROVE  HomeKnown'
  BY <1>5, <1>11 DEF QuitDisconnect, PeerLeave, PeerClose, PeerJoin,
                    PeerHold, PeerRelease, PeerMove
<1>12. CASE DiscoverStep \/ UNCHANGED vars
  BY <1>5, <1>12 DEF DiscoverStep, vars, svars
<1> QED
  BY <1>1, <1>2, <1>3, <1>4, <1>6, <1>7, <1>8, <1>9, <1>10, <1>11, <1>12 DEF Next

(***************************************************************************)
(* A caller waits for the completion signal exactly while run sends it:    *)
(* the receipt of peerOp starts both waits, the send of peerOpDone ends    *)
(* both, and the case for quit is no way out of the second.                *)
(***************************************************************************)
LEMMA OpPairingStep ==
    ASSUME Inv, OpPairing, [Next]_vars
    PROVE  OpPairing'
<1> USE DEF OpPairing
<1>0. opc \in [Callers -> {"idle", "select", "wait"}]
  BY DEF Inv, STypeOK
<1>1. ASSUME NEW c \in Callers, PeerOp(c) PROVE OpPairing'
  BY <1>0, <1>1 DEF PeerOp
<1>2. ASSUME NEW c \in Callers, PeerOpQuit(c) PROVE OpPairing'
  BY <1>0, <1>2 DEF PeerOpQuit, CanGiveUp
<1>3. ASSUME NEW c \in Callers, RecvPeerOp(c) PROVE OpPairing'
  BY <1>0, <1>3 DEF RecvPeerOp
<1>4. ASSUME NEW c \in Callers, SendPeerOpDone(c) PROVE OpPairing'
  BY <1>0, <1>4 DEF SendPeerOpDone
<1>5. ASSUME opc' = opc, srv' = "opdone" <=> srv = "opdone" PROVE OpPairing'
  BY <1>5
<1>6. CASE Start
  BY <1>5, <1>6 DEF Start
<1>7. ASSUME NEW c \in Stoppers, Stop(c) \/ StopReturn(c) PROVE OpPairing'
  BY <1>5, <1>7 DEF Stop, StopReturn
<1>8. ASSUME NEW n \in IDs, RecvConn(n) \/ RecvDisc(n) PROVE OpPairing'
  BY <1>5, <1>8 DEF RecvConn, RecvDisc
<1>9. CASE SendCheckpoint \/ DisconnectReturn \/ RecvQuit
  BY <1>5, <1>9 DEF SendCheckpoint, DisconnectReturn, RecvQuit
<1>10. CASE QuitDisconnected \/ WaitDone \/ RunDone
  BY <1>5, <1>10 DEF QuitDisconnected, WaitDone, RunDone
<1>11. ASSUME NEW r \in Refs, RecvCheckpoint(r) \/ RecvDelPeer(r) PROVE OpPairing'
  BY <1>5, <1>11 DEF RecvCheckpoint, RecvDelPeer
<1>12. ASSUME NEW r \in Refs, QuitDisconnect(r) \/ WaitDelPeer(r) PROVE OpPairing'
  BY <1>5, <1>12 DEF QuitDisconnect, WaitDelPeer
<1>13. ASSUME NEW r \in Refs, PeerLeave(r) \/ PeerClose(r) \/ PeerJoin(r)
              \/ PeerHold(r) \/ PeerRelease(r)
       PROVE  OpPairing'
  BY <1>5, <1>13 DEF PeerLeave, PeerClose, PeerJoin,
                    PeerHold, PeerRelease, PeerMove
<1>14. CASE DiscoverStep \/ UNCHANGED vars
  BY <1>5, <1>14 DEF DiscoverStep, vars, svars
<1> QED
  BY <1>1, <1>2, <1>3, <1>4, <1>6, <1>7, <1>8, <1>9, <1>10, <1>11, <1>12, <1>13, <1>14
     DEF Next

(***************************************************************************)
(* The wait for delpeer ends only with an empty map, and nothing is added  *)
(* afterwards.                                                             *)
(***************************************************************************)
LEMMA EmptiedStep ==
    ASSUME Inv, Emptied, [Next]_vars
    PROVE  Emptied'
<1> USE DEF Emptied
<1>0. STypeOK
  BY DEF Inv
<1>1. CASE WaitDone
  <2>1. Connected = {}
    BY <1>1, NumPeersNat, FS_EmptySet DEF WaitDone, Drained, NumPeers
  <2> QED
    BY <1>1, <2>1 DEF WaitDone, Connected
<1>2. CASE RunDone
  BY <1>2 DEF RunDone, Connected
<1>3. ASSUME NEW r \in Refs, RecvCheckpoint(r) \/ RecvDelPeer(r) \/ WaitDelPeer(r)
      PROVE  Emptied'
  BY <1>3 DEF RecvCheckpoint, RecvDelPeer, WaitDelPeer
<1>4. ASSUME peers' = peers,
             srv' \in {"discstop", "done"} => srv \in {"discstop", "done"}
      PROVE  Emptied'
  BY <1>4 DEF Connected
<1>5. CASE Start
  BY <1>4, <1>5 DEF Start
<1>6. ASSUME NEW c \in Stoppers, Stop(c) \/ StopReturn(c) PROVE Emptied'
  BY <1>4, <1>6 DEF Stop, StopReturn
<1>7. ASSUME NEW c \in Callers,
             PeerOp(c) \/ PeerOpQuit(c) \/ RecvPeerOp(c) \/ SendPeerOpDone(c)
      PROVE  Emptied'
  BY <1>4, <1>7 DEF PeerOp, PeerOpQuit, RecvPeerOp, SendPeerOpDone
<1>8. ASSUME NEW n \in IDs, RecvConn(n) \/ RecvDisc(n) PROVE Emptied'
  BY <1>4, <1>8 DEF RecvConn, RecvDisc
<1>9. CASE SendCheckpoint \/ DisconnectReturn \/ RecvQuit \/ QuitDisconnected
  BY <1>4, <1>9 DEF SendCheckpoint, DisconnectReturn, RecvQuit, QuitDisconnected
<1>10. ASSUME NEW r \in Refs,
              QuitDisconnect(r) \/ PeerLeave(r) \/ PeerClose(r) \/ PeerJoin(r)
              \/ PeerHold(r) \/ PeerRelease(r)
       PROVE  Emptied'
  BY <1>4, <1>10 DEF QuitDisconnect, PeerLeave, PeerClose, PeerJoin,
                    PeerHold, PeerRelease, PeerMove
<1>11. CASE DiscoverStep \/ UNCHANGED vars
  BY <1>4, <1>11 DEF DiscoverStep, vars, svars
<1> QED
  BY <1>1, <1>2, <1>3, <1>5, <1>6, <1>7, <1>8, <1>9, <1>10, <1>11 DEF Next

(***************************************************************************)
(* The four parts about the run loop hold together with Inv in every       *)
(* reachable state.                                                        *)
(***************************************************************************)
LEMMA LoopInvariance == Safety => [](Inv /\ LoopInv)
<1>1. Init => LoopInv
  <2> SUFFICES ASSUME Init PROVE LoopInv
    OBVIOUS
  <2>1. Connected = {}
    BY DEF Init, Connected
  <2> QED
    BY <2>1 DEF Init, DInit, LoopInv, HomeFirst, HomeKnown, OpPairing, Emptied
<1>2. Inv /\ LoopInv /\ [Next]_vars => LoopInv'
  BY ServerStepsDiscover, HomeStep, HomeKnownStep, OpPairingStep, EmptiedStep
     DEF LoopInv
<1> QED
  BY <1>1, <1>2, InitInv, NextInv, PTL DEF Safety

(***************************************************************************)
(* The home node is known to the server whenever a peer is waiting to be   *)
(* made or exists (newPeer and runPeer dereference srv.homenode).          *)
(***************************************************************************)
THEOREM HomeKnownHolds == Safety => []HomeKnown
<1>1. LoopInv => HomeKnown
  BY DEF LoopInv
<1> QED
  BY <1>1, LoopInvariance, PTL

(***************************************************************************)
(* The completion signal of Peers and PeerCount always has its one         *)
(* receiver, whatever Stop does meanwhile (run's case peerOp).             *)
(***************************************************************************)
THEOREM OpPairingHolds == Safety => []OpPairing
<1>1. LoopInv => OpPairing
  BY DEF LoopInv
<1> QED
  BY <1>1, LoopInvariance, PTL

(***************************************************************************)
(* Server.Stop blocks until all peers have gone (loopWG.Wait, and the      *)
(* spin-down of run behind it).                                            *)
(***************************************************************************)
THEOREM StopWaitsHolds == Safety => StopWaits
<1> DEFINE A == \A c \in Stoppers : StopReturn(c) => \A r \in Refs : life[r] = "free"
<1>1. ASSUME Inv, LoopInv PROVE A
  <2> SUFFICES ASSUME srv = "done", NEW r \in Refs PROVE life[r] = "free"
    BY DEF StopReturn
  <2>1. Connected = {}
    BY <1>1 DEF LoopInv, Emptied
  <2> QED
    BY <1>1, <2>1, ServerAssumption DEF Inv, Ownership, Connected
<1>2. Safety => [][A]_vars
  <2> HIDE DEF A
  <2> QED
    BY <1>1, LoopInvariance, PTL
<1> QED
  BY <1>2 DEF StopWaits

(***************************************************************************)
(* The server composed with its discovery goroutine is a behaviour of      *)
(* Discover on its own, so what is proved of Discover (Accounting,         *)
(* OnlyRelayed, Alternation) holds in the server.                          *)
(***************************************************************************)
THEOREM ServerRunsDiscover == Safety => DSafety
<1>1. Init => DInit
  BY DEF Init
<1> QED
  BY <1>1, ServerStepsDiscover, PTL DEF Safety, DSafety

=============================================================================
