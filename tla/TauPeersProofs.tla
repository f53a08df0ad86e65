--------------------------- MODULE TauPeersProofs ----------------------------
(***************************************************************************)
(* Proofs about module TauPeers, for any number of peers, any shortening   *)
(* of their ids and any limit: typing, that an entry of the set belongs to *)
(* the handler that made it, that nothing in a closed set is still         *)
(* running, and by how much the set may exceed its limit.                  *)
(*                                                                         *)
(* The invariant adds three facts to the properties.  HandlerLife: a       *)
(* handler exists exactly while its peer does.  Closing: while Close holds *)
(* the lock, the peers it has visited have left their loop.  Room: a       *)
(* handler that passed the test of the limit and was not overtaken since   *)
(* still finds room.                                                       *)
(***************************************************************************)
EXTENDS TauPeers, FiniteSetTheorems, TLAPS

HandlerLife ==
    \A p \in Peers : /\ life[p] = "free" <=> hpc[p] = "off"
                     /\ life[p] = "ended" => hpc[p] = "done"

(***************************************************************************)
(* removePeer finds the peer of its own handler, although it goes by the   *)
(* shortened id.                                                           *)
(***************************************************************************)
FoundOwn ==
    \A p \in Peers : hpc[p] \in {"unregister", "disconnect"} => found[p] = p

Closing ==
    /\ closed => cpc = "done" /\ \A p \in Registered : life[p] # "running"
    /\ cpc = "range" => \A p \in Registered \ todo : life[p] # "running"

Room ==
    \A p \in Peers : hpc[p] = "register" /\ p \notin overtaken =>
        Cardinality(Registered) < maxPeers

TInv == TypeOK /\ HandlerLife /\ EntryOwned /\ FoundOwn
SetInv == TInv /\ Closing /\ LimitUnlessOvertaken /\ Room

-----------------------------------------------------------------------------
(***************************************************************************)
(* Disconnect makes a running peer leave its loop and does nothing else.   *)
(***************************************************************************)
LEMMA DisconnectStep ==
    ASSUME TypeOK, NEW q, Disconnect(q)
    PROVE  /\ life' \in [Peers -> {"free", "running", "closing", "closed", "ended"}]
           /\ \A p \in Peers : \/ life'[p] = life[p]
                               \/ life[p] = "running" /\ life'[p] = "closing"
           /\ q \in Peers => life'[q] # "running"
BY DEF TypeOK, Disconnect, LifeStep

(***************************************************************************)
(* Register makes one entry, in a place that was free.                     *)
(***************************************************************************)
LEMMA RegisterSet ==
    ASSUME TInv, NEW p \in Peers, Register(p)
    PROVE  Registered' = Registered \cup {p} /\ p \notin Registered
<1>1. /\ Id \in [Peers -> Ids] /\ NoPeer \notin Peers
      /\ peers \in [Ids -> Peers \cup {NoPeer}]
      /\ peers[Id[p]] = NoPeer /\ peers' = [peers EXCEPT ![Id[p]] = p]
  BY TauAssumption DEF TInv, TypeOK, Register, Refuses
<1>2. \A q \in Peers : peers'[Id[q]] = IF Id[q] = Id[p] THEN p ELSE peers[Id[q]]
  BY <1>1
<1> QED
  BY <1>1, <1>2 DEF Registered

(***************************************************************************)
(* Unregister takes away the caller's own entry: that of another peer with *)
(* the same shortened id is not there.                                     *)
(***************************************************************************)
LEMMA UnregisterSet ==
    ASSUME TInv, NEW p \in Peers, Unregister(p)
    PROVE  Registered' = Registered \ {p} /\ p \in Registered
<1>1. /\ Id \in [Peers -> Ids] /\ NoPeer \notin Peers
      /\ peers \in [Ids -> Peers \cup {NoPeer}]
      /\ peers' = [peers EXCEPT ![Id[p]] = NoPeer]
  BY TauAssumption DEF TInv, TypeOK, Unregister
<1>2. p \in Registered /\ peers[Id[p]] = p
  BY DEF TInv, EntryOwned, Unregister, Move, Registered
<1>3. \A q \in Peers : peers'[Id[q]] = IF Id[q] = Id[p] THEN NoPeer ELSE peers[Id[q]]
  BY <1>1
<1> QED
  BY <1>1, <1>2, <1>3 DEF Registered

(***************************************************************************)
(* Every step keeps the types, the handlers with their peers, and the      *)
(* entries with their handlers.                                            *)
(***************************************************************************)
LEMMA TInvStep == TInv /\ [Next]_vars => TInv'
<1> SUFFICES ASSUME TInv, [Next]_vars PROVE TInv'
  OBVIOUS
<1>0. TypeOK /\ HandlerLife /\ EntryOwned /\ FoundOwn
  BY DEF TInv
<1> USE DEF TInv
<1>1. ASSUME NEW p \in Peers, Begin(p) PROVE TInv'
  <2>1. hpc[p] = "off" /\ peers' = peers /\ found' = found
    BY <1>0, <1>1 DEF Begin, LifeStep, HandlerLife
  <2>2. TypeOK'
    BY <1>0, <1>1 DEF TypeOK, Begin, LifeStep
  <2> QED
    BY <1>0, <1>1, <2>1, <2>2 DEF TypeOK, Begin, LifeStep, HandlerLife, EntryOwned, FoundOwn,
                                  Registered
<1>2. ASSUME NEW p \in Peers, Leave(p) \/ PeerClose(p) \/ Join(p) PROVE TInv'
  <2>1. UNCHANGED <<hpc, found, peers>>
    BY <1>2 DEF Leave, PeerClose, Join
  <2>2. TypeOK' /\ HandlerLife'
    BY <1>0, <1>2 DEF TypeOK, HandlerLife, Leave, PeerClose, Join, LifeStep
  <2> QED
    BY <1>0, <2>1, <2>2 DEF EntryOwned, FoundOwn, Registered
<1>3. ASSUME NEW p \in Peers, Drop(p) PROVE TInv'
  <2>1. hpc[p] = "done" /\ peers' = peers /\ found' = found
    BY <1>0, <1>3 DEF Drop, LifeStep, HandlerLife
  <2>2. TypeOK'
    BY <1>0, <1>3 DEF TypeOK, Drop, LifeStep
  <2> QED
    BY <1>0, <1>3, <2>1, <2>2 DEF TypeOK, Drop, LifeStep, HandlerLife, EntryOwned, FoundOwn,
                                  Registered
<1>4. ASSUME NEW p \in Peers, Limit(p) \/ RegisterFail(p) PROVE TInv'
  <2>1. /\ UNCHANGED <<life, found, peers, closed, cpc, todo, overtaken>>
        /\ hpc[p] \in {"len", "register"}
        /\ \E to \in {"done", "register"} : hpc' = [hpc EXCEPT ![p] = to]
    BY <1>4 DEF Limit, RegisterFail, Move
  <2>2. TypeOK' /\ HandlerLife' /\ FoundOwn'
    BY <1>0, <2>1 DEF TypeOK, HandlerLife, FoundOwn
  <2>3. EntryOwned'
    BY <1>0, <2>1 DEF TypeOK, EntryOwned, Registered
  <2> QED
    BY <2>2, <2>3
<1>5. ASSUME NEW p \in Peers, Register(p) PROVE TInv'
  <2>1. /\ UNCHANGED <<life, found, closed, cpc, todo>>
        /\ hpc[p] = "register" /\ hpc' = [hpc EXCEPT ![p] = "read"]
        /\ peers' = [peers EXCEPT ![Id[p]] = p]
        /\ overtaken' \subseteq Peers
    BY <1>0, <1>5 DEF Register, Move, TypeOK
  <2>2. TypeOK' /\ HandlerLife' /\ FoundOwn'
    BY <1>0, <2>1, TauAssumption DEF TypeOK, HandlerLife, FoundOwn
  <2>3. EntryOwned'
    BY <1>0, <1>5, <2>1, RegisterSet DEF TypeOK, EntryOwned
  <2> QED
    BY <2>2, <2>3
<1>6. ASSUME NEW p \in Peers, ReadErr(p) PROVE TInv'
  <2>1. TypeOK' /\ HandlerLife' /\ FoundOwn'
    BY <1>0, <1>6 DEF ReadErr, Move, TypeOK, HandlerLife, FoundOwn
  <2>2. EntryOwned'
    BY <1>0, <1>6 DEF ReadErr, Move, TypeOK, EntryOwned, Registered
  <2> QED
    BY <2>1, <2>2
<1>7. ASSUME NEW p \in Peers, Lookup(p) PROVE TInv'
  <2>1. peers[Id[p]] = p /\ p # NoPeer
    BY <1>0, <1>7, TauAssumption DEF Lookup, Move, EntryOwned, Registered
  <2>2. /\ UNCHANGED <<life, peers, closed, cpc, todo, overtaken>>
        /\ hpc[p] = "lookup" /\ hpc' = [hpc EXCEPT ![p] = "unregister"]
        /\ found' = [found EXCEPT ![p] = p]
    BY <1>7, <2>1 DEF Lookup, Move
  <2>3. TypeOK' /\ HandlerLife' /\ FoundOwn'
    BY <1>0, <2>2 DEF TypeOK, HandlerLife, FoundOwn
  <2>4. EntryOwned'
    BY <1>0, <2>2 DEF TypeOK, EntryOwned, Registered
  <2> QED
    BY <2>3, <2>4
<1>8. ASSUME NEW p \in Peers, Unregister(p) PROVE TInv'
  <2>1. /\ UNCHANGED <<life, found, closed, cpc, todo, overtaken>>
        /\ hpc[p] = "unregister" /\ hpc' = [hpc EXCEPT ![p] = "disconnect"]
        /\ peers' = [peers EXCEPT ![Id[p]] = NoPeer]
    BY <1>8 DEF Unregister, Move
  <2>2. TypeOK' /\ HandlerLife' /\ FoundOwn'
    BY <1>0, <2>1 DEF TypeOK, HandlerLife, FoundOwn
  <2>3. EntryOwned'
    BY <1>0, <1>8, <2>1, UnregisterSet DEF TypeOK, EntryOwned
  <2> QED
    BY <2>2, <2>3
<1>9. ASSUME NEW p \in Peers, HardDisconnect(p) PROVE TInv'
  <2>1. /\ UNCHANGED <<peers, closed, cpc, todo, overtaken>>
        /\ hpc[p] = "disconnect" /\ hpc' = [hpc EXCEPT ![p] = "done"]
        /\ found' = [found EXCEPT ![p] = NoPeer]
        /\ Disconnect(found[p])
    BY <1>9 DEF HardDisconnect, Move
  <2>2. TypeOK' /\ HandlerLife' /\ FoundOwn'
    BY <1>0, <2>1, DisconnectStep DEF TypeOK, HandlerLife, FoundOwn
  <2>3. EntryOwned'
    BY <1>0, <2>1 DEF TypeOK, EntryOwned, Registered
  <2> QED
    BY <2>2, <2>3
<1>10. ASSUME NEW p \in Peers, CloseDisc(p) PROVE TInv'
  <2>1. UNCHANGED <<hpc, found, peers, closed, cpc, overtaken>> /\ todo' = todo \ {p}
        /\ Disconnect(p)
    BY <1>10 DEF CloseDisc
  <2>2. TypeOK' /\ HandlerLife'
    BY <1>0, <2>1, DisconnectStep DEF TypeOK, HandlerLife
  <2> QED
    BY <1>0, <2>1, <2>2 DEF EntryOwned, FoundOwn, Registered
<1>11. CASE CloseBegin
  <2>1. UNCHANGED <<life, hpc, found, peers, closed, overtaken>>
        /\ cpc' = "range" /\ todo' \subseteq Peers
    BY <1>11 DEF CloseBegin, Visited, Registered
  <2> QED
    BY <1>0, <2>1 DEF TypeOK, HandlerLife, EntryOwned, FoundOwn, Registered
<1>12. CASE CloseEnd
  <2>1. UNCHANGED <<life, hpc, found, peers, todo, overtaken>> /\ cpc' = "done"
    BY <1>12 DEF CloseEnd
  <2>2. closed' \in BOOLEAN
    BY <1>12, Zenon DEF CloseEnd
  <2> QED
    BY <1>0, <2>1, <2>2 DEF TypeOK, HandlerLife, EntryOwned, FoundOwn, Registered
<1>13. CASE UNCHANGED vars
  BY <1>0, <1>13 DEF vars, TypeOK, HandlerLife, EntryOwned, FoundOwn, Registered
<1> QED
  BY <1>1, <1>2, <1>3, <1>4, <1>5, <1>6, <1>7, <1>8, <1>9, <1>10, <1>11, <1>12, <1>13
     DEF Next, Handler

-----------------------------------------------------------------------------
(***************************************************************************)
(* The set is finite.                                                      *)
(***************************************************************************)
LEMMA SetFinite == IsFiniteSet(Registered) /\ Cardinality(Registered) \in Nat
<1>1. Registered \in SUBSET Peers
  BY DEF Registered
<1> QED
  BY <1>1, TauAssumption, FS_Subset, FS_CardinalityType

(***************************************************************************)
(* A part of a finite set has no more elements than the set.               *)
(***************************************************************************)
LEMMA SubsetCount ==
    ASSUME NEW T, IsFiniteSet(T), NEW S \in SUBSET T
    PROVE  /\ IsFiniteSet(S) /\ Cardinality(S) \in Nat /\ Cardinality(T) \in Nat
           /\ Cardinality(S) <= Cardinality(T)
BY FS_Subset, FS_CardinalityType

(***************************************************************************)
(* A step that registers nobody keeps the limit, if the handlers that wait *)
(* to register did so before, or found room just now.                      *)
(***************************************************************************)
LEMMA LimitKept ==
    ASSUME LimitUnlessOvertaken, Room, Registered' \subseteq Registered,
           \A p \in Registered' : p \in overtaken => p \in overtaken',
           \A p \in Peers : hpc'[p] = "register" /\ p \notin overtaken' =>
               \/ hpc[p] = "register" /\ p \notin overtaken
               \/ Cardinality(Registered) < maxPeers
    PROVE  (LimitUnlessOvertaken /\ Room)'
<1>1. IsFiniteSet(Registered) /\ Cardinality(Registered) \in Nat /\ maxPeers \in Nat
  BY SetFinite, TauAssumption
<1>2. Cardinality(Registered') \in Nat /\ Cardinality(Registered') <= Cardinality(Registered)
  BY <1>1, SubsetCount
<1>3. Room'
  BY <1>1, <1>2 DEF Room
<1>4. Registered' \ overtaken' \subseteq Registered \ overtaken
  OBVIOUS
<1>5. IsFiniteSet(Registered \ overtaken)
  BY <1>1, SubsetCount
<1>6. /\ Cardinality(Registered' \ overtaken') \in Nat
      /\ Cardinality(Registered \ overtaken) \in Nat
      /\ Cardinality(Registered' \ overtaken') <= Cardinality(Registered \ overtaken)
  BY <1>4, <1>5, SubsetCount
<1>7. LimitUnlessOvertaken'
  BY <1>1, <1>6 DEF LimitUnlessOvertaken
<1> QED
  BY <1>3, <1>7

(***************************************************************************)
(* A registration keeps the limit: it found room, or it was overtaken, and *)
(* it overtakes all the others that have passed the test.                  *)
(***************************************************************************)
LEMMA LimitRegister ==
    ASSUME SetInv, NEW p \in Peers, Register(p)
    PROVE  (LimitUnlessOvertaken /\ Room)'
<1>0. TInv /\ LimitUnlessOvertaken /\ Room
  BY DEF SetInv
<1>1. Registered' = Registered \cup {p} /\ p \notin Registered
  BY <1>0, RegisterSet
<1>2. /\ hpc[p] = "register" /\ hpc' = [hpc EXCEPT ![p] = "read"]
      /\ overtaken' = overtaken \cup {q \in Peers \ {p} : hpc[q] = "register"}
  BY DEF Register, Move
<1>3. Room'
  BY <1>0, <1>2 DEF Room, TInv, TypeOK
<1>4. CASE p \in overtaken
  <2>1. Registered' \ overtaken' \in SUBSET (Registered \ overtaken)
    BY <1>1, <1>2, <1>4
  <2>2. IsFiniteSet(Registered \ overtaken)
    BY SetFinite, SubsetCount
  <2>3. /\ Cardinality(Registered' \ overtaken') \in Nat
        /\ Cardinality(Registered \ overtaken) \in Nat
        /\ Cardinality(Registered' \ overtaken') <= Cardinality(Registered \ overtaken)
    BY <2>1, <2>2, SubsetCount
  <2> QED
    BY <1>0, <1>3, <2>3, TauAssumption DEF LimitUnlessOvertaken
<1>5. CASE p \notin overtaken
  <2>1. Cardinality(Registered) < maxPeers
    BY <1>0, <1>2, <1>5 DEF Room
  <2>2. IsFiniteSet(Registered') /\ Cardinality(Registered') = Cardinality(Registered) + 1
    BY <1>1, SetFinite, FS_AddElement
  <2>3. Registered' \ overtaken' \in SUBSET Registered'
    OBVIOUS
  <2>4. /\ Cardinality(Registered' \ overtaken') \in Nat
        /\ Cardinality(Registered' \ overtaken') <= Cardinality(Registered')
    BY <2>2, <2>3, SubsetCount
  <2> QED
    BY <1>3, <2>1, <2>2, <2>4, SetFinite, TauAssumption DEF LimitUnlessOvertaken
<1> QED
  BY <1>4, <1>5

(***************************************************************************)
(* Every step keeps the limit.                                             *)
(***************************************************************************)
LEMMA LimitStep == SetInv /\ [Next]_vars => (LimitUnlessOvertaken /\ Room)'
<1> SUFFICES ASSUME SetInv, [Next]_vars PROVE (LimitUnlessOvertaken /\ Room)'
  OBVIOUS
<1>0. TInv /\ TypeOK /\ HandlerLife /\ EntryOwned /\ LimitUnlessOvertaken /\ Room
  BY DEF SetInv, TInv
<1>1. ASSUME UNCHANGED <<peers, overtaken>>,
             \A p \in Peers : hpc'[p] = "register" => hpc[p] = "register"
      PROVE  (LimitUnlessOvertaken /\ Room)'
  BY <1>0, <1>1, LimitKept DEF Registered
<1>2. ASSUME NEW p \in Peers, Begin(p) PROVE (LimitUnlessOvertaken /\ Room)'
  BY <1>0, <1>1, <1>2 DEF Begin, TypeOK
<1>3. ASSUME NEW p \in Peers, Leave(p) \/ PeerClose(p) \/ Join(p) \/ CloseDisc(p)
      PROVE  (LimitUnlessOvertaken /\ Room)'
  BY <1>0, <1>1, <1>3 DEF Leave, PeerClose, Join, CloseDisc
<1>4. ASSUME NEW p \in Peers, Drop(p) PROVE (LimitUnlessOvertaken /\ Room)'
  <2>1. /\ Registered' = Registered /\ overtaken' = overtaken \ {p}
        /\ hpc' = [hpc EXCEPT ![p] = "off"]
    BY <1>4 DEF Drop, Registered
  <2>2. p \notin Registered
    BY <1>0, <1>4 DEF Drop, LifeStep, HandlerLife, EntryOwned
  <2>3. \A q \in Peers : hpc'[q] = "register" => q # p /\ hpc[q] = "register"
    BY <1>0, <2>1 DEF TypeOK
  <2> QED
    BY <1>0, <2>1, <2>2, <2>3, LimitKept
<1>5. ASSUME NEW p \in Peers, Limit(p) PROVE (LimitUnlessOvertaken /\ Room)'
  <2>1. /\ Registered' = Registered /\ overtaken' = overtaken
        /\ hpc' = [hpc EXCEPT ![p] = IF Full THEN "done" ELSE "register"]
    BY <1>5 DEF Limit, Move, Registered
  <2>2. ~Full => Cardinality(Registered) < maxPeers
    BY SetFinite, TauAssumption DEF Full
  <2>3. \A q \in Peers : hpc'[q] = "register" =>
            hpc[q] = "register" \/ Cardinality(Registered) < maxPeers
    BY <1>0, <2>1, <2>2 DEF TypeOK
  <2> QED
    BY <1>0, <2>1, <2>3, LimitKept
<1>6. ASSUME NEW p \in Peers,
             RegisterFail(p) \/ ReadErr(p) \/ Lookup(p) \/ HardDisconnect(p)
      PROVE  (LimitUnlessOvertaken /\ Room)'
  BY <1>0, <1>1, <1>6 DEF RegisterFail, ReadErr, Lookup, HardDisconnect, Move, TypeOK
<1>7. ASSUME NEW p \in Peers, Register(p) PROVE (LimitUnlessOvertaken /\ Room)'
  BY <1>7, LimitRegister
<1>8. ASSUME NEW p \in Peers, Unregister(p) PROVE (LimitUnlessOvertaken /\ Room)'
  <2>1. Registered' \subseteq Registered
    BY <1>0, <1>8, UnregisterSet
  <2>2. overtaken' = overtaken /\ \A q \in Peers : hpc'[q] = "register" => hpc[q] = "register"
    BY <1>0, <1>8 DEF Unregister, Move, TypeOK
  <2> QED
    BY <1>0, <2>1, <2>2, LimitKept
<1>9. CASE CloseBegin \/ CloseEnd
  BY <1>1, <1>9 DEF CloseBegin, CloseEnd
<1>10. CASE UNCHANGED vars
  BY <1>1, <1>10 DEF vars
<1> QED
  BY <1>2, <1>3, <1>4, <1>5, <1>6, <1>7, <1>8, <1>9, <1>10 DEF Next, Handler

(***************************************************************************)
(* Every step keeps the visited peers out of their loop.                   *)
(***************************************************************************)
LEMMA ClosingStep == SetInv /\ [Next]_vars => Closing'
<1> SUFFICES ASSUME SetInv, [Next]_vars PROVE Closing'
  OBVIOUS
<1>0. TInv /\ TypeOK /\ HandlerLife /\ EntryOwned /\ Closing
  BY DEF SetInv, TInv
<1>1. ASSUME Registered' \subseteq Registered, UNCHANGED <<closed, cpc, todo>>,
             \A p \in Registered' : life'[p] = "running" => life[p] = "running"
      PROVE  Closing'
  BY <1>1, <1>0 DEF Closing
<1>2. ASSUME NEW p \in Peers, Begin(p) PROVE Closing'
  <2>1. p \notin Registered
    BY <1>0, <1>2 DEF Begin, LifeStep, HandlerLife, EntryOwned
  <2>2. Registered' = Registered /\ UNCHANGED <<closed, cpc, todo>>
        /\ \A q \in Peers \ {p} : life'[q] = life[q]
    BY <1>0, <1>2 DEF Begin, LifeStep, Registered, TypeOK
  <2> QED
    BY <1>1, <2>1, <2>2 DEF Registered
<1>3. ASSUME NEW p \in Peers, Leave(p) \/ PeerClose(p) \/ Join(p) \/ Drop(p)
      PROVE  Closing'
  <2>1. Registered' = Registered /\ UNCHANGED <<closed, cpc, todo>>
    BY <1>3 DEF Leave, PeerClose, Join, Drop, Registered
  <2>2. \A q \in Peers : life'[q] = "running" => life[q] = "running"
    BY <1>0, <1>3 DEF Leave, PeerClose, Join, Drop, LifeStep, TypeOK
  <2> QED
    BY <1>1, <2>1, <2>2 DEF Registered
<1>4. ASSUME NEW p \in Peers, Limit(p) \/ RegisterFail(p) \/ ReadErr(p) \/ Lookup(p)
      PROVE  Closing'
  <2>1. Registered' = Registered /\ UNCHANGED <<life, closed, cpc, todo>>
    BY <1>4 DEF Limit, RegisterFail, ReadErr, Lookup, Registered
  <2> QED
    BY <1>1, <2>1
<1>5. ASSUME NEW p \in Peers, Register(p) PROVE Closing'
  <2>1. cpc # "range" /\ closed # TRUE /\ closed' = closed /\ cpc' = cpc
    BY <1>5 DEF Register, Unlocked, Refuses
  <2> QED
    BY <1>0, <2>1 DEF Closing, TypeOK
<1>6. ASSUME NEW p \in Peers, Unregister(p) PROVE Closing'
  <2>1. Registered' \subseteq Registered /\ UNCHANGED <<life, closed, cpc, todo>>
    BY <1>0, <1>6, UnregisterSet DEF Unregister
  <2> QED
    BY <1>1, <2>1
<1>7. ASSUME NEW p \in Peers, HardDisconnect(p) PROVE Closing'
  <2>1. Registered' = Registered /\ UNCHANGED <<closed, cpc, todo>> /\ Disconnect(found[p])
    BY <1>7 DEF HardDisconnect, Registered
  <2>2. \A q \in Peers : life'[q] = "running" => life[q] = "running"
    BY <1>0, <2>1, DisconnectStep
  <2> QED
    BY <1>1, <2>1, <2>2 DEF Registered
<1>8. ASSUME NEW p \in Peers, CloseDisc(p) PROVE Closing'
  <2>1. Registered' = Registered /\ UNCHANGED <<closed, cpc>> /\ Disconnect(p)
        /\ todo' = todo \ {p} /\ cpc = "range"
    BY <1>8 DEF CloseDisc, Registered
  <2>2. life'[p] # "running" /\ \A q \in Peers : life'[q] = "running" => life[q] = "running"
    BY <1>0, <2>1, DisconnectStep
  <2>3. Registered \subseteq Peers
    BY DEF Registered
  <2> QED
    BY <1>0, <2>1, <2>2, <2>3 DEF Closing
<1>9. CASE CloseBegin
  <2>1. Registered' = Registered /\ todo' = Registered /\ closed' = closed
        /\ cpc = "idle" /\ cpc' = "range"
    BY <1>9 DEF CloseBegin, Visited, Registered
  <2> QED
    BY <1>0, <2>1 DEF Closing
<1>10. CASE CloseEnd
  <2>1. Registered' = Registered /\ life' = life /\ cpc = "range" /\ cpc' = "done"
        /\ todo = {}
    BY <1>10 DEF CloseEnd, Registered
  <2> QED
    BY <1>0, <2>1 DEF Closing
<1>11. CASE UNCHANGED vars
  <2>1. Registered' = Registered /\ UNCHANGED <<life, closed, cpc, todo>>
    BY <1>11 DEF vars, Registered
  <2> QED
    BY <1>1, <2>1
<1> QED
  BY <1>2, <1>3, <1>4, <1>5, <1>6, <1>7, <1>8, <1>9, <1>10, <1>11 DEF Next, Handler

(***************************************************************************)
(* The invariant holds in every reachable state.                           *)
(***************************************************************************)
LEMMA SetInvariance == Safety => []SetInv
<1>1. Init => SetInv
  <2> SUFFICES ASSUME Init PROVE SetInv
    OBVIOUS
  <2>1. closed \in BOOLEAN
    BY Zenon DEF Init
  <2>2. Registered = {}
    BY TauAssumption DEF Init, Registered
  <2>3. TInv
    BY <2>1, <2>2 DEF Init, TInv, TypeOK, HandlerLife, EntryOwned, FoundOwn
  <2>4. Cardinality(Registered \ overtaken) = 0
    BY <2>2, FS_EmptySet
  <2>5. LimitUnlessOvertaken
    BY <2>4, TauAssumption DEF LimitUnlessOvertaken
  <2> QED
    BY <2>2, <2>3, <2>5 DEF Init, SetInv, Closing, Room
<1>2. SetInv /\ [Next]_vars => SetInv'
  BY TInvStep, ClosingStep, LimitStep DEF SetInv
<1> QED
  BY <1>1, <1>2, PTL DEF Safety

(***************************************************************************)
(* The state of the peer set and its handlers is well typed.               *)
(***************************************************************************)
THEOREM TypeCorrect == Safety => []TypeOK
<1>1. SetInv => TypeOK
  BY DEF SetInv, TInv
<1> QED
  BY <1>1, SetInvariance, PTL

(***************************************************************************)
(* The set exceeds its limit by no more than the peers whose registration  *)
(* was overtaken after their test (handle, Len, Register).                 *)
(***************************************************************************)
THEOREM LimitHolds == Safety => []LimitUnlessOvertaken
<1>1. SetInv => LimitUnlessOvertaken
  BY DEF SetInv
<1> QED
  BY <1>1, SetInvariance, PTL

(***************************************************************************)
(* An entry is there exactly while the handler that made it is between     *)
(* Register and Unregister, also when two ids share their first eight      *)
(* bytes; and removePeer finds its own peer (handle, removePeer).          *)
(***************************************************************************)
THEOREM EntryOwnedHolds == Safety => []EntryOwned /\ []FoundOwn
<1>1. SetInv => EntryOwned /\ FoundOwn
  BY DEF SetInv, TInv
<1> QED
  BY <1>1, SetInvariance, PTL

(***************************************************************************)
(* After Close no peer of the set is in its loop, and none gets into the   *)
(* set again (peerSet.Close, Register).                                    *)
(***************************************************************************)
THEOREM CloseFinalHolds == Safety => []CloseFinal
<1>1. SetInv => CloseFinal
  <2> SUFFICES ASSUME SetInv, closed = TRUE, NEW p \in Registered
               PROVE  life[p] \in {"closing", "closed"}
    BY DEF CloseFinal, SetInv, TInv, TypeOK
  <2>1. p \in Peers /\ life[p] # "running"
    BY DEF SetInv, Closing, Registered
  <2>2. life[p] # "free" /\ life[p] # "ended"
    BY <2>1 DEF SetInv, TInv, EntryOwned, HandlerLife
  <2> QED
    BY <2>1, <2>2 DEF SetInv, TInv, TypeOK
<1> QED
  BY <1>1, SetInvariance, PTL

=============================================================================
