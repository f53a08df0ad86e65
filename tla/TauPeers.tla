------------------------------ MODULE TauPeers ------------------------------
(***************************************************************************)
(* The peer set of the tau protocol manager (tau/handler.go, tau/peer.go)  *)
(* with the protocol goroutine of each peer, which runs handle, and a      *)
(* caller of peerSet.Close.  The peers themselves are the abstract ones of *)
(* module PeerLife: run waits for the goroutine, and Disconnect is a       *)
(* rendezvous with its loop unless the peer is closed already.             *)
(*                                                                         *)
(* Every method of peerSet holds the set's lock for its whole length; only *)
(* Close waits while it holds it, so the others are one step each.         *)
(***************************************************************************)
EXTENDS Integers, FiniteSets

CONSTANTS Peers,      \* p2p.Peer objects
          Ids,        \* shortened ids
          Id,         \* peer.id: the first eight bytes of the peer's id
          maxPeers,   \* the limit tested by handle: 32
          NoPeer      \* nil

ASSUME TauAssumption ==
    /\ Id \in [Peers -> Ids]
    /\ maxPeers \in Nat /\ NoPeer \notin Peers /\ IsFiniteSet(Peers)

VARIABLES
    life,       \* the life of each peer, see PeerLife
    hpc,        \* where handle is: "off", "len", "register", "read", "lookup",
                \*   "unregister", "disconnect", "done"
    found,      \* the peer that removePeer looked up
    peers,      \* peerSet.peers
    closed,     \* peerSet.closed
    cpc,        \* the caller of Close: "idle", "range", "done"
    todo,       \* peers Close still has to disconnect
    overtaken   \* history: handlers that saw another register since their own test

vars == <<life, hpc, found, peers, closed, cpc, todo, overtaken>>

Init ==
    /\ life = [p \in Peers |-> "free"] /\ hpc = [p \in Peers |-> "off"]
    /\ found = [p \in Peers |-> NoPeer] /\ peers = [i \in Ids |-> NoPeer]
    /\ closed = FALSE /\ cpc = "idle" /\ todo = {} /\ overtaken = {}

Registered == {p \in Peers : peers[Id[p]] = p}

-----------------------------------------------------------------------------
(* The peers.  The loop of run may end for reasons of its own: the server, *)
(* a read or write error, another protocol.                                *)

LifeStep(p, from, to) == life[p] = from /\ life' = [life EXCEPT ![p] = to]

Begin(p) ==
    /\ LifeStep(p, "free", "running")
    /\ hpc' = [hpc EXCEPT ![p] = "len"]
    /\ UNCHANGED <<found, peers, closed, cpc, todo, overtaken>>

Leave(p) ==
    /\ LifeStep(p, "running", "closing")
    /\ UNCHANGED <<hpc, found, peers, closed, cpc, todo, overtaken>>

PeerClose(p) ==
    /\ LifeStep(p, "closing", "closed")
    /\ UNCHANGED <<hpc, found, peers, closed, cpc, todo, overtaken>>

\* wg.Wait returns once handle has
Join(p) ==
    /\ LifeStep(p, "closed", "ended")
    /\ hpc[p] = "done"
    /\ UNCHANGED <<hpc, found, peers, closed, cpc, todo, overtaken>>

\* the server drops the peer; the object stands for a new one
Drop(p) ==
    /\ LifeStep(p, "ended", "free")
    /\ hpc' = [hpc EXCEPT ![p] = "off"]
    /\ overtaken' = overtaken \ {p}
    /\ UNCHANGED <<found, peers, closed, cpc, todo>>

\* variant: there is no case for the channel closed
DisconnectOpen(p) == LifeStep(p, "running", "closing")

\* Peer.Disconnect: run receives the reason, or the channel closed is closed
Disconnect(p) ==
    \/ LifeStep(p, "running", "closing")
    \/ life[p] \in {"closed", "ended"} /\ UNCHANGED life

-----------------------------------------------------------------------------
(* handle, up to the point where the peer is in the set *)

Unlocked == cpc # "range"
Move(p, from, to) == hpc[p] = from /\ hpc' = [hpc EXCEPT ![p] = to]

\* variant: one more than the limit
FullOffByOne == Cardinality(Registered) > maxPeers

Full == Cardinality(Registered) >= maxPeers

\* peerSet.Len; DiscTooManyPeers ends the goroutine
Limit(p) ==
    /\ Unlocked
    /\ Move(p, "len", IF Full THEN "done" ELSE "register")
    /\ UNCHANGED <<life, found, peers, closed, cpc, todo, overtaken>>

\* variant: a closed set still accepts peers
RefusesKnown(p) == peers[Id[p]] # NoPeer

\* errClosed, errAlreadyRegistered
Refuses(p) == closed \/ peers[Id[p]] # NoPeer

\* variant: removePeer is deferred before Register
RegisterFailRemoves(p) ==
    /\ Unlocked
    /\ Refuses(p)
    /\ Move(p, "register", "lookup")
    /\ UNCHANGED <<life, found, peers, closed, cpc, todo, overtaken>>

\* peerSet.Register, before removePeer is deferred
RegisterFail(p) ==
    /\ Unlocked
    /\ Refuses(p)
    /\ Move(p, "register", "done")
    /\ UNCHANGED <<life, found, peers, closed, cpc, todo, overtaken>>

Register(p) ==
    /\ Unlocked
    /\ ~Refuses(p)
    /\ Move(p, "register", "read")
    /\ peers' = [peers EXCEPT ![Id[p]] = p]
    /\ overtaken' = overtaken \cup {q \in Peers \ {p} : hpc[q] = "register"}
    /\ UNCHANGED <<life, found, closed, cpc, todo>>

\* handleMsg fails: ReadMsg timed out, or the peer was closed.  A message
\* changes nothing here, and none arrives: MakeProtocol copies the topics
\* into a slice of length zero.
ReadErr(p) ==
    /\ Move(p, "read", "lookup")
    /\ UNCHANGED <<life, found, peers, closed, cpc, todo, overtaken>>

-----------------------------------------------------------------------------
(* removePeer *)

Lookup(p) ==
    /\ Unlocked
    /\ Move(p, "lookup", IF peers[Id[p]] = NoPeer THEN "done" ELSE "unregister")
    /\ found' = [found EXCEPT ![p] = peers[Id[p]]]
    /\ UNCHANGED <<life, peers, closed, cpc, todo, overtaken>>

Unregister(p) ==
    /\ Unlocked
    /\ Move(p, "unregister", "disconnect")
    /\ peers' = [peers EXCEPT ![Id[p]] = NoPeer]
    /\ UNCHANGED <<life, found, closed, cpc, todo, overtaken>>

\* "Hard disconnect at the networking layer", then handle returns
HardDisconnect(p) ==
    /\ Move(p, "disconnect", "done")
    /\ Disconnect(found[p])
    /\ found' = [found EXCEPT ![p] = NoPeer]
    /\ UNCHANGED <<peers, closed, cpc, todo, overtaken>>

-----------------------------------------------------------------------------
(* peerSet.Close *)

Visited == Registered

CloseBegin ==
    /\ cpc = "idle"
    /\ cpc' = "range"
    /\ todo' = Visited
    /\ UNCHANGED <<life, hpc, found, peers, closed, overtaken>>

CloseDisc(p) ==
    /\ cpc = "range" /\ p \in todo
    /\ Disconnect(p)
    /\ todo' = todo \ {p}
    /\ UNCHANGED <<hpc, found, peers, closed, cpc, overtaken>>

\* variant: the lock is given back when the last handler has gone
CloseEndWaits ==
    /\ cpc = "range" /\ todo = {}
    /\ \A p \in Registered : hpc[p] = "done"
    /\ closed' = TRUE
    /\ cpc' = "done"
    /\ UNCHANGED <<life, hpc, found, peers, todo, overtaken>>

CloseEnd ==
    /\ cpc = "range" /\ todo = {}
    /\ closed' = TRUE
    /\ cpc' = "done"
    /\ UNCHANGED <<life, hpc, found, peers, todo, overtaken>>

Handler(p) ==
    \/ Limit(p) \/ RegisterFail(p) \/ Register(p)
    \/ Lookup(p) \/ Unregister(p) \/ HardDisconnect(p)

Next ==
    \/ \E p \in Peers : \/ Begin(p) \/ Leave(p) \/ PeerClose(p) \/ Join(p) \/ Drop(p)
                        \/ Handler(p) \/ ReadErr(p) \/ CloseDisc(p)
    \/ CloseBegin \/ CloseEnd

Safety == Init /\ [][Next]_vars

(***************************************************************************)
(* Fairness.  Every goroutine that can run does; run receives the error of *)
(* a handler that returned; ReadMsg returns once the peer is closed.       *)
(* wg.Wait waits for the handler only: tau has no topics, so its peers     *)
(* have no read loop.  (One that runs forum as well can be held, see       *)
(* module PeerLife.)  Nothing forces a read to time out, a peer to begin   *)
(* or Close to be called.                                                  *)
(***************************************************************************)
Fairness ==
    /\ \A p \in Peers :
          /\ WF_vars(hpc[p] = "done" /\ Leave(p))
          /\ WF_vars(PeerClose(p)) /\ WF_vars(Join(p))
          /\ WF_vars(Handler(p))
          /\ WF_vars(life[p] = "closed" /\ ReadErr(p))
          /\ WF_vars(CloseDisc(p))
    /\ WF_vars(CloseEnd)

Spec == Safety /\ Fairness

-----------------------------------------------------------------------------
TypeOK ==
    /\ life \in [Peers -> {"free", "running", "closing", "closed", "ended"}]
    /\ hpc \in [Peers -> {"off", "len", "register", "read", "lookup", "unregister",
                          "disconnect", "done"}]
    /\ found \in [Peers -> Peers \cup {NoPeer}]
    /\ peers \in [Ids -> Peers \cup {NoPeer}]
    /\ closed \in BOOLEAN
    /\ cpc \in {"idle", "range", "done"}
    /\ todo \subseteq Peers
    /\ overtaken \subseteq Peers

(***************************************************************************)
(* handle tests the limit under one lock and registers under another.  The *)
(* set exceeds the limit by no more than the peers whose registration was  *)
(* overtaken by another one after their test (handle, Len, Register).      *)
(***************************************************************************)
LimitUnlessOvertaken == Cardinality(Registered \ overtaken) <= maxPeers

(***************************************************************************)
(* An entry is there exactly while the handler that made it is between     *)
(* Register and Unregister: none is left behind, and none is removed by    *)
(* the handler of another peer whose id has the same first eight bytes     *)
(* (handle's deferred removePeer, which goes by id).                       *)
(***************************************************************************)
EntryOwned ==
    \A p \in Peers : p \in Registered <=> hpc[p] \in {"read", "lookup", "unregister"}

(***************************************************************************)
(* "No new peers can be registered after Close has returned", and those    *)
(* that still are in the set are on their way out.                         *)
(***************************************************************************)
CloseFinal == closed => \A p \in Registered : life[p] \in {"closing", "closed"}

(***************************************************************************)
(* Close returns although it keeps the set locked while it waits for every *)
(* peer's loop, and the handlers of these peers wait for the lock.         *)
(***************************************************************************)
CloseReturns == (cpc = "range") ~> (cpc = "done")

(***************************************************************************)
(* A peer that is closing comes to its end: the tau handler never holds up *)
(* its wait group, whatever removePeer and Close wait for.                 *)
(***************************************************************************)
HandlersEnd == \A p \in Peers : (life[p] = "closing") ~> (life[p] = "ended")

=============================================================================
