------------------------------- MODULE Server -------------------------------
(***************************************************************************)
(* The p2p server (p2p/server.go) composed with its discovery goroutine:   *)
(* the run loop, the goroutines of the peers it starts, the goroutines     *)
(* that call Peers and PeerCount, and the ones that call Stop.             *)
(*                                                                         *)
(* discover.Conn, discover.Disc, peerOp, peerOpDone and delpeer are        *)
(* unbuffered, so a receive of the run loop is one step with the send it   *)
(* meets.  checkpointAddPeer is buffered, and the run loop is both its     *)
(* only sender and its only receiver.                                      *)
(***************************************************************************)
EXTENDS Discover

CONSTANTS MaxPeers,   \* Config.MaxPeers
          Refs,       \* *Peer objects; one is used again once its goroutine ended
          Callers,    \* goroutines calling Peers or PeerCount
          Stoppers,   \* goroutines calling Stop
          NoRef,      \* a missing entry of the map peers
          NoNode      \* no node

ASSUME ServerAssumption ==
    /\ MaxPeers \in Nat
    /\ IsFiniteSet(IDs)
    /\ NoRef \notin Refs
    /\ NoNode \notin IDs

VARIABLES
    srv,         \* where run is: "off", "select", "opdone", "checkpoint",
                 \*   "disconnect", "quitting", "waiting", "discstop", "done"
    cur,         \* the node the current case of the select is about
    running,     \* srv.running
    quit,        \* the channel quit is closed
    checkpoint,  \* contents of the channel checkpointAddPeer
    peers,       \* the map peers, from node id to peer object
    life,        \* the state of each peer object, see module PeerLife
    pnode,       \* the node each peer object was made for
    homenode,    \* srv.homenode is set
    todo,        \* peers the spin-down still has to disconnect
    opc,         \* callers of Peers/PeerCount: "idle", "select", "wait"
    stopc        \* callers of Stop: "idle", "wait", "returned"

svars == <<srv, cur, running, quit, checkpoint, peers, life, pnode, homenode,
           todo, opc, stopc>>

vars == <<dvars, svars>>

Connected == {i \in IDs : peers[i] # NoRef}

NumPeers == Cardinality(Connected)

Init ==
    /\ DInit
    /\ srv = "off"
    /\ cur = NoNode
    /\ running = FALSE
    /\ quit = FALSE
    /\ checkpoint = << >>
    /\ peers = [i \in IDs |-> NoRef]
    /\ life = [r \in Refs |-> "free"]
    /\ pnode = [r \in Refs |-> NoNode]
    /\ homenode = FALSE
    /\ todo = {}
    /\ opc = [c \in Callers |-> "idle"]
    /\ stopc = [c \in Stoppers |-> "idle"]

-----------------------------------------------------------------------------
(* Calls from outside the run loop. *)

\* Start; a server is not started again after Stop.
Start ==
    /\ srv = "off"
    /\ DStart
    /\ running' = TRUE
    /\ srv' = "select"
    /\ UNCHANGED <<cur, quit, checkpoint, peers, life, pnode, homenode, todo,
                   opc, stopc>>

\* Stop, up to loopWG.Wait: the first caller closes quit, a later one finds
\* running unset and returns at once.
Stop(c) ==
    /\ srv # "off"
    /\ stopc[c] = "idle"
    /\ \/ /\ running
          /\ running' = FALSE
          /\ quit' = TRUE
          /\ stopc' = [stopc EXCEPT ![c] = "wait"]
       \/ /\ ~running
          /\ stopc' = [stopc EXCEPT ![c] = "returned"]
          /\ UNCHANGED <<running, quit>>
    /\ UNCHANGED <<srv, cur, checkpoint, peers, life, pnode, homenode, todo, opc>>
    /\ UNCHANGED dvars

\* loopWG.Wait returns once run has executed all its deferred calls.
StopReturn(c) ==
    /\ stopc[c] = "wait"
    /\ srv = "done"
    /\ stopc' = [stopc EXCEPT ![c] = "returned"]
    /\ UNCHANGED <<srv, cur, running, quit, checkpoint, peers, life, pnode,
                   homenode, todo, opc>>
    /\ UNCHANGED dvars

\* Peers and PeerCount: the caller waits in a select on peerOp and quit ...
PeerOp(c) ==
    /\ srv # "off"
    /\ opc[c] = "idle"
    /\ opc' = [opc EXCEPT ![c] = "select"]
    /\ UNCHANGED <<srv, cur, running, quit, checkpoint, peers, life, pnode,
                   homenode, todo, stopc>>
    /\ UNCHANGED dvars

\* variant: the caller also gives up while it waits for peerOpDone
CanGiveUpAny(c) == opc[c] # "idle" /\ quit

\* variant: the select has no case for quit
CanGiveUpNever(c) == FALSE

\* the case <-srv.quit of the callers' select
CanGiveUp(c) == opc[c] = "select" /\ quit

\* ... and gives up when the server was stopped.
PeerOpQuit(c) ==
    /\ CanGiveUp(c)
    /\ opc' = [opc EXCEPT ![c] = "idle"]
    /\ UNCHANGED <<srv, cur, running, quit, checkpoint, peers, life, pnode,
                   homenode, todo, stopc>>
    /\ UNCHANGED dvars

-----------------------------------------------------------------------------
(* The cases of the run loop's select. *)

\* case op := <-srv.peerOp, up to the send of the completion signal
RecvPeerOp(c) ==
    /\ srv = "select"
    /\ opc[c] = "select"
    /\ opc' = [opc EXCEPT ![c] = "wait"]
    /\ srv' = "opdone"
    /\ UNCHANGED <<cur, running, quit, checkpoint, peers, life, pnode, homenode,
                   todo, stopc>>
    /\ UNCHANGED dvars

\* srv.peerOpDone <- struct{}{}
SendPeerOpDone(c) ==
    /\ srv = "opdone"
    /\ opc[c] = "wait"
    /\ opc' = [opc EXCEPT ![c] = "idle"]
    /\ srv' = "select"
    /\ UNCHANGED <<cur, running, quit, checkpoint, peers, life, pnode, homenode,
                   todo, stopc>>
    /\ UNCHANGED dvars

\* variant: a node that already has a peer is not refused
RefusedFull(n) == NumPeers >= MaxPeers

\* the conditions under which a connected node is ignored
Refused(n) == NumPeers >= MaxPeers \/ peers[n] # NoRef

\* case n := <-srv.discover.Conn, up to the send on checkpointAddPeer
RecvConn(n) ==
    /\ srv = "select"
    /\ SendConn(n)
    /\ homenode' = (homenode \/ home)
    /\ \/ /\ Refused(n)
          /\ UNCHANGED <<srv, cur>>
       \/ /\ ~Refused(n)
          /\ srv' = "checkpoint"
          /\ cur' = n
    /\ UNCHANGED <<running, quit, checkpoint, peers, life, pnode, todo, opc, stopc>>

\* variant: a buffer of two nodes
CheckpointCapTwo == 2

\* the capacity of checkpointAddPeer
CheckpointCap == 1

\* srv.checkpointAddPeer <- n: blocks while the buffer is full
SendCheckpoint ==
    /\ srv = "checkpoint"
    /\ Len(checkpoint) < CheckpointCap
    /\ checkpoint' = Append(checkpoint, cur)
    /\ cur' = NoNode
    /\ srv' = "select"
    /\ UNCHANGED <<running, quit, peers, life, pnode, homenode, todo, opc, stopc>>
    /\ UNCHANGED dvars

\* case n := <-srv.discover.Disc, up to the call of Disconnect
RecvDisc(n) ==
    /\ srv = "select"
    /\ SendDisc(n)
    /\ \/ /\ peers[n] = NoRef
          /\ UNCHANGED <<srv, cur>>
       \/ /\ peers[n] # NoRef
          /\ srv' = "disconnect"
          /\ cur' = n
    /\ UNCHANGED <<running, quit, checkpoint, peers, life, pnode, homenode, todo,
                   opc, stopc>>

\* variant: the select of Disconnect has no case for closed
DisconnectDiscOnly(r) ==
    life[r] = "running" /\ life' = [life EXCEPT ![r] = "closing"]

\* Peer.Disconnect: hand the reason to the peer's run loop, or find closed
\* closed; the call blocks while the peer is between the two.
Disconnect(r) ==
    \/ life[r] = "running" /\ life' = [life EXCEPT ![r] = "closing"]
    \/ life[r] \in {"closed", "held", "ended"} /\ UNCHANGED life

DisconnectReturn ==
    /\ srv = "disconnect"
    /\ Disconnect(peers[cur])
    /\ srv' = "select"
    /\ cur' = NoNode
    /\ UNCHANGED <<running, quit, checkpoint, peers, pnode, homenode, todo, opc, stopc>>
    /\ UNCHANGED dvars

\* case n := <-srv.checkpointAddPeer: addPeerChecks accepts every node
RecvCheckpoint(r) ==
    /\ srv = "select"
    /\ checkpoint # << >>
    /\ life[r] = "free"
    /\ checkpoint' = Tail(checkpoint)
    /\ peers' = [peers EXCEPT ![Head(checkpoint)] = r]
    /\ life' = [life EXCEPT ![r] = "running"]
    /\ pnode' = [pnode EXCEPT ![r] = Head(checkpoint)]
    /\ UNCHANGED <<srv, cur, running, quit, homenode, todo, opc, stopc>>
    /\ UNCHANGED dvars

\* variant: the entry is not deleted
DelPeerKeepsEntry(r) ==
    /\ life[r] = "ended"
    /\ life' = [life EXCEPT ![r] = "free"]
    /\ pnode' = [pnode EXCEPT ![r] = NoNode]
    /\ UNCHANGED peers

\* a receive from delpeer: the map entry of the peer's node is deleted
DelPeer(r) ==
    /\ life[r] = "ended"
    /\ life' = [life EXCEPT ![r] = "free"]
    /\ peers' = [peers EXCEPT ![pnode[r]] = NoRef]
    /\ pnode' = [pnode EXCEPT ![r] = NoNode]

\* case pd := <-srv.delpeer
RecvDelPeer(r) ==
    /\ srv = "select"
    /\ DelPeer(r)
    /\ UNCHANGED <<srv, cur, running, quit, checkpoint, homenode, todo, opc, stopc>>
    /\ UNCHANGED dvars

\* what "range peers" visits
ActivePeers == {peers[i] : i \in Connected}

\* case <-srv.quit
RecvQuit ==
    /\ srv = "select"
    /\ quit
    /\ srv' = "quitting"
    /\ todo' = ActivePeers
    /\ UNCHANGED <<cur, running, quit, checkpoint, peers, life, pnode, homenode,
                   opc, stopc>>
    /\ UNCHANGED dvars

-----------------------------------------------------------------------------
(* Spin-down: disconnect all peers, wait for them, stop the discovery. *)

QuitDisconnect(r) ==
    /\ srv = "quitting"
    /\ r \in todo
    /\ Disconnect(r)
    /\ todo' = todo \ {r}
    /\ UNCHANGED <<srv, cur, running, quit, checkpoint, peers, pnode, homenode,
                   opc, stopc>>
    /\ UNCHANGED dvars

QuitDisconnected ==
    /\ srv = "quitting"
    /\ todo = {}
    /\ srv' = "waiting"
    /\ UNCHANGED <<cur, running, quit, checkpoint, peers, life, pnode, homenode,
                   todo, opc, stopc>>
    /\ UNCHANGED dvars

\* variant: the loop ends while one peer is still in the map
DrainedOne == NumPeers <= 1

\* the condition that ends the loop over delpeer
Drained == NumPeers = 0

WaitDelPeer(r) ==
    /\ srv = "waiting"
    /\ ~Drained
    /\ DelPeer(r)
    /\ UNCHANGED <<srv, cur, running, quit, checkpoint, homenode, todo, opc, stopc>>
    /\ UNCHANGED dvars

\* run returns; its deferred calls close the database (which does nothing)
\* and call Discover.Stop
WaitDone ==
    /\ srv = "waiting"
    /\ Drained
    /\ StopSend
    /\ srv' = "discstop"
    /\ UNCHANGED <<cur, running, quit, checkpoint, peers, life, pnode, homenode,
                   todo, opc, stopc>>

\* Discover.Stop returns and loopWG.Done is called
RunDone ==
    /\ srv = "discstop"
    /\ StopWait
    /\ srv' = "done"
    /\ UNCHANGED <<cur, running, quit, checkpoint, peers, life, pnode, homenode,
                   todo, opc, stopc>>

-----------------------------------------------------------------------------
(* The goroutine of a peer, as PeerLife describes it. *)

PeerMove(r, from, to) ==
    /\ life[r] = from
    /\ life' = [life EXCEPT ![r] = to]
    /\ UNCHANGED <<srv, cur, running, quit, checkpoint, peers, pnode, homenode,
                   todo, opc, stopc>>
    /\ UNCHANGED dvars

PeerLeave(r) == PeerMove(r, "running", "closing")   \* error, timeout, protocol end
PeerClose(r) ==                                     \* close(p.closed)
    \E to \in {"closed", "held"} : PeerMove(r, "closing", to)
PeerJoin(r)  == PeerMove(r, "closed", "ended")      \* p.wg.Wait returns

\* A read loop that was still subscribing gets its subscription, which run
\* will not close any more: the wait group waits until the read loop ends ...
PeerHold(r) == PeerMove(r, "closed", "held")

\* ... because a message came in or the daemon dropped the subscription.
PeerRelease(r) == PeerMove(r, "held", "closed")

\* the steps of the discovery goroutine that do not meet the run loop
DiscoverStep ==
    /\ \/ Begin
       \/ \E selfOK \in BOOLEAN, swarm \in SUBSET Conns : Tick(selfOK, swarm)
       \/ RoundEnd
       \/ QuitRecv
    /\ UNCHANGED svars

Next ==
    \/ Start
    \/ \E c \in Stoppers : Stop(c) \/ StopReturn(c)
    \/ \E c \in Callers : PeerOp(c) \/ PeerOpQuit(c) \/ RecvPeerOp(c) \/ SendPeerOpDone(c)
    \/ \E n \in IDs : RecvConn(n) \/ RecvDisc(n)
    \/ SendCheckpoint
    \/ DisconnectReturn
    \/ \E r \in Refs : RecvCheckpoint(r) \/ RecvDelPeer(r)
    \/ RecvQuit
    \/ \E r \in Refs : QuitDisconnect(r) \/ WaitDelPeer(r)
    \/ QuitDisconnected
    \/ WaitDone
    \/ RunDone
    \/ \E r \in Refs : PeerLeave(r) \/ PeerClose(r) \/ PeerJoin(r)
    \/ \E r \in Refs : PeerHold(r) \/ PeerRelease(r)
    \/ DiscoverStep

Safety == Init /\ [][Next]_vars

(***************************************************************************)
(* Fairness.  A runnable goroutine eventually runs: weak fairness of the   *)
(* steps that are not a choice.  A select takes a random ready case and    *)
(* the senders waiting on a channel are served in order: strong fairness   *)
(* of the run loop's cases quit, delpeer and peerOp; nothing below depends *)
(* on the other three.  Nothing forces an event from outside: a tick's     *)
(* answer, a call, a peer that stops by itself, or the message that would  *)
(* release a held peer.  That a closed peer which is not held for ever     *)
(* joins is what module Peer's PeerEnds shows, in a process that the race  *)
(* on subChans did not abort.                                              *)
(***************************************************************************)
Fairness ==
    /\ SF_vars(RecvQuit)
    /\ \A r \in Refs : SF_vars(RecvDelPeer(r))
    /\ \A c \in Callers : SF_vars(RecvPeerOp(c)) /\ WF_vars(PeerOpQuit(c))
    /\ WF_vars(\E c \in Callers : SendPeerOpDone(c))
    /\ WF_vars(SendCheckpoint)
    /\ WF_vars(DisconnectReturn)
    /\ WF_vars(\E r \in Refs : QuitDisconnect(r))
    /\ WF_vars(QuitDisconnected)
    /\ WF_vars(\E r \in Refs : WaitDelPeer(r))
    /\ WF_vars(WaitDone)
    /\ WF_vars(RunDone)
    /\ \A c \in Stoppers : WF_vars(StopReturn(c))
    /\ \A r \in Refs : WF_vars(PeerClose(r)) /\ SF_vars(PeerJoin(r))
    /\ WF_vars(Begin /\ UNCHANGED svars)
    /\ WF_vars(RoundEnd /\ UNCHANGED svars)
    /\ SF_vars(QuitRecv /\ UNCHANGED svars)

Spec == Safety /\ Fairness

-----------------------------------------------------------------------------
STypeOK ==
    /\ srv \in {"off", "select", "opdone", "checkpoint", "disconnect", "quitting",
                "waiting", "discstop", "done"}
    /\ cur \in IDs \cup {NoNode}
    /\ running \in BOOLEAN
    /\ quit \in BOOLEAN
    /\ checkpoint \in Seq(IDs) /\ Len(checkpoint) <= CheckpointCap
    /\ peers \in [IDs -> Refs \cup {NoRef}]
    /\ life \in [Refs -> {"free", "running", "closing", "closed", "held", "ended"}]
    /\ pnode \in [Refs -> IDs \cup {NoNode}]
    /\ homenode \in BOOLEAN
    /\ todo \subseteq Refs
    /\ opc \in [Callers -> {"idle", "select", "wait"}]
    /\ stopc \in [Stoppers -> {"idle", "wait", "returned"}]

TypeOK == DTypeOK /\ STypeOK

(***************************************************************************)
(* The map peers never exceeds MaxPeers, although the limit is tested when *)
(* Conn is received and the peer is added a turn of the loop later, when   *)
(* the node comes back through checkpointAddPeer: the pending node counts. *)
(***************************************************************************)
Capacity == NumPeers + Len(checkpoint) <= MaxPeers

(***************************************************************************)
(* A peer whose goroutines exist owns the entry of its node in peers, and  *)
(* the entry of a node is a peer made for it that is not finished: no live *)
(* peer is overwritten, or deleted from the map by the late drop of an     *)
(* older peer of the same node (run's cases checkpointAddPeer, delpeer).   *)
(***************************************************************************)
Ownership ==
    /\ \A r \in Refs : life[r] # "free" =>
            pnode[r] \in IDs /\ peers[pnode[r]] = r
    /\ \A i \in Connected : life[peers[i]] # "free" /\ pnode[peers[i]] = i

(***************************************************************************)
(* srv.homenode, which newPeer and runPeer dereference, is set whenever a  *)
(* peer is waiting to be made or exists: the discovery knows the home node *)
(* before it reports anything.                                             *)
(***************************************************************************)
HomeKnown ==
    (srv = "checkpoint" \/ checkpoint # << >> \/ Connected # {}) => homenode

(***************************************************************************)
(* run hands its completion signal to the caller whose operation it ran:   *)
(* it waits in peerOpDone <- exactly when one caller of Peers or PeerCount *)
(* waits for it, so neither waits for a partner that left through quit.    *)
(***************************************************************************)
OpPairing ==
    /\ srv = "opdone" <=> \E c \in Callers : opc[c] = "wait"
    /\ \A c, d \in Callers : opc[c] = "wait" /\ opc[d] = "wait" => c = d

(***************************************************************************)
(* A call of Stop that waited for the run loop returns only when every     *)
(* peer has gone through all of its life and its drop was received ("It    *)
(* blocks until all active subscriptions have been closed"): a peer that   *)
(* was in the checkpoint channel at quit is not made, one that was added   *)
(* just before is waited for.  A call that found running unset returns     *)
(* without that promise (Stop, run after its loop).                        *)
(***************************************************************************)
StopWaits ==
    [][\A c \in Stoppers : StopReturn(c) => \A r \in Refs : life[r] = "free"]_vars

-----------------------------------------------------------------------------
(* The run loop sends to itself: nobody else drains checkpointAddPeer. *)
SelfBlocked == srv = "checkpoint" /\ Len(checkpoint) = CheckpointCap

(* Discover.Stop waits for a goroutine that waits for the run loop to receive. *)
DiscoverBlocked == srv = "discstop" /\ dpc = "notify" /\ discs \cup conns # {}

(* the peer of node i left its loop, or Disconnect is about to make it leave *)
Leaving(i) == /\ peers[i] # NoRef
              /\ life[peers[i]] # "running" \/ (srv = "disconnect" /\ cur = i)

(* the peer of node i waits for a subscription that nobody closes *)
PeerHeld(i) == peers[i] # NoRef /\ life[peers[i]] = "held"

(* run waits in its last loop for held peers and for no other. *)
PeersHeld ==
    srv = "waiting" /\ Connected # {} /\ \A i \in Connected : PeerHeld(i)

(***************************************************************************)
(* A stopped server ends, or one of three things keeps it from ending: run *)
(* is blocked on its own checkpoint channel, Discover.Stop waits for a     *)
(* discovery goroutine that is still sending a notification, or run waits  *)
(* for ever for the drop of peers that are held by a subscription.  There  *)
(* is no fourth (Stop, run, Discover.Stop).                                *)
(***************************************************************************)
StopOutcome ==
    <>[](quit /\ srv # "done" /\ ~SelfBlocked /\ ~DiscoverBlocked) => <>[]PeersHeld

(***************************************************************************)
(* A peer that is disconnected, or leaves by itself, ends and the entry of *)
(* its node is freed, unless run blocked itself or the peer is held for    *)
(* ever by a subscription: Disconnect returns, and the drop is received    *)
(* (run's cases discover.Disc and delpeer, and its last loop).             *)
(***************************************************************************)
DisconnectCompletes ==
    \A i \in IDs : <>[](Leaving(i) /\ ~SelfBlocked) => <>[]PeerHeld(i)

(***************************************************************************)
(* Peers and PeerCount return, whatever the server does meanwhile, unless  *)
(* run blocked itself before the server was stopped.                       *)
(***************************************************************************)
OpsReturn == \A c \in Callers : []<>(opc[c] = "idle" \/ SelfBlocked)

-----------------------------------------------------------------------------
(* Statements of the source that the code does not meet: TLC refutes them. *)

(***************************************************************************)
(* "Stop terminates the server": once quit is closed, run returns          *)
(* (comment on Server.Stop).                                               *)
(***************************************************************************)
StopTerminates == quit ~> (srv = "done")

(***************************************************************************)
(* When the network is gone the discovery reports every node on Disc in    *)
(* order to "disconnect all active peers" (comment in discover): with all  *)
(* notifications handled and no node pending, no peer runs for a node that *)
(* was reported as gone.                                                   *)
(***************************************************************************)
GoneNodesHaveNoPeer ==
    (srv = "select" /\ checkpoint = << >>)
        => \A r \in Refs : life[r] = "running" => pnode[r] \in told

=============================================================================
