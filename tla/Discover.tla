------------------------------ MODULE Discover ------------------------------
(***************************************************************************)
(* The discovery goroutine (p2p/discover/discover.go), its address filter  *)
(* (filter.go) and the node database it fills (p2p/tnode).                  *)
(*                                                                         *)
(* At every tick the goroutine asks the ipfs daemon which nodes the swarm  *)
(* is connected to, keeps the relayed ones, replaces the database and      *)
(* tells the listener first which nodes went away (channel Disc) and then  *)
(* which ones are new (channel Conn).  Both channels are unbuffered: a     *)
(* SendDisc or SendConn step is the send together with its receive.        *)
(***************************************************************************)
EXTENDS Integers, Sequences, FiniteSets

CONSTANTS Conns,      \* iface.ConnectionInfo values the swarm may report
          PrivateIPs  \* the address components isPrivateIP accepts

(***************************************************************************)
(* A multiaddr is written /proto/value/proto/..., so splitting it at "/"   *)
(* gives an empty first component and a protocol name in second place.     *)
(***************************************************************************)
ASSUME ConnsAssumption ==
    \A c \in Conns : /\ Len(c.addr) >= 2
                     /\ c.addr[1] = ""
                     /\ c.addr[2] \notin PrivateIPs

VARIABLES
    dpc,    \* where the goroutine is: "off", "spawned", "select", "notify", "returned"
    home,   \* DB.home is known
    nodes,  \* DB.nodes: the last snapshot, a map from node id to connection
    discs,  \* ids the current round still has to send on Disc
    conns,  \* ids the current round still has to send on Conn
    dquit,  \* number of tokens in the buffered channel quit
    dstop,  \* the goroutine that calls Stop: "idle", "wait", "done"
    told    \* history: the ids the listener was told are connected

dvars == <<dpc, home, nodes, discs, conns, dquit, dstop, told>>

IDs == {c.id : c \in Conns}

-----------------------------------------------------------------------------
(* filter.go *)

isP2pCircuit(c) == \E i \in DOMAIN c.addr : c.addr[i] = "p2p-circuit"

isPrivateIP(s) == s \in PrivateIPs

isPrivate(c) == Len(c.addr) >= 2 /\ isPrivateIP(c.addr[2])

\* variant: every connection of the swarm is wanted
FilterAll(swarm) == swarm

\* strings.Split counts from 0: its s[1] is the second component
Filter(swarm) == {c \in swarm : isP2pCircuit(c) \/ isPrivate(c)}

(* tnode/node.go and tnode/nodedb.go *)

\* When the swarm lists two connections to one node the later one wins.
MakeNodesMap(wanted) ==
    {m \in [{c.id : c \in wanted} -> wanted] : \A i \in DOMAIN m : m[i].id = i}

\* the nodes Choose returns as connected newly
Added(news) == DOMAIN news \ DOMAIN nodes

\* variant: Replace comes before Choose, so nothing ever looks removed
RemovedNone(news) == {}

\* the nodes Choose returns as disconnected
Removed(news) == DOMAIN nodes \ DOMAIN news

-----------------------------------------------------------------------------
DInit ==
    /\ dpc = "off"
    /\ home = FALSE
    /\ nodes = [i \in {} |-> {}]
    /\ discs = {}
    /\ conns = {}
    /\ dquit = 0
    /\ dstop = "idle"
    /\ told = {}

\* Start: the runner is a sync.Once, so a second Start spawns nothing new.
DStart ==
    /\ dpc = "off"
    /\ dpc' = "spawned"
    /\ UNCHANGED <<home, nodes, discs, conns, dquit, dstop, told>>

\* variant: discover() makes its own quit channel when it starts
BeginResets ==
    /\ dpc = "spawned"
    /\ dpc' = "select"
    /\ dquit' = 0
    /\ UNCHANGED <<home, nodes, discs, conns, dstop, told>>

\* The goroutine enters discover(): only now does it join the wait group.
Begin ==
    /\ dpc = "spawned"
    /\ dpc' = "select"
    /\ UNCHANGED <<home, nodes, discs, conns, dquit, dstop, told>>

\* variant: the test of Self's error is missing
SkipIdle(selfOK, swarm) == swarm = {} /\ DOMAIN nodes = {}

\* the two ways to continue with the next tick: the home node is unknown, or
\* there is nothing to report
Skip(selfOK, swarm) == ~(home \/ selfOK) \/ (swarm = {} /\ DOMAIN nodes = {})

\* The tick handler, up to the first channel send.  selfOK: Key().Self
\* succeeds; swarm: what Swarm().Peers returns, empty on an error.
Tick(selfOK, swarm) ==
    /\ dpc = "select"
    /\ home' = (home \/ selfOK)
    /\ \/ /\ Skip(selfOK, swarm)
          /\ UNCHANGED <<dpc, nodes, discs, conns>>
       \/ /\ ~Skip(selfOK, swarm)
          /\ \E latest \in MakeNodesMap(Filter(swarm)) :
                /\ nodes' = latest
                /\ discs' = Removed(latest)
                /\ conns' = Added(latest)
          /\ dpc' = "notify"
    /\ UNCHANGED <<dquit, dstop, told>>

SendDisc(n) ==
    /\ dpc = "notify"
    /\ n \in discs
    /\ discs' = discs \ {n}
    /\ told' = told \ {n}
    /\ UNCHANGED <<dpc, home, nodes, conns, dquit, dstop>>

SendConn(n) ==
    /\ dpc = "notify"
    /\ discs = {}
    /\ n \in conns
    /\ conns' = conns \ {n}
    /\ told' = told \cup {n}
    /\ UNCHANGED <<dpc, home, nodes, discs, dquit, dstop>>

\* Every notification is sent: back to the select.
RoundEnd ==
    /\ dpc = "notify"
    /\ discs = {} /\ conns = {}
    /\ dpc' = "select"
    /\ UNCHANGED <<home, nodes, discs, conns, dquit, dstop, told>>

QuitRecv ==
    /\ dpc = "select"
    /\ dquit > 0
    /\ dquit' = dquit - 1
    /\ dpc' = "returned"
    /\ UNCHANGED <<home, nodes, discs, conns, dstop, told>>

\* Stop puts its token into quit (capacity 1) ...
StopSend ==
    /\ dstop = "idle"
    /\ dquit < 1
    /\ dquit' = dquit + 1
    /\ dstop' = "wait"
    /\ UNCHANGED <<dpc, home, nodes, discs, conns, told>>

\* the wait group's counter: 1 while the goroutine is inside discover()
WgCount == IF dpc \in {"select", "notify"} THEN 1 ELSE 0

\* ... and waits for the goroutine, if it has joined the wait group.
StopWait ==
    /\ dstop = "wait"
    /\ WgCount = 0
    /\ dstop' = "done"
    /\ UNCHANGED <<dpc, home, nodes, discs, conns, dquit, told>>

\* Discover on its own: the listener takes every notification.
DNext ==
    \/ DStart
    \/ Begin
    \/ \E selfOK \in BOOLEAN, swarm \in SUBSET Conns : Tick(selfOK, swarm)
    \/ \E n \in IDs : SendDisc(n)
    \/ \E n \in IDs : SendConn(n)
    \/ RoundEnd
    \/ QuitRecv
    \/ StopSend
    \/ StopWait

DSafety == DInit /\ [][DNext]_dvars

(***************************************************************************)
(* A runnable goroutine is eventually scheduled (weak fairness); a select  *)
(* chooses at random among its ready cases, so a case that is ready again  *)
(* and again is eventually taken (strong fairness of QuitRecv).  That the  *)
(* sends are fair is the assumption this module makes on its listener:     *)
(* module Server shows when the real listener does not meet it.            *)
(***************************************************************************)
DFairness ==
    /\ WF_dvars(Begin)
    /\ WF_dvars(\E n \in IDs : SendDisc(n))
    /\ WF_dvars(\E n \in IDs : SendConn(n))
    /\ WF_dvars(RoundEnd)
    /\ SF_dvars(QuitRecv)
    /\ WF_dvars(StopWait)

DSpec == DSafety /\ DFairness

-----------------------------------------------------------------------------
DTypeOK ==
    /\ dpc \in {"off", "spawned", "select", "notify", "returned"}
    /\ home \in BOOLEAN
    /\ DOMAIN nodes \subseteq IDs
    /\ nodes \in [DOMAIN nodes -> Conns]
    /\ discs \subseteq IDs
    /\ conns \subseteq IDs
    /\ dquit \in 0..1
    /\ dstop \in {"idle", "wait", "done"}
    /\ told \subseteq IDs

(***************************************************************************)
(* What the listener was told is the database's snapshot, up to exactly    *)
(* the notifications of the current round that are still to be sent: no    *)
(* node is lost or reported twice however the snapshots follow each other  *)
(* (discover.go, Choose / Replace / the two send loops).                   *)
(***************************************************************************)
Accounting ==
    /\ told = (DOMAIN nodes \ conns) \cup discs
    /\ conns \subseteq DOMAIN nodes
    /\ discs \cap DOMAIN nodes = {}
    /\ dpc # "notify" => discs = {} /\ conns = {}

(***************************************************************************)
(* For every node Conn and Disc alternate on the listener's side: a Conn   *)
(* only for a node it believes gone, a Disc only for one it believes       *)
(* connected (the send loops at the end of the tick handler).              *)
(***************************************************************************)
Alternation ==
    [][\A n \in IDs : /\ SendConn(n) => n \notin told
                      /\ SendDisc(n) => n \in told]_dvars

(***************************************************************************)
(* The database holds p2p-circuit peers only, under their own id (comment  *)
(* on DB.nodes): the private-address alternative of Filter never admits a  *)
(* node, because it tests the protocol name of the multiaddr.              *)
(***************************************************************************)
OnlyRelayed == \A i \in DOMAIN nodes : isP2pCircuit(nodes[i]) /\ nodes[i].id = i

(***************************************************************************)
(* Once Stop has been called the goroutine ends, even when Stop overtakes  *)
(* the goroutine's start or comes in the middle of a round, provided the   *)
(* listener keeps receiving (Discover.Stop and the quit case).             *)
(***************************************************************************)
StopEnds == (dstop = "wait" /\ dpc # "off") ~> (dstop = "done" /\ dpc = "returned")

=============================================================================
