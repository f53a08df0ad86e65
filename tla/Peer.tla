-------------------------------- MODULE Peer --------------------------------
(***************************************************************************)
(* The goroutines of one peer (p2p/peer.go): Peer.run, one readLoop per    *)
(* topic, one goroutine per protocol, the helper goroutines a protocol     *)
(* starts on its own account (forum.helloLoop), and the callers of         *)
(* Disconnect.  Protocols are what forum/forum.go and tau/handler.go are:  *)
(* they read in a loop, may write, and return on any error.                *)
(*                                                                         *)
(* The map subChans is written by the read loops and ranged over by run    *)
(* without a lock.  An overlap of two such accesses is a data race: the    *)
(* Go runtime may abort the process, or an update of the map may be lost.  *)
(***************************************************************************)
EXTENDS Integers, FiniteSets

CONSTANTS Protos,    \* protocols of the peer (Peer.running)
          Topics,    \* topics, all protocols together
          ProtoOf,   \* the protocol that owns a topic
          Helpers,   \* goroutines started by protocols, outside the wait group
          Callers    \* goroutines that may call Disconnect

ASSUME PeerAssumption ==
    /\ IsFiniteSet(Protos) /\ IsFiniteSet(Topics)
    /\ ProtoOf \in [Topics -> Protos]
    /\ Protos \cap Helpers = {}

Threads == Protos \cup Helpers

VARIABLES
    run,         \* Peer.run: "new", "loop", "closing", "wait", "done"
    rl,          \* read loops: "off", "sub", "reg", "next", "handle", "del", "done"
    sub,         \* the subscription of a topic: "none", "open", "closed"
    subChans,    \* the topics in the map subChans
    toClose,     \* the entries subChans had when run began to range over it
    readErr,     \* number of errors in the buffered channel readErr
    protoErr,    \* number of errors in the buffered channel protoErr
    writeStart,  \* number of tokens in the channel writeStart
    writeErr,    \* the channel writeErr: "empty", "nil" or "err"
    pc,          \* threads: "off", "idle" (ReadMsg or ticker), "write" (waiting in
                 \*   WriteMsg), "pub" (publishing), "return", "done"
    dcall,       \* callers of Disconnect: "idle", "select", "back"
    crashed,     \* the runtime aborted the process
    late         \* history: writes that began after the peer was closed

vars == <<run, rl, sub, subChans, toClose, readErr, protoErr, writeStart, writeErr,
          pc, dcall, crashed, late>>

\* the channel closed is closed
Closed == run \in {"wait", "done"}

\* variant: room for one error
readLoopCountOne == 1

\* the capacity of readErr
readLoopCount == Cardinality(Topics)

\* the goroutines the wait group counts
WgLive == {t \in Topics : rl[t] \notin {"off", "done"}}
              \cup {p \in Protos : pc[p] \notin {"off", "done"}}

Init ==
    /\ run = "new"
    /\ rl = [t \in Topics |-> "off"]
    /\ sub = [t \in Topics |-> "none"]
    /\ subChans = {}
    /\ toClose = {}
    /\ readErr = 0
    /\ protoErr = 0
    /\ writeStart = 0
    /\ writeErr = "empty"
    /\ pc = [w \in Threads |-> "off"]
    /\ dcall = [c \in Callers |-> "idle"]
    /\ crashed = FALSE
    /\ late = 0

-----------------------------------------------------------------------------
(* Peer.run *)

\* Start the read loops and the protocols, and allow the first write.
RunStart ==
    /\ ~crashed /\ run = "new"
    /\ run' = "loop"
    /\ rl' = [t \in Topics |-> "sub"]
    /\ pc' = [w \in Threads |-> "idle"]
    /\ writeStart' = 1
    /\ UNCHANGED <<sub, subChans, toClose, readErr, protoErr, writeErr, dcall,
                   crashed, late>>

\* break loop: begin to range over subChans
Break == run' = "closing" /\ toClose' = subChans

\* case err = <-writeErr: allow the next write, or leave the loop
RecvWriteErr ==
    /\ ~crashed /\ run = "loop"
    /\ writeErr # "empty"
    /\ writeErr' = "empty"
    /\ \/ /\ writeErr = "nil"
          /\ writeStart' = writeStart + 1
          /\ UNCHANGED <<run, toClose>>
       \/ /\ writeErr = "err"
          /\ Break
          /\ UNCHANGED writeStart
    /\ UNCHANGED <<rl, sub, subChans, readErr, protoErr, pc, dcall, crashed, late>>

\* variant: the errors are drained after the loop as well
RecvReadErrLate ==
    /\ ~crashed /\ run \in {"loop", "wait"}
    /\ readErr > 0
    /\ readErr' = readErr - 1
    /\ Break
    /\ UNCHANGED <<rl, sub, subChans, protoErr, writeStart, writeErr, pc, dcall,
                   crashed, late>>

\* case err = <-readErr
RecvReadErr ==
    /\ ~crashed /\ run = "loop"
    /\ readErr > 0
    /\ readErr' = readErr - 1
    /\ Break
    /\ UNCHANGED <<rl, sub, subChans, protoErr, writeStart, writeErr, pc, dcall,
                   crashed, late>>

\* case err = <-p.protoErr
RecvProtoErr ==
    /\ ~crashed /\ run = "loop"
    /\ protoErr > 0
    /\ protoErr' = protoErr - 1
    /\ Break
    /\ UNCHANGED <<rl, sub, subChans, readErr, writeStart, writeErr, pc, dcall,
                   crashed, late>>

\* case err = <-p.disc, which meets the send of Disconnect
RecvDisc(c) ==
    /\ ~crashed /\ run = "loop"
    /\ dcall[c] = "select"
    /\ dcall' = [dcall EXCEPT ![c] = "back"]
    /\ Break
    /\ UNCHANGED <<rl, sub, subChans, readErr, protoErr, writeStart, writeErr, pc,
                   crashed, late>>

\* One turn of the loop that closes the subscriptions.  An entry added while
\* the loop runs may or may not be visited.
CloseSub(t) ==
    /\ ~crashed /\ run = "closing"
    /\ t \in subChans
    /\ sub[t] = "open"
    /\ sub' = [sub EXCEPT ![t] = "closed"]
    /\ UNCHANGED <<run, rl, subChans, toClose, readErr, protoErr, writeStart,
                   writeErr, pc, dcall, crashed, late>>

\* variant: run waits for the goroutines before it closes closed
CloseDoneAfterWait ==
    /\ ~crashed /\ run = "closing"
    /\ \A t \in toClose \cap subChans : sub[t] = "closed"
    /\ WgLive = {}
    /\ run' = "wait"
    /\ UNCHANGED <<rl, sub, subChans, toClose, readErr, protoErr, writeStart,
                   writeErr, pc, dcall, crashed, late>>

\* The loop has visited every entry that was there and still is: close(closed).
CloseDone ==
    /\ ~crashed /\ run = "closing"
    /\ \A t \in toClose \cap subChans : sub[t] = "closed"
    /\ run' = "wait"
    /\ UNCHANGED <<rl, sub, subChans, toClose, readErr, protoErr, writeStart,
                   writeErr, pc, dcall, crashed, late>>

\* p.wg.Wait returns
WgWait ==
    /\ ~crashed /\ run = "wait"
    /\ WgLive = {}
    /\ run' = "done"
    /\ UNCHANGED <<rl, sub, subChans, toClose, readErr, protoErr, writeStart,
                   writeErr, pc, dcall, crashed, late>>

-----------------------------------------------------------------------------
(* Disconnect, as the server, the tau protocol manager and peerSet call it. *)

Disconnect(c) ==
    /\ ~crashed /\ run # "new"
    /\ dcall[c] = "idle"
    /\ dcall' = [dcall EXCEPT ![c] = "select"]
    /\ UNCHANGED <<run, rl, sub, subChans, toClose, readErr, protoErr, writeStart,
                   writeErr, pc, crashed, late>>

\* case <-p.closed
DisconnectClosed(c) ==
    /\ ~crashed /\ dcall[c] = "select"
    /\ Closed
    /\ dcall' = [dcall EXCEPT ![c] = "back"]
    /\ UNCHANGED <<run, rl, sub, subChans, toClose, readErr, protoErr, writeStart,
                   writeErr, pc, crashed, late>>

-----------------------------------------------------------------------------
(* readLoop *)

\* a step of the read loop of t that touches nothing else
ReadStep(t, from, to) ==
    /\ ~crashed /\ rl[t] = from
    /\ rl' = [rl EXCEPT ![t] = to]
    /\ UNCHANGED <<run, toClose, protoErr, writeStart, writeErr, dcall, crashed,
                   late>>

\* errc <- err, whose buffer has room for readLoopCount errors
ReportRead == readErr < readLoopCount /\ readErr' = readErr + 1

\* Sub returns a subscription: on to the write of subChans ...
SubOK(t) ==
    /\ ReadStep(t, "sub", "reg")
    /\ sub' = [sub EXCEPT ![t] = "open"]
    /\ UNCHANGED <<subChans, readErr, pc>>

\* variant: a failed Sub is reported and tried again
SubFailRetries(t) ==
    /\ ReadStep(t, "sub", "sub")
    /\ ReportRead
    /\ UNCHANGED <<sub, subChans, pc>>

\* ... or an error, which is sent to run before the read loop returns.
SubFail(t) ==
    /\ ReadStep(t, "sub", "done")
    /\ ReportRead
    /\ UNCHANGED <<sub, subChans, pc>>

\* the goroutines inside a write of subChans
Writing == {t \in Topics : rl[t] \in {"reg", "del"}}

\* t's write overlaps another write or run's range over the map
Races(t) == Writing \ {t} # {} \/ run = "closing"

\* subChans[topic] = subscription; a racing write may be lost
Register(t) ==
    /\ ReadStep(t, "reg", "next")
    /\ \/ subChans' = subChans \cup {t}
       \/ Races(t) /\ UNCHANGED subChans
    /\ UNCHANGED <<sub, readErr, pc>>

\* Next returns a message
NextMsg(t) ==
    /\ ReadStep(t, "next", "handle")
    /\ sub[t] = "open"
    /\ UNCHANGED <<sub, subChans, readErr, pc>>

\* Next fails, because run closed the subscription or the daemon dropped it
NextErr(t) ==
    /\ ReadStep(t, "next", "del")
    /\ sub' = [sub EXCEPT ![t] = "closed"]
    /\ ReportRead
    /\ UNCHANGED <<subChans, pc>>

\* handle: proto.in <- msg meets ReadMsg.  The protocol reads on, answers, or
\* returns an error.
Deliver(t, then) ==
    /\ ReadStep(t, "handle", "next")
    /\ pc[ProtoOf[t]] = "idle"
    /\ pc' = [pc EXCEPT ![ProtoOf[t]] = then]
    /\ UNCHANGED <<sub, subChans, readErr>>

\* handle: case <-p.closed
HandleClosed(t) ==
    /\ ReadStep(t, "handle", "del")
    /\ Closed
    /\ ReportRead
    /\ UNCHANGED <<sub, subChans, pc>>

\* the deferred delete(subChans, topic), then p.wg.Done()
Delete(t) ==
    /\ ReadStep(t, "del", "done")
    /\ \/ subChans' = subChans \ {t}
       \/ Races(t) /\ UNCHANGED subChans
    /\ UNCHANGED <<sub, readErr, pc>>

\* the runtime notices that two goroutines use subChans at once
MapFatal ==
    /\ ~crashed
    /\ \E t \in Writing : Races(t)
    /\ crashed' = TRUE
    /\ UNCHANGED <<run, rl, sub, subChans, toClose, readErr, protoErr, writeStart,
                   writeErr, pc, dcall, late>>

-----------------------------------------------------------------------------
(* Protocol goroutines and their helpers, with protoRW's methods. *)

\* a step of thread w that touches neither the read loops nor run
ThreadStep(w, from, to) ==
    /\ ~crashed /\ pc[w] = from
    /\ pc' = [pc EXCEPT ![w] = to]
    /\ UNCHANGED <<run, rl, sub, subChans, toClose, readErr, dcall, crashed>>

\* what a thread does when one of its calls failed: a protocol returns the
\* error, a helper just ends
Fail(w) == IF w \in Protos THEN "return" ELSE "done"

\* ReadMsg returns io.EOF (closed) or ErrReadTimeout
ReadFail(p) ==
    /\ p \in Protos
    /\ ThreadStep(p, "idle", "return")
    /\ UNCHANGED <<protoErr, writeStart, writeErr, late>>

\* The ticker of a helper fires and the helper calls WriteMsg.
HelperTick(h) ==
    /\ h \in Helpers
    /\ ThreadStep(h, "idle", "write")
    /\ UNCHANGED <<protoErr, writeStart, writeErr, late>>

\* WriteMsg, case <-rw.wstart: the thread holds the token and publishes
WriteBegin(w) ==
    /\ ThreadStep(w, "write", "pub")
    /\ writeStart > 0
    /\ writeStart' = writeStart - 1
    /\ late' = IF Closed THEN late + 1 ELSE late
    /\ UNCHANGED <<protoErr, writeErr>>

\* variant: WriteMsg waits for the token only
WriteClosedNever(w) == FALSE /\ UNCHANGED vars

\* WriteMsg, case <-rw.closed: ErrShuttingDown
WriteClosed(w) ==
    /\ ThreadStep(w, "write", Fail(w))
    /\ Closed
    /\ UNCHANGED <<protoErr, writeStart, writeErr, late>>

\* variant: a failed publish is not reported to run
WriteEndSilent(w, res) ==
    /\ ThreadStep(w, "pub", "idle")
    /\ writeErr = "empty"
    /\ writeErr' = IF res = "err" THEN "empty" ELSE res
    /\ UNCHANGED <<protoErr, writeStart, late>>

\* variant: once the peer is closed the writer returns the token itself
WriteEndReturns(w, res) ==
    /\ ThreadStep(w, "pub", "idle")
    /\ writeErr = "empty"
    /\ writeErr' = IF Closed THEN "empty" ELSE res
    /\ writeStart' = IF Closed THEN writeStart + 1 ELSE writeStart
    /\ UNCHANGED <<protoErr, late>>

\* Reading the payload or Pub ends with result res, which is sent to run on
\* werr.  The error that WriteMsg returns is the outer one, still nil: the
\* caller goes on as after a success.
WriteEnd(w, res) ==
    /\ ThreadStep(w, "pub", "idle")
    /\ writeErr = "empty"
    /\ writeErr' = res
    /\ UNCHANGED <<protoErr, writeStart, late>>

\* Run returned: p.protoErr <- err, whose buffer has room for every protocol,
\* then p.wg.Done()
ProtoReturn(p) ==
    /\ ThreadStep(p, "return", "done")
    /\ protoErr < Cardinality(Protos)
    /\ protoErr' = protoErr + 1
    /\ UNCHANGED <<writeStart, writeErr, late>>

Next ==
    \/ RunStart \/ RecvWriteErr \/ RecvReadErr \/ RecvProtoErr
    \/ \E c \in Callers : RecvDisc(c) \/ Disconnect(c) \/ DisconnectClosed(c)
    \/ \E t \in Topics : CloseSub(t)
    \/ CloseDone \/ WgWait
    \/ \E t \in Topics : SubOK(t) \/ SubFail(t) \/ Register(t) \/ NextMsg(t) \/ NextErr(t)
    \/ \E t \in Topics, then \in {"idle", "write", "return"} : Deliver(t, then)
    \/ \E t \in Topics : HandleClosed(t) \/ Delete(t)
    \/ MapFatal
    \/ \E p \in Protos : ReadFail(p) \/ ProtoReturn(p)
    \/ \E h \in Helpers : HelperTick(h)
    \/ \E w \in Threads : WriteBegin(w) \/ WriteClosed(w)
    \/ \E w \in Threads, res \in {"nil", "err"} : WriteEnd(w, res)

Safety == Init /\ [][Next]_vars

(***************************************************************************)
(* Fairness.  Every goroutine that can run does, calls of the ipfs API     *)
(* return (Sub, Pub, Close, and Next on a closed subscription), tickers    *)
(* fire; run's select takes a case that stays ready.  Nothing forces a     *)
(* message to arrive, a read to time out, the daemon to drop a             *)
(* subscription, or a call of Disconnect.                                  *)
(***************************************************************************)
Fairness ==
    /\ WF_vars(RunStart)
    /\ WF_vars(RecvWriteErr) /\ WF_vars(RecvReadErr) /\ WF_vars(RecvProtoErr)
    /\ \A c \in Callers : WF_vars(RecvDisc(c)) /\ WF_vars(DisconnectClosed(c))
    /\ \A t \in Topics : WF_vars(CloseSub(t))
    /\ WF_vars(CloseDone) /\ WF_vars(WgWait)
    /\ \A t \in Topics :
          /\ WF_vars(SubOK(t) \/ SubFail(t))
          /\ WF_vars(Register(t))
          /\ WF_vars(sub[t] = "closed" /\ NextErr(t))
          /\ WF_vars(HandleClosed(t))
          /\ WF_vars(Delete(t))
    /\ \A p \in Protos : WF_vars(Closed /\ ReadFail(p)) /\ WF_vars(ProtoReturn(p))
    /\ \A h \in Helpers : WF_vars(HelperTick(h))
    /\ \A w \in Threads :
          /\ WF_vars(WriteBegin(w) \/ WriteClosed(w))
          /\ WF_vars(\E res \in {"nil", "err"} : WriteEnd(w, res))

Spec == Safety /\ Fairness

-----------------------------------------------------------------------------
TypeOK ==
    /\ run \in {"new", "loop", "closing", "wait", "done"}
    /\ rl \in [Topics -> {"off", "sub", "reg", "next", "handle", "del", "done"}]
    /\ sub \in [Topics -> {"none", "open", "closed"}]
    /\ subChans \subseteq Topics
    /\ toClose \subseteq Topics
    /\ readErr \in 0..Cardinality(Topics)
    /\ protoErr \in 0..Cardinality(Protos)
    /\ writeStart \in 0..1
    /\ writeErr \in {"empty", "nil", "err"}
    /\ pc \in [Threads -> {"off", "idle", "write", "pub", "return", "done"}]
    /\ dcall \in [Callers -> {"idle", "select", "back"}]
    /\ crashed \in BOOLEAN
    /\ late \in Nat

Publishers == {w \in Threads : pc[w] = "pub"}

(***************************************************************************)
(* The right to write is a single token that is in writeStart, with the    *)
(* one thread that publishes, or with the result in writeErr.  While run   *)
(* loops it is never lost, so a write can always start again; so neither   *)
(* run's send on writeStart nor the send on werr ever blocks.              *)
(***************************************************************************)
WriteToken ==
    /\ \A v, w \in Publishers : v = w
    /\ writeStart = 1 => Publishers = {} /\ writeErr = "empty"
    /\ Publishers # {} => writeErr = "empty"
    /\ run = "loop" => writeStart = 1 \/ Publishers # {} \/ writeErr # "empty"

(***************************************************************************)
(* At most one write begins after closed was closed, although the select   *)
(* of WriteMsg may prefer the token to closed: run never hands out a new   *)
(* one (protoRW.WriteMsg, Peer.run).                                       *)
(***************************************************************************)
OneLateWrite == late + writeStart <= 1

(***************************************************************************)
(* Peer.run never waits for an error it cannot receive: every read loop    *)
(* and every protocol that is still to report one finds room in its        *)
(* channel, also when run has stopped receiving.                           *)
(***************************************************************************)
ErrorRoom ==
    /\ readErr + Cardinality({t \in Topics : rl[t] \notin {"del", "done"}})
           <= readLoopCount
    /\ protoErr + Cardinality({p \in Protos : pc[p] # "done"}) <= Cardinality(Protos)

\* a read loop uses a subscription that escaped the loop that closes them:
\* run, which waits for it, will not close it any more
Held == /\ run = "wait"
        /\ \E t \in Topics : rl[t] \in {"reg", "next", "handle"} /\ sub[t] = "open"

(***************************************************************************)
(* run and its wait group give the server the life of a peer that module   *)
(* PeerLife describes.                                                     *)
(***************************************************************************)
life == CASE run = "new" -> "free" [] run = "loop" -> "running"
          [] run = "closing" -> "closing"
          [] run = "wait" -> IF Held THEN "held" ELSE "closed"
          [] run = "done" -> "ended"
Abstract == INSTANCE PeerLife
ImplementsLife == Abstract!Spec

(***************************************************************************)
(* A closed peer ends, unless the race on subChans aborted the process or  *)
(* a subscription that escaped the loop that closes them holds it for      *)
(* ever: a peer that stays closed without ending is held, no other         *)
(* goroutine of the wait group can keep wg.Wait from returning.  It is     *)
(* what the fairness of Server's PeerJoin stands for.                      *)
(***************************************************************************)
PeerEnds == <>[](Closed /\ run # "done" /\ ~crashed) => <>[]Held

(***************************************************************************)
(* Every Disconnect returns: run receives its reason, or has left its loop *)
(* for another one and then closes the channel closed, whatever the read   *)
(* loops and protocols do meanwhile (Disconnect, Peer.run).                *)
(***************************************************************************)
DisconnectReturns ==
    \A c \in Callers : (dcall[c] = "select") ~> (dcall[c] = "back" \/ crashed)

(***************************************************************************)
(* The helper goroutines, which no wait group counts, end after the peer   *)
(* was closed (forum.helloLoop and WriteMsg's case for closed).            *)
(***************************************************************************)
HelpersEnd == \A h \in Helpers : Closed ~> (pc[h] = "done" \/ crashed)

-----------------------------------------------------------------------------
(* Statements of the source that the code does not meet. *)

(***************************************************************************)
(* runPeer "waits until the Peer logic returns": once run has left its     *)
(* loop, it returns.                                                       *)
(***************************************************************************)
RunReturns == Closed ~> (run = "done" \/ crashed)

=============================================================================
