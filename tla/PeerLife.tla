------------------------------ MODULE PeerLife ------------------------------
(***************************************************************************)
(* What the server relies on from a peer (p2p/peer.go, Peer.run and the    *)
(* runPeer wrapper of server.go), as an abstract specification.  Module    *)
(* Peer, which models the goroutines of one peer, is shown to implement    *)
(* it; the steps module Server lets a peer take are the ones below.        *)
(***************************************************************************)
VARIABLE life

(* "free"     no goroutine of the peer exists                              *)
(* "running"  Peer.run is in its select loop (or about to enter it)        *)
(* "closing"  the loop was left, the channel closed is still open          *)
(* "closed"   the channel closed is closed, run waits for its wait group   *)
(* "held"     as closed, but a goroutine of the wait group reads from a    *)
(*            subscription that run did not close: only a message, or the  *)
(*            daemon, can make it end                                      *)
(* "ended"    run returned; runPeer is sending on delpeer                  *)
States == {"free", "running", "closing", "closed", "held", "ended"}

Init == life = "free"

Begin   == life = "free" /\ life' = "running"
Leave   == life = "running" /\ life' = "closing"
Close   == life = "closing" /\ life' \in {"closed", "held"}
Hold    == life = "closed" /\ life' = "held"
Release == life = "held" /\ life' = "closed"
Join    == life = "closed" /\ life' = "ended"
Drop    == life = "ended" /\ life' = "free"

Next == Begin \/ Leave \/ Close \/ Hold \/ Release \/ Join \/ Drop

Spec == Init /\ [][Next]_life

=============================================================================
