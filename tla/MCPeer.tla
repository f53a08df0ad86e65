------------------------------- MODULE MCPeer -------------------------------
(* One protocol with two topics and a helper that writes, as forum.         *)
EXTENDS Peer

CONSTANTS p, t1, t2

TwoTopics == [t \in {t1, t2} |-> p]
OneTopic  == [t \in {t1} |-> p]

=============================================================================
