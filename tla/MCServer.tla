------------------------------ MODULE MCServer ------------------------------
(* Relayed nodes only (module MCDiscover exercises the filter), at most one *)
(* connection per node.                                                     *)
EXTENDS Server, TLC

Node(i) == [id |-> i, addr |-> <<"", "ip4", "1.2.3.4", "p2p-circuit">>]

OneNode    == {Node("a")}
TwoNodes   == {Node("a"), Node("b")}
ThreeNodes == {Node("a"), Node("b"), Node("c")}

NoPrivateIPs == {}

Symmetric == Permutations(Refs) \cup Permutations(Callers)

=============================================================================
