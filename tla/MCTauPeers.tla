----------------------------- MODULE MCTauPeers -----------------------------
(* Three peers, two of them with the same shortened id, and one place.      *)
EXTENDS TauPeers, TLC

CONSTANTS p1, p2, p3

MCPeers == {p1, p2, p3}
MCId    == (p1 :> "x") @@ (p2 :> "x") @@ (p3 :> "y")

=============================================================================
