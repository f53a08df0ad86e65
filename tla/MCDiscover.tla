----------------------------- MODULE MCDiscover -----------------------------
(* Three nodes, one of them reachable over two relays, next to a direct and *)
(* a private connection that the filter drops.                              *)
EXTENDS Discover

MCPrivateIPs == {"192.168.1.2"}

Relayed(i, relay) ==
    [id |-> i, addr |-> <<"", "ip4", relay, "tcp", "4001", "p2p-circuit">>]

MCConns ==
    { Relayed("a", "1.2.3.4"), Relayed("a", "5.6.7.8"), Relayed("b", "1.2.3.4"),
      Relayed("c", "1.2.3.4"),
      [id |-> "b", addr |-> <<"", "ip4", "192.168.1.2", "tcp", "4001">>],
      [id |-> "d", addr |-> <<"", "ip4", "9.9.9.9", "tcp", "4001">>] }

=============================================================================
