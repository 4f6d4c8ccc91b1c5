----------------------------- MODULE MC_Startup -----------------------------
(***************************************************************************)
(* Two entries at most, of all kinds; hosts with two adapters that can be  *)
(* used, with one, listed beside one that is not eligible or before one    *)
(* that has no IPv4 address under the same name, and with none.            *)
(***************************************************************************)
EXTENDS Startup

CONSTANTS eth0, eth1, docker0, ip0, ip1

MCHosts ==
  LET On(name, ips) == [name |-> name, ips |-> ips]
  IN  { <<On(docker0, <<ip1>>), On(eth1, <<ip1, ip0>>), On(eth0, <<ip0>>)>>,
        <<On(eth0, <<>>), On(eth0, <<ip0>>), On(eth0, <<ip1>>)>>,
        <<On(docker0, <<ip0>>), On(eth0, <<>>)>> }
=============================================================================
