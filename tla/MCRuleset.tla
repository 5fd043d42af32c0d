------------------------------ MODULE MCRuleset ------------------------------
(* Ruleset for TLC: port forwards (none, one port to another, a range and UDP), a mapped    *)
(* host, rules that open, close or name an address that is gone, DNS enforcement and a      *)
(* blocked country in all combinations; NAT and the WAN interface off in a few, the SNI     *)
(* filter on in others, with QUIC shut or forwarded.  One of the networks pasted for the    *)
(* country is around private space, one is the firewall's own.                              *)
EXTENDS Ruleset

Web == [protocols |-> {"tcp"}, first |-> 8000, last |-> 8000, host |-> "server", internal |-> 443]
Quic == [protocols |-> {"udp"}, first |-> 443, last |-> 443, host |-> "server", internal |-> 443]
Span == [protocols |-> {"tcp", "udp"}, first |-> 8000, last |-> 8001, host |-> "server", internal |-> 8000]
Mapping == [external |-> "alias", internal |-> "mapped"]

Rule(chain, sides, accepts) ==
  [chain |-> chain, sides |-> sides, src |-> Hosts, dst |-> Hosts, protocols |-> Protocols,
   ports |-> Ports \union {NoPort}, conditional |-> FALSE, accepts |-> accepts]
Dangling == [Rule("forward", Sides, TRUE) EXCEPT !.src = {}]
OpenLan == Rule("forward", {"lan"}, TRUE)
ToMapped == [Rule("forward", {"wan"}, TRUE) EXCEPT !.dst = {"mapped"}, !.protocols = {"tcp"}, !.ports = {443}]
ShutInput == [Rule("input", {"lan"}, FALSE) EXCEPT !.conditional = TRUE]
OpenInput == [Rule("input", {"wan"}, TRUE) EXCEPT !.protocols = {"icmp"}, !.ports = {NoPort}]
ShutOutput == [Rule("output", {"lan"}, FALSE) EXCEPT !.protocols = {"udp"}]

Base ==
  [wan |-> TRUE, masquerade |-> TRUE, enforce |-> TRUE, inbound |-> TRUE, outbound |-> FALSE, sni |-> FALSE, quic |-> FALSE,
   pasted |-> {{"blocked"}, {"alias"}, {"server", "resolver"}},
   dns |-> {"lan"}, dhcp |-> {"lan"}, management |-> {3000}, wireguard |-> {},
   forwards |-> <<Web>>, mappings |-> <<>>, rules |-> <<Dangling, OpenLan>>]

Combined ==
  {[Base EXCEPT !.forwards = f, !.mappings = m, !.rules = r, !.enforce = e, !.inbound = g.inbound, !.outbound = g.outbound] :
     f \in {<<>>, <<Web>>, <<Span>>}, m \in {<<>>, <<Mapping>>},
     r \in {<<Dangling, OpenLan>>, <<ShutInput, ShutOutput, ToMapped, OpenLan>>, <<Rule("forward", Sides, FALSE), OpenInput>>},
     e \in BOOLEAN, g \in {[inbound |-> FALSE, outbound |-> FALSE], [inbound |-> TRUE, outbound |-> TRUE]}}
Special ==
  { [Base EXCEPT !.wan = FALSE], [Base EXCEPT !.masquerade = FALSE, !.forwards = <<>>, !.enforce = FALSE],
    [Base EXCEPT !.masquerade = FALSE, !.dns = {"lan", "vpn"}, !.wireguard = {3000}, !.outbound = TRUE],
    [Base EXCEPT !.mappings = <<[Mapping EXCEPT !.internal = "server"]>>, !.enforce = FALSE],
    [Base EXCEPT !.management = {}, !.dns = {}, !.dhcp = {}, !.inbound = FALSE],
    [Base EXCEPT !.forwards = <<Web, Quic>>, !.quic = TRUE],
    [Base EXCEPT !.forwards = <<Web, Quic>>, !.sni = TRUE, !.mappings = <<Mapping>>],
    [Base EXCEPT !.forwards = <<Web, Quic>>, !.sni = TRUE, !.quic = TRUE, !.outbound = TRUE],
    [Base EXCEPT !.sni = TRUE, !.quic = TRUE, !.mappings = <<Mapping>>, !.rules = <<Rule("forward", Sides, FALSE), OpenInput>>] }
AllConfigs == Combined \union Special

\* The hypothesis of the theorem on NatDelivers.
ASSUME ClearAssumption == \A k \in Configs : NatIsClear(k)
=============================================================================
