------------------------------- MODULE Ruleset -------------------------------
(***************************************************************************)
(* What the ruleset does that FirewallGenerator writes: the lines of its   *)
(* chains in the order of the code, the first that matches decides, and    *)
(* the kernel remembers the connections it let through across commits,     *)
(* for "flush ruleset" does not make it forget them.                       *)
(*                                                                         *)
(* A line is a record of sets, one per field of a packet.  A set that is   *)
(* empty because something is not configured makes a line that matches     *)
(* nothing, where the code writes none.                                    *)
(*                                                                         *)
(* IPv4 only.  Nothing reads the queue of the SNI filter (main starts no   *)
(* reader), and a line "queue ... bypass" without a reader accepts.  The   *)
(* lines on malformed flags, invalid packets and kinds of ICMP are left    *)
(* out, and the trust mark, which only a reader would set.                 *)
(***************************************************************************)
EXTENDS Naturals, Sequences, SequencesExt

CONSTANTS
  Inside, Tunnel, Outside,  \* addresses behind the LAN, the tunnel and the WAN interface
  Own,                      \* addresses of the firewall
  Address,                  \* of these, the one the WAN interface and redirects use
  Resolvers,                \* the known DNS-over-HTTPS servers
  Protected,                \* private address space
  Ports,
  Configs,                  \* the configurations that are ever committed
  Connections,              \* connections that are open at once
  NoConn

Hosts == Inside \union Tunnel \union Outside \union Own
Sides == {"lan", "vpn", "wan", "self"}
Side(host) ==
  CASE host \in Inside -> "lan"
    [] host \in Tunnel -> "vpn"
    [] host \in Outside -> "wan"
    [] host \in Own -> "self"
Protocols == {"tcp", "udp", "icmp"}
Ephemeral == 0     \* the port of a client, no port of a service
NoPort == 0        \* of ICMP, and of a NAT that keeps the port

Forwards ==
  [protocols : SUBSET {"tcp", "udp"}, first : Ports, last : Ports, host : Inside, internal : Ports]
Mappings == [external : Own, internal : Inside]
Rules ==
  [chain : {"input", "forward", "output"}, sides : SUBSET Sides, src : SUBSET Hosts, dst : SUBSET Hosts,
   protocols : SUBSET Protocols, ports : SUBSET (Ports \union {NoPort}), conditional : BOOLEAN, accepts : BOOLEAN]

ASSUME RulesetAssumption ==
  /\ Inside \intersect Tunnel = {} /\ (Inside \union Tunnel) \intersect Outside = {}
  /\ (Inside \union Tunnel \union Outside) \intersect Own = {}
  /\ Address \in Own /\ Resolvers \subseteq Outside /\ Protected \subseteq Hosts
  /\ Ports \subseteq Nat \ {0} /\ {53, 67, 443, 853} \subseteq Ports
  /\ \A k \in Configs :
       /\ {k.wan, k.masquerade, k.enforce, k.inbound, k.outbound, k.sni, k.quic} \subseteq BOOLEAN
       /\ {k.dns, k.dhcp} \subseteq SUBSET {"lan", "vpn"}
       /\ {k.management, k.wireguard} \subseteq SUBSET Ports /\ k.pasted \subseteq (SUBSET Hosts) \ {{}}
       /\ k.forwards \in Seq(Forwards) /\ k.mappings \in Seq(Mappings) /\ k.rules \in Seq(Rules)
       /\ \A i \in DOMAIN k.forwards : LET f == k.forwards[i] IN
            f.first <= f.last /\ (f.first # f.last => f.internal = f.first)

VARIABLES
  kernel,   \* the configuration whose ruleset is loaded
  conns     \* the connections, the one that was refused last included

rulesetVars == <<kernel, conns>>

-----------------------------------------------------------------------------
(* Packets and lines. *)

\* `flood': over the limits on new connections; `meets': the MAC address, the hours and the
\* rate that a line may ask for.
Fields == {"in", "out", "src", "dst", "protocol", "port", "state", "dnat", "flood", "meets"}

AcceptAll ==
  [in |-> Sides, out |-> Sides, src |-> Hosts, dst |-> Hosts, protocol |-> Protocols,
   port |-> Ports \union {NoPort}, state |-> {"new", "established"}, dnat |-> BOOLEAN,
   flood |-> BOOLEAN, meets |-> BOOLEAN, verdict |-> TRUE]
Drop == [AcceptAll EXCEPT !.verdict = FALSE]
NatTo(host, port) == [AcceptAll EXCEPT !.verdict = [host |-> host, port |-> port]]

Matches(line, packet) == \A f \in Fields : packet[f] \in line[f]
Hit(chain, packet) == SelectInSeq(chain, LAMBDA line : Matches(line, packet))

\* The verdict of a chain of the filter table.
Passes(chain, policy, packet) ==
  LET i == Hit(chain, packet) IN IF i = 0 THEN policy ELSE chain[i].verdict

-----------------------------------------------------------------------------
(* The blocks of lines. *)

Established == <<[AcceptAll EXCEPT !.state = {"established"}]>>
DdosRules == <<[Drop EXCEPT !.protocol = {"tcp"}, !.state = {"new"}, !.flood = {TRUE}]>>

\* With the SNI filter on: its drop of QUIC, if that is asked for, and its queue.
QuicIsShut(k) == k.sni /\ k.quic
SniLines(k) ==
  << [Drop EXCEPT !.protocol = {"udp"}, !.port = IF QuicIsShut(k) THEN {443} ELSE {}],
     [AcceptAll EXCEPT !.protocol = {"tcp"}, !.port = IF k.sni THEN {443} ELSE {}] >>

\* Mutant of Zone: a network around private space is kept.
ZoneAround(pasted) == {net \in pasted : ~(net \subseteq Protected)}

\* parse_zone_list: of the networks pasted for a country, those that touch private space are
\* skipped.  If none is left the import fails, and there is no list.
Zone(pasted) == {net \in pasted : net \intersect Protected = {}}
Country(k) == UNION Zone(k.pasted)

BySource(k) == [Drop EXCEPT !.src = IF k.inbound THEN Country(k) ELSE {}]
ByDestination(k) == [Drop EXCEPT !.dst = IF k.outbound THEN Country(k) ELSE {}]
GeoipRules(k, chain) ==
  CASE chain = "input" -> <<BySource(k)>>
    [] chain = "forward" -> <<BySource(k), ByDestination(k)>>
    [] chain = "output" -> <<ByDestination(k)>>

Ping(sides) == [AcceptAll EXCEPT !.in = sides, !.protocol = {"icmp"}, !.meets = {TRUE}]
SelfProtection(k) ==
  << Ping({"lan"}),
     [AcceptAll EXCEPT !.in = {"lan"}, !.protocol = {"tcp"}, !.port = k.management],
     [AcceptAll EXCEPT !.in = k.dhcp, !.protocol = {"udp"}, !.port = {67}],
     [AcceptAll EXCEPT !.in = k.dns, !.protocol = {"tcp", "udp"}, !.port = {53}] >>
WireguardInput(k) ==
  << [AcceptAll EXCEPT !.protocol = {"udp"}, !.port = k.wireguard],
     Ping(IF k.wireguard = {} THEN {} ELSE {"vpn"}) >>

Enforced(k) == IF k.enforce THEN k.dns ELSE {}
DnsEnforceForward(k) ==
  LET line == [Drop EXCEPT !.in = Enforced(k), !.protocol = {"tcp", "udp"}]
  IN << [line EXCEPT !.port = {53, 853}], [line EXCEPT !.dst = Resolvers, !.port = {443}] >>

\* After DNAT the chain sees the internal address and port.
InternalPorts(f) == f.internal..(f.internal + f.last - f.first)
PortForwardAccepts(k) ==
  IF ~k.wan THEN <<>>
  ELSE [i \in DOMAIN k.forwards |-> LET f == k.forwards[i] IN
          [AcceptAll EXCEPT !.in = {"wan"}, !.dst = {f.host}, !.protocol = f.protocols,
                         !.port = InternalPorts(f), !.dnat = {TRUE}]]

\* Mutant of RuleLine: without a resolved address the rule is written without one.
RuleLineAnyAddress(r) ==
  [AcceptAll EXCEPT !.in = IF r.chain = "output" THEN Sides ELSE r.sides,
                 !.out = IF r.chain = "output" THEN r.sides ELSE Sides,
                 !.src = IF r.src = {} THEN Hosts ELSE r.src,
                 !.dst = IF r.dst = {} THEN Hosts ELSE r.dst, !.protocol = r.protocols, !.port = r.ports,
                 !.meets = IF r.conditional THEN {TRUE} ELSE BOOLEAN, !.verdict = r.accepts]

\* An address that resolves to nothing makes the whole line go.  The interface is the one
\* the packet leaves by in OUTPUT, the one it came in by elsewhere.
RuleLine(r) ==
  [AcceptAll EXCEPT !.in = IF r.chain = "output" THEN Sides ELSE r.sides,
                 !.out = IF r.chain = "output" THEN r.sides ELSE Sides,
                 !.src = r.src, !.dst = r.dst, !.protocol = r.protocols, !.port = r.ports,
                 !.meets = IF r.conditional THEN {TRUE} ELSE BOOLEAN, !.verdict = r.accepts]

Chain(k, chain) ==
  [i \in DOMAIN k.rules |-> LET r == k.rules[i] IN
     IF r.chain = chain THEN RuleLine(r) ELSE [AcceptAll EXCEPT !.in = {}]]

-----------------------------------------------------------------------------
(* The NAT table. *)

HasNat(k) ==
  /\ k.wan
  /\ k.masquerade \/ k.forwards # <<>> \/ k.mappings # <<>> \/ Enforced(k) # {}

Redirect(k) ==
  [NatTo(Address, 53) EXCEPT !.in = Enforced(k), !.dst = Hosts \ Own, !.protocol = {"tcp", "udp"}, !.port = {53}]
Dnat(f) ==
  [NatTo(f.host, IF f.first = f.last THEN f.internal ELSE NoPort) EXCEPT
     !.in = {"wan"}, !.protocol = f.protocols, !.port = f.first..f.last]

\* Mutant of Prerouting: the port forwards come first.
PreroutingForwardsFirst(k) ==
  IF ~HasNat(k) THEN <<>>
  ELSE <<Redirect(k)>>
       \o [i \in DOMAIN k.forwards |-> Dnat(k.forwards[i])]
       \o [i \in DOMAIN k.mappings |-> LET m == k.mappings[i] IN
             [NatTo(m.internal, NoPort) EXCEPT !.in = {"wan"}, !.dst = {m.external}]]

Prerouting(k) ==
  IF ~HasNat(k) THEN <<>>
  ELSE <<Redirect(k)>>
       \o [i \in DOMAIN k.mappings |-> LET m == k.mappings[i] IN
             [NatTo(m.internal, NoPort) EXCEPT !.in = {"wan"}, !.dst = {m.external}]]
       \o [i \in DOMAIN k.forwards |-> Dnat(k.forwards[i])]

Postrouting(k) ==
  IF ~HasNat(k) THEN <<>>
  ELSE [i \in DOMAIN k.mappings |-> LET m == k.mappings[i] IN
          [NatTo(m.external, NoPort) EXCEPT !.out = {"wan"}, !.src = {m.internal}]]
       \o <<[NatTo(Address, NoPort) EXCEPT !.out = IF k.masquerade THEN {"wan"} ELSE {}]>>

-----------------------------------------------------------------------------
(* The ruleset. *)

\* Mutant of Input: the rules come before what keeps the firewall reachable.
InputRulesFirst(k) ==
  Established \o DdosRules \o GeoipRules(k, "input") \o Chain(k, "input") \o SelfProtection(k) \o WireguardInput(k)

Input(k) ==
  Established \o DdosRules \o GeoipRules(k, "input") \o SelfProtection(k) \o WireguardInput(k) \o Chain(k, "input")

\* Mutant of Forward: the DNS enforcement comes before the replies.
ForwardEnforceFirst(k) ==
  SniLines(k) \o DnsEnforceForward(k) \o GeoipRules(k, "forward") \o Established \o DdosRules
  \o PortForwardAccepts(k) \o Chain(k, "forward")

Forward(k) ==
  SniLines(k) \o Established \o DdosRules \o DnsEnforceForward(k) \o GeoipRules(k, "forward")
  \o PortForwardAccepts(k) \o Chain(k, "forward")

Output(k) == GeoipRules(k, "output") \o Chain(k, "output")

generate ==
  [k \in Configs |->
     [input |-> Input(k), forward |-> Forward(k), output |-> Output(k),
      prerouting |-> Prerouting(k), postrouting |-> Postrouting(k)]]

-----------------------------------------------------------------------------
(* The kernel. *)

\* Where the first packet of a connection goes after a chain of the NAT table.
Target(chain, packet, otherwise) ==
  LET i == Hit(chain, packet) IN IF i = 0 THEN otherwise ELSE chain[i].verdict

\* Mutant of Translated: a NAT that names no port loses the port.
TranslatedNoPort(k, p) ==
  LET here == [host |-> p.dst, port |-> p.port]
      to == IF p.in = "self" THEN here ELSE Target(generate[k].prerouting, p, here)
  IN [p EXCEPT !.dst = to.host, !.out = Side(to.host), !.dnat = to # here, !.port = to.port]

Translated(k, p) ==
  LET here == [host |-> p.dst, port |-> p.port]
      to == IF p.in = "self" THEN here ELSE Target(generate[k].prerouting, p, here)
  IN [p EXCEPT !.dst = to.host, !.out = Side(to.host), !.dnat = to # here,
               !.port = IF to.port = NoPort THEN p.port ELSE to.port]

ChainOf(p) == IF p.in = "self" THEN "output" ELSE IF p.out = "self" THEN "input" ELSE "forward"
Filtered(k, p) == Passes(generate[k][ChainOf(p)], ChainOf(p) = "output", p)
Source(k, p) ==
  Target(IF p.out = "self" THEN <<>> ELSE generate[k].postrouting, p, [host |-> p.src, port |-> NoPort]).host

\* First packets: from a host to another side, to a service of TCP or UDP, or a ping.
Services == [protocol : {"tcp", "udp"}, port : Ports] \union {[protocol |-> "icmp", port |-> NoPort]}
Packets ==
  {[in |-> Side(s), out |-> Side(d), src |-> s, dst |-> d, protocol |-> v.protocol, port |-> v.port,
    state |-> "new", dnat |-> FALSE, flood |-> over, meets |-> meets] :
      s \in Hosts \ (Own \ {Address}), d \in Hosts, v \in Services, over, meets \in BOOLEAN}

RulesetInit == kernel \in Configs /\ conns = [c \in Connections |-> NoConn]

\* The first packet of a connection.  `first' is as it came, `at' as the filter sees it,
\* `from' the source that the other end sees.
Open(c, p) ==
  LET q == Translated(kernel, p)
  IN /\ conns[c] = NoConn /\ Side(p.src) # Side(p.dst)
     /\ conns' = [conns EXCEPT ![c] =
                    [open |-> Filtered(kernel, q), first |-> p, at |-> q, from |-> Source(kernel, q)]]
     /\ UNCHANGED kernel

\* It ends, or its first packet is forgotten because it was dropped.
Close(c) ==
  /\ conns[c] # NoConn
  /\ conns' = [conns EXCEPT ![c] = NoConn]
  /\ UNCHANGED kernel

\* nft -f: the connections stay.
Commit(k) == kernel' = k /\ UNCHANGED conns

RulesetNext ==
  \/ \E c \in Connections : (\E p \in Packets : Open(c, p)) \/ Close(c)
  \/ \E k \in Configs : Commit(k)

RulesetSpec == RulesetInit /\ [][RulesetNext]_rulesetVars

-----------------------------------------------------------------------------
(* Properties.  The action properties are about Open, under the ruleset of the time. *)

RulesetTypeOK ==
  /\ kernel \in Configs
  /\ \A c \in Connections : conns[c] # NoConn =>
       /\ conns[c].first \in Packets /\ conns[c].open \in BOOLEAN /\ conns[c].from \in Hosts
       /\ conns[c].at.dst \in Hosts
       /\ conns[c].at.port \in IF conns[c].first.protocol = "icmp" THEN {NoPort} ELSE Ports
       /\ conns[c].at.dnat => conns[c].first.in # "self"

Opens(c) == conns[c] = NoConn /\ conns'[c] # NoConn

\* The accepting rules of a chain that are about a packet.
Allowed(k, chain, p) ==
  \E i \in DOMAIN k.rules : LET r == k.rules[i] IN
    /\ r.chain = chain /\ r.accepts /\ p.in \in r.sides /\ p.src \in r.src /\ p.dst \in r.dst
    /\ p.protocol \in r.protocols /\ p.port \in r.ports /\ (r.conditional => p.meets)

\* The port forward that leads to a host and a port.
ForwardedTo(k, p) ==
  \E i \in DOMAIN k.forwards : LET f == k.forwards[i] IN
    k.wan /\ p.in = "wan" /\ p.dst = f.host /\ p.protocol \in f.protocols /\ p.port \in InternalPorts(f)

OwnService(k, p) ==
  \/ p.protocol = "icmp" /\ p.in \in {"lan", "vpn"}
  \/ p.protocol = "tcp" /\ p.in = "lan" /\ p.port \in k.management
  \/ p.protocol = "udp" /\ ((p.in \in k.dhcp /\ p.port = 67) \/ p.port \in k.wireguard)
  \/ p.protocol \in {"tcp", "udp"} /\ p.in \in k.dns /\ p.port = 53

\* What goes through the firewall to port 443: the queue's, and what the drop of QUIC holds.
IsQueued(k, p) == ChainOf(p) = "forward" /\ k.sni /\ p.protocol = "tcp" /\ p.port = 443
IsQuic(p) == ChainOf(p) = "forward" /\ p.protocol = "udp" /\ p.port = 443

\* A connection the configuration asks for: to a service of the firewall's own, to the end of
\* a port forward (after DNAT), or allowed by a rule; not from or to a blocked country, nor
\* from an enforced interface to another resolver, nor QUIC where that is shut.
Lawful(k, r) ==
  LET p == r.at
      chain == ChainOf(p)
  IN /\ chain = "input" => OwnService(k, p) \/ Allowed(k, "input", p)
     /\ chain = "forward" => (p.dnat /\ ForwardedTo(k, p)) \/ Allowed(k, "forward", p)
     /\ k.inbound /\ chain # "output" => p.src \notin Country(k)
     /\ k.outbound /\ chain # "input" => p.dst \notin Country(k)
     /\ chain = "forward" /\ p.in \in Enforced(k) /\ p.protocol # "icmp" =>
          p.port \notin {53, 853} /\ (p.port = 443 => p.dst \notin Resolvers)
     /\ IsQuic(p) => ~QuicIsShut(k)

\* Nothing is opened that the configuration does not ask for, and what it forbids stays
\* shut whatever rules and port forwards allow, but for what the queue lets through (TLS
\* to anywhere, as long as nothing reads it).
OpensOnlyWhatIsAsked ==
  [][\A c \in Connections :
       Opens(c) /\ conns'[c].open => Lawful(kernel, conns'[c]) \/ IsQueued(kernel, conns'[c].at)]_rulesetVars

\* NAT and filter agree about a port forward and about a mapped host.
IsForwarded(k, r, f) ==
  LET p == r.first
      q == r.at
  IN /\ p.in = "wan" /\ p.dst \in Own /\ \A i \in DOMAIN k.mappings : k.mappings[i].external # p.dst
     /\ p.protocol \in f.protocols /\ p.port \in f.first..f.last
     => /\ q.dst = f.host /\ q.port = (p.port - f.first) + f.internal
        /\ \/ r.open \/ p.flood
           \/ k.inbound /\ p.src \in Country(k)
           \/ k.outbound /\ q.dst \in Country(k)
           \/ QuicIsShut(k) /\ IsQuic(q)
IsMapped(r, m) ==
  LET p == r.first
      q == r.at
  IN /\ p.in = "wan" /\ p.dst = m.external => q.dst = m.internal /\ q.port = p.port
     /\ p.src = m.internal /\ q.out = "wan" => r.from = m.external

\* A port forward leads to its host and port, past any rule, unless it leads to QUIC and that
\* is shut, or its address is mapped as a whole, and then that mapping wins; what is for the
\* outside address of a mapped host is sent on to the host, and the host is seen outside by it.
NatDelivers ==
  [][\A c \in Connections : Opens(c) /\ kernel.wan =>
       /\ \A i \in DOMAIN kernel.forwards : IsForwarded(kernel, conns'[c], kernel.forwards[i])
       /\ \A i \in DOMAIN kernel.mappings : IsMapped(conns'[c], kernel.mappings[i])]_rulesetVars

\* What NatDelivers is about: no port of a protocol is forwarded twice (the check of port
\* forwards, unless what it read is out of date) and no address is mapped twice (two UNIQUE
\* columns).
NatIsClear(k) ==
  /\ \A i, j \in DOMAIN k.forwards : i # j =>
       \/ k.forwards[i].protocols \intersect k.forwards[j].protocols = {}
       \/ k.forwards[i].last < k.forwards[j].first \/ k.forwards[j].last < k.forwards[i].first
  /\ \A i, j \in DOMAIN k.mappings : i # j =>
       k.mappings[i].external # k.mappings[j].external /\ k.mappings[i].internal # k.mappings[j].internal

\* A packet for the administration or the resolver: of the firewall, or of any host where
\* DNS is enforced.
ForOwnService(k, p) ==
  LET dns == p.port = 53 /\ p.protocol # "icmp"
  IN \/ p.dst \in Own /\ p.in = "lan" /\ p.protocol = "tcp" /\ p.port \in k.management
     \/ p.dst \in Own /\ p.in \in k.dns /\ dns
     \/ k.wan /\ p.in \in Enforced(k) /\ dns

\* Whatever the rules say and whatever list was imported for a blocked country, who has a
\* private address reaches the administration from the LAN, and a DNS query of an interface
\* that is served is answered, by the firewall if DNS is enforced there.
Answered(k, r) ==
  ForOwnService(k, r.first) /\ r.first.src \in Protected => ChainOf(r.at) = "input" /\ (r.open \/ r.first.flood)
OwnServicesAnswer ==
  [][\A c \in Connections : Opens(c) => Answered(kernel, conns'[c])]_rulesetVars

\* The packets of a connection after its first, and those of its answer.
Onward(p) == {[p EXCEPT !.state = "established", !.flood = v[1], !.meets = v[2]] : v \in BOOLEAN \X BOOLEAN}
Answer(p) ==
  [p EXCEPT !.in = p.out, !.out = p.in, !.src = p.dst, !.dst = p.src,
            !.port = IF p.protocol = "icmp" THEN NoPort ELSE Ephemeral]

\* No commit cuts a connection through the firewall, whatever it blocks from then on, but for
\* one of QUIC where that gets shut: its drop comes before what lets replies through.  What
\* the firewall itself sends is judged packet by packet: only a blocked country or a rule of
\* OUTPUT holds back its answers, nothing those it gets.
ConnectionsGoOn ==
  \A c \in Connections : conns[c] # NoConn /\ conns[c].open =>
    LET p == conns[c].at
    IN \A q \in Onward(p) \union Onward(Answer(p)) :
         \/ Filtered(kernel, q)
         \/ QuicIsShut(kernel) /\ IsQuic(q)
         \/ /\ q.in = "self"
            /\ \/ kernel.outbound /\ q.dst \in Country(kernel)
               \/ \E i \in DOMAIN kernel.rules : LET r == kernel.rules[i] IN
                    r.chain = "output" /\ ~r.accepts /\ q.out \in r.sides /\ q.dst \in r.dst
=============================================================================
