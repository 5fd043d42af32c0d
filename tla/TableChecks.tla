----------------------------- MODULE TableChecks -----------------------------
(***************************************************************************)
(* What the services check of a row before they write it, for six tables   *)
(* that are committed (port forwards, 1:1 NAT, static routes, DHCP         *)
(* reservations, DNS records, WireGuard peers) and three lists that are    *)
(* read as they are (Geo-IP policies, DNS filter rules, SNI rules).  A row *)
(* keeps only the columns the checks read.  A name stands for all its      *)
(* spellings in upper and lower case, a set of hosts for a network or a    *)
(* list of networks.                                                       *)
(*                                                                         *)
(* Whether a row is enabled is left out: no check reads it ("Disabled      *)
(* rules count too").                                                      *)
(***************************************************************************)
EXTENDS Naturals, FiniteSets

CONSTANTS
  Ports,      \* port numbers
  Hosts,      \* addresses
  Networks,   \* sets of addresses: networks, lists of networks
  Names,      \* names of peers, hosts, countries and domains
  Keys,       \* MAC addresses, public keys and metrics
  Spellings,  \* ways to write one network: 2001:db8::/48, 2001:db8:0::/48
  NoName,     \* a reservation without hostname
  NoHost,     \* a DHCP server without gateway
  NoConfig    \* a table without configuration

ASSUME ChecksAssumption ==
  /\ Ports \subseteq Nat /\ Hosts \subseteq Nat
  /\ Networks \subseteq (SUBSET Hosts) \ {{}}
  /\ \A h \in Hosts : {h} \in Networks
  /\ NoName \notin Names /\ NoHost \notin Hosts

Committed == {"port_forward", "one_to_one_nat", "route", "reservation", "record", "peer"}
Lists == {"geoip_policy", "filter_rule", "sni_rule"}
Tables == Committed \union Lists

-----------------------------------------------------------------------------
(* The rows that a service accepts by themselves. *)

PortForwards ==
  {v \in [protocol : {"tcp", "udp", "both"}, first : Ports, last : Ports] : v.first <= v.last}
Mappings == {v \in [external : Hosts, internal : Hosts] : v.external # v.internal}
Routes == [destination : Hosts, spelling : Spellings, metric : Keys]
Reservations == [mac : Keys, ip : Hosts, hostname : Names \union {NoName}]
Records == [hostname : Names]
Peers == [name : Names, key : Keys, nets : Networks]
Policies == [country : Names]
FilterRules == [domain : Names]
SniRules == [domain : Names]

Values(table) ==
  CASE table = "port_forward" -> PortForwards
    [] table = "one_to_one_nat" -> Mappings
    [] table = "route" -> Routes
    [] table = "reservation" -> Reservations
    [] table = "record" -> Records
    [] table = "peer" -> Peers
    [] table = "geoip_policy" -> Policies
    [] table = "filter_rule" -> FilterRules
    [] table = "sni_rule" -> SniRules

-----------------------------------------------------------------------------
(* The configurations that set_config accepts by themselves. *)

\* A subnet, and a gateway in it if there is one.
DhcpServers ==
  {c \in [lan : {n \in Networks : Cardinality(n) > 1}, gateway : Hosts \union {NoHost}] :
     c.gateway \in c.lan \union {NoHost}}

\* Whether DNS is on, has a domain and serves the hostnames of DHCP.
DnsServers == [enabled : BOOLEAN, domain : BOOLEAN, leases : BOOLEAN]

\* The address of the tunnel's own end.
WireguardServers == [server : Hosts]

Configs(table) ==
  CASE table = "reservation" -> DhcpServers
    [] table = "record" -> DnsServers
    [] table = "peer" -> WireguardServers
    [] OTHER -> {NoConfig}

-----------------------------------------------------------------------------
(* Two rows that a service refuses to have side by side.  Of a route it compares the text. *)

ProtocolsOverlap(a, b) == a = "both" \/ b = "both" \/ a = b
ForwardsOverlap(v, w) ==
  ProtocolsOverlap(v.protocol, w.protocol) /\ v.first <= w.last /\ w.first <= v.last
MappingsConflict(v, w) == {v.external, v.internal} \intersect {w.external, w.internal} # {}
ReservationsClash(v, w) ==
  v.mac = w.mac \/ v.ip = w.ip \/ (v.hostname = w.hostname /\ v.hostname # NoName)
NetworksOverlap(v, w) == v.nets \intersect w.nets # {}
PeersClash(v, w) == v.name = w.name \/ v.key = w.key \/ NetworksOverlap(v, w)

Collide(table, v, w) ==
  CASE table = "port_forward" -> ForwardsOverlap(v, w)
    [] table = "one_to_one_nat" -> MappingsConflict(v, w)
    [] table = "reservation" -> ReservationsClash(v, w)
    [] table = "peer" -> PeersClash(v, w)
    [] OTHER -> v = w

\* Two rows that a UNIQUE column of the table refuses.
Duplicate(table, v, w) ==
  CASE table = "one_to_one_nat" -> v.external = w.external \/ v.internal = w.internal
    [] table = "reservation" -> v.mac = w.mac \/ v.ip = w.ip
    [] table = "peer" -> v.name = w.name \/ v.key = w.key
    [] table \in {"record"} \union Lists -> v = w
    [] OTHER -> FALSE

-----------------------------------------------------------------------------
(* A row and its configuration. *)

InSubnet(v, config) == v.ip \in config.lan /\ v.ip # config.gateway
OffServer(v, config) == config.server \notin v.nets

Fits(table, v, config) ==
  CASE table = "reservation" -> InSubnet(v, config)
    [] table = "peer" -> OffServer(v, config)
    [] OTHER -> TRUE

\* DNS needs a domain as soon as it has names to serve.
Complete(table, config, rows) ==
  table = "record" /\ config.enabled /\ (config.leases \/ DOMAIN rows # {}) => config.domain

-----------------------------------------------------------------------------
(* The rows that the generators write. *)

\* DhcpGenerator leaves out what does not fit.
ServedReservations(config, rows) == {n \in DOMAIN rows : InSubnet(rows[n], config)}

\* WireguardGenerator takes the peers in the order of their ids and leaves out those that do
\* not fit or get in the way of an earlier one that it has taken.
Takes(n, taken, config, rows) ==
  /\ OffServer(rows[n], config)
  /\ \A m \in taken : m < n => rows[m].key # rows[n].key /\ ~NetworksOverlap(rows[m], rows[n])
ServedPeers(config, rows) ==
  CHOOSE served \in SUBSET DOMAIN rows :
    \A n \in DOMAIN rows : n \in served <=> Takes(n, served, config, rows)

\* RouteGenerator compares networks, however they are written, and takes the routes of one
\* metric in the order of their ids.
SameRoute(v, w) == v.destination = w.destination /\ v.metric = w.metric
ServedRoutes(rows) ==
  {n \in DOMAIN rows : \A m \in DOMAIN rows : m < n => ~SameRoute(rows[m], rows[n])}

Served(table, config, rows) ==
  CASE table = "reservation" -> ServedReservations(config, rows)
    [] table = "peer" -> ServedPeers(config, rows)
    [] table = "route" -> ServedRoutes(rows)
    [] OTHER -> DOMAIN rows

\* next_free_address: the first address that is neither the server's nor a peer's.
Free(config, rows) == {h \in Hosts : h # config.server /\ \A n \in DOMAIN rows : h \notin rows[n].nets}
=============================================================================
