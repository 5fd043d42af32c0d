------------------------------ MODULE SniFilter ------------------------------
(***************************************************************************)
(* The filter on site names.  The kernel queues the packets of each HTTPS  *)
(* connection to one thread (queue.rs), which collects the first bytes     *)
(* that the client sends, in whatever order the packets come (engine.rs),  *)
(* until the ClientHello is whole (parser.rs), decides (matcher.rs), and   *)
(* either drops every packet from then on or marks the connection so that  *)
(* it is not queued again.                                                 *)
(*                                                                         *)
(* The network may reorder, repeat and lose packets, and deliver a         *)
(* leftover of an earlier connection between the same ports: a SYN or      *)
(* bytes that count from another initial number.  A byte is a cell: the    *)
(* client's own, or foreign.  Sequence numbers wrap at Space.  A server    *)
(* gets the client's cells in every packet that is accepted.               *)
(***************************************************************************)
EXTENDS Integers, FiniteSets

CONSTANTS
  Conns,          \* connections (FlowKey)
  Space,          \* sequence numbers: 2^32 in the code
  FirstSeqs,      \* initial sequence numbers
  Hellos,         \* what clients send first: its length in cells, what the parser says of it
  Policies,       \* policies that may be in force
  MaxBuffer,      \* MAX_BUFFER, in cells
  MaxDataPackets, \* MAX_DATA_PACKETS
  MaxFlows,       \* max_flows
  SweepEvery, IdleTime,   \* SWEEP_EVERY, idle, in ticks
  Unset,          \* no base yet
  MaxTime, MaxPackets     \* bounds: ticks, packets

\* A name is decided by the most specific of the domains it ends in that has a rule;
\* domain n has n labels.
Results == {"name", "noName", "notTls", "malformed"}
AllPolicies ==
  [enabled : BOOLEAN, blockNoName : BOOLEAN, blockMalformed : BOOLEAN,
   blocked : SUBSET (1..3), allowed : SUBSET (1..3)]

ASSUME SniAssumption ==
  /\ {Space, MaxBuffer, MaxDataPackets, MaxFlows, MaxTime, MaxPackets} \subseteq Nat \ {0}
  /\ {SweepEvery, IdleTime} \subseteq Nat \ {0}
  /\ FirstSeqs \subseteq 0..(Space - 1) /\ 2 * MaxBuffer <= Space /\ Unset \notin Nat
  /\ Hellos \subseteq [length : Nat \ {0}, labels : 1..3, result : Results]
  /\ Policies \subseteq AllPolicies

VARIABLES
  hello, first,   \* of each connection: what it sends, and its initial sequence number
  flows,          \* SniEngine.flows
  lastSweep, now, \* SniEngine.last_sweep, the clock
  policy,         \* PolicyHandle
  opened,         \* connections that a SYN came for
  marked,         \* connections with the trust mark
  got,            \* the cells of its hello that the server of a connection got
  excused,        \* ghost: connections that the filter may be wrong about
  packets         \* packets so far

engine == <<flows, lastSweep>>
vars == <<hello, first, engine, now, policy, opened, marked, got, excused, packets>>

Cells(k) == 0..(hello[k].length - 1)
Flow(stage, base) == [stage |-> stage, seen |-> now, base |-> base, data |-> <<>>, dataPackets |-> 0]

FlowOK(f) ==
  /\ f.stage \in {"collecting", "passed", "blocked"} /\ f.seen \in 0..now
  /\ f.base \in 0..(Space - 1) \union {Unset}
  /\ DOMAIN f.data \subseteq 0..(MaxBuffer - 1)
  /\ f.dataPackets \in 0..MaxDataPackets

TypeOK ==
  /\ hello \in [Conns -> Hellos] /\ first \in [Conns -> FirstSeqs]
  /\ DOMAIN flows \subseteq Conns /\ \A k \in DOMAIN flows : FlowOK(flows[k])
  /\ now \in 0..MaxTime /\ lastSweep \in 0..now
  /\ policy \in Policies
  /\ opened \union marked \union excused \subseteq Conns
  /\ \A k \in Conns : got[k] \subseteq Cells(k)
  /\ packets \in 0..MaxPackets

Init ==
  /\ hello \in [Conns -> Hellos] /\ first \in [Conns -> FirstSeqs]
  /\ flows = <<>> /\ lastSweep = 0 /\ now = 0
  /\ policy \in Policies
  /\ opened = {} /\ marked = {} /\ excused = {}
  /\ got = [k \in Conns |-> {}]
  /\ packets = 0

-----------------------------------------------------------------------------
(* matcher.rs *)

\* lookup: the name itself, then its parents, but never a bare ending.
Candidates(labels) == {n \in 1..labels : n = labels \/ n >= 2}
NameDropped(p, labels) ==
  LET ruled == Candidates(labels) \intersect (p.blocked \union p.allowed)
  IN ruled # {} /\ (CHOOSE n \in ruled : \A m \in ruled : m <= n) \notin p.allowed

\* decide
Dropped(p, result, labels) ==
  p.enabled /\ CASE result = "notTls" -> FALSE
                 [] result = "noName" -> p.blockNoName
                 [] result = "malformed" -> p.blockMalformed
                 [] result = "name" -> NameDropped(p, labels)

-----------------------------------------------------------------------------
(* The collector *)

\* A segment: where it starts, its length, whether its cells are the client's, and the
\* initial number it counts from.  A SYN has the first cells, or none.
OwnCounts(k, s) == s.own => s.from = first[k]
Segments(k) ==
  {s \in [at : Cells(k), length : 1..hello[k].length, own : BOOLEAN, from : FirstSeqs] :
     s.at + s.length <= hello[k].length /\ OwnCounts(k, s)}
Syns(k) == {s \in [at : {0}, length : 0..hello[k].length, own : BOOLEAN, from : FirstSeqs] : OwnCounts(k, s)}
SegmentSeq(s) == (s.from + 1 + s.at) % Space
Sent(s) == IF s.own THEN s.at..(s.at + s.length - 1) ELSE {}

\* Mutant of Offset: no wrapping_sub.
OffsetSub(base, seq) == IF seq < base THEN MaxBuffer ELSE seq - base

Offset(base, seq) == (seq - base) % Space
Ignored(f, s) == Offset(f.base, SegmentSeq(s)) >= Space \div 2 \/ Offset(f.base, SegmentSeq(s)) >= MaxBuffer

\* The places of a segment in the buffer: none before the base or beyond the end.
Places(f, s) ==
  LET from == Offset(f.base, SegmentSeq(s))
  IN IF Ignored(f, s) THEN {} ELSE from..(from + s.length - 1) \intersect 0..(MaxBuffer - 1)

\* Collector.add
Conflict(f, s) == \E i \in DOMAIN f.data \intersect Places(f, s) : f.data[i] # s.own
Stored(f, s) ==
  [i \in DOMAIN f.data \union Places(f, s) |-> IF i \in DOMAIN f.data THEN f.data[i] ELSE s.own]

\* Mutant of Have: gaps are not seen.
HaveAny(data) == Cardinality(DOMAIN data)

\* contiguous
Have(data) == CHOOSE n \in 0..MaxBuffer : 0..(n - 1) \subseteq DOMAIN data /\ n \notin DOMAIN data

\* parse_client_hello: what it says of the first cells of a hello; of any others it may
\* say anything.
Parsed(k, base, data) ==
  LET have == Have(data)
      own == base = (first[k] + 1) % Space /\ \A i \in 0..(have - 1) : i \in DOMAIN data /\ data[i]
  IN IF have = 0 THEN {"needMore"}
     ELSE IF ~own THEN Results \union {"needMore"}
     ELSE IF have < hello[k].length THEN {"needMore"} ELSE {hello[k].result}

\* Mutant of Judged: no limit on the packets.
JudgedAnyNumber(k, f, s) ==
  IF Conflict(f, s) THEN {"malformed"}
  ELSE {IF r = "needMore" /\ Have(Stored(f, s)) >= MaxBuffer THEN "malformed" ELSE r :
          r \in Parsed(k, f.base, Stored(f, s))}

\* Collector.handle
Judged(k, f, s) ==
  IF Conflict(f, s) \/ f.dataPackets + 1 > MaxDataPackets THEN {"malformed"}
  ELSE {IF r = "needMore" /\ Have(Stored(f, s)) >= MaxBuffer THEN "malformed" ELSE r :
          r \in Parsed(k, f.base, Stored(f, s))}

-----------------------------------------------------------------------------
(* The table of flows *)

Without(f, K) == [k \in DOMAIN f \ K |-> f[k]]
Put(f, k, flow) == [j \in DOMAIN f \union {k} |-> IF j = k THEN flow ELSE f[j]]

\* sweep
Fresh(f) == Without(f, {k \in DOMAIN f : now - f[k].seen >= IdleTime})
SweepDue == now - lastSweep >= SweepEvery
Swept == IF SweepDue THEN Fresh(flows) ELSE flows

\* Mutant of Roomy: one flow more.
RoomyAtLimit(f) == Cardinality(DOMAIN f) <= MaxFlows

Roomy(f) == Cardinality(DOMAIN f) < MaxFlows

\* make_room: the oldest tenth goes; among flows of one age the sort may take any.
Evicted(f) ==
  LET tenth == IF MaxFlows \div 10 > 1 THEN MaxFlows \div 10 ELSE 1
      oldest == {K \in SUBSET DOMAIN f : /\ Cardinality(K) = tenth
                                         /\ \A k \in K, j \in DOMAIN f \ K : f[k].seen <= f[j].seen}
  IN {Without(f, K) : K \in oldest}
MakeRoom(f) == IF Roomy(f) THEN {f} ELSE IF Roomy(Fresh(f)) THEN {Fresh(f)} ELSE Evicted(Fresh(f))

\* Sweep and eviction left f; whoever lost its flow may be misjudged from now on.
Sweeps(f) == lastSweep' = IF SweepDue \/ ~Roomy(f) THEN now ELSE lastSweep
Forgets(f, more) == excused' = excused \union (DOMAIN flows \ DOMAIN f) \union more
Excuse(condition, k) == IF condition THEN {k} ELSE {}

-----------------------------------------------------------------------------
(* run, judge and on_packet: one packet *)

Packet == packets < MaxPackets /\ packets' = packets + 1
Constant == UNCHANGED <<hello, first, now, policy>>

\* With the filter off every packet is accepted and its connection marked.
PassDisabled(k, cells) ==
  /\ Packet /\ ~policy.enabled
  /\ marked' = marked \union {k} /\ got' = [got EXCEPT ![k] = @ \union cells]
  /\ UNCHANGED <<engine, excused>> /\ Constant

\* A packet may have been queued before its connection was marked.
Comes(k) == k \notin marked \/ k \in DOMAIN flows

\* A RST is the end of a connection.
Rst(k) ==
  /\ Packet /\ k \in opened /\ Comes(k) /\ policy.enabled
  /\ flows' = Without(Swept, {k})
  /\ lastSweep' = IF SweepDue THEN now ELSE lastSweep
  /\ Forgets(flows', {k})
  /\ UNCHANGED <<opened, marked, got>> /\ Constant

Accept(k, s) == got' = [got EXCEPT ![k] = @ \union Sent(s)]

\* A flow that is decided has no use for its bytes.
Decide(k, f, g, s) ==
  \E result \in Judged(k, g, s) :
    IF result = "needMore"
    THEN /\ flows' = Put(f, k, [g EXCEPT !.data = Stored(g, s), !.dataPackets = @ + 1])
         /\ Accept(k, s) /\ UNCHANGED marked
    ELSE IF Dropped(policy, result, hello[k].labels)
    THEN flows' = Put(f, k, Flow("blocked", Unset)) /\ UNCHANGED <<got, marked>>
    ELSE flows' = Put(f, k, Flow("passed", Unset)) /\ Accept(k, s) /\ marked' = marked \union {k}

\* Any SYN starts the collection over, from its own number.  The connection's own, before
\* the server has any of its cells, settles what was wrong with it; any other may mislead.
Syn(k, s) ==
  /\ Comes(k)
  /\ opened' = opened \union {k}
  /\ \/ PassDisabled(k, Sent(s))
     \/ /\ Packet /\ policy.enabled
        /\ Sweeps(Swept)
        /\ \E f \in MakeRoom(Swept) :
             LET new == Flow("collecting", (s.from + 1) % Space)
                 other == ~s.own \/ got[k] # {} \/ k \in marked
             IN /\ IF s.length = 0 THEN flows' = Put(f, k, new) /\ UNCHANGED <<got, marked>> ELSE Decide(k, f, new, s)
                /\ excused' = ((excused \union (DOMAIN flows \ DOMAIN f)) \ {k}) \union Excuse(other, k)
        /\ Constant

Data(k, s) ==
  /\ k \in opened /\ Comes(k)
  /\ UNCHANGED opened
  /\ \/ PassDisabled(k, Sent(s))
     \/ /\ Packet /\ policy.enabled
        /\ IF k \in DOMAIN Swept THEN lastSweep' = IF SweepDue THEN now ELSE lastSweep ELSE Sweeps(Swept)
        /\ \E f \in IF k \in DOMAIN Swept THEN {Swept} ELSE MakeRoom(Swept) :
             LET old == IF k \in DOMAIN f THEN [f[k] EXCEPT !.seen = now] ELSE Flow("collecting", SegmentSeq(s))
                 limit == old.dataPackets + 1 > MaxDataPackets
             IN /\ CASE old.stage = "passed" -> flows' = Put(f, k, old) /\ Accept(k, s) /\ UNCHANGED marked
                     [] old.stage = "blocked" -> flows' = Put(f, k, old) /\ UNCHANGED <<got, marked>>
                     [] old.stage = "collecting" -> Decide(k, f, old, s)
                /\ Forgets(f, Excuse(~s.own \/ limit, k))
        /\ Constant

\* The engine does not read a fragment; the kernel lets every packet by when its queue is
\* full (set_fail_open).
Unread(k, s) ==
  /\ Packet /\ (k \in opened \/ s \in Syns(k)) /\ s.own
  /\ opened' = opened \union {k}
  /\ Accept(k, s) /\ excused' = excused \union {k}
  /\ UNCHANGED <<engine, marked>> /\ Constant

DropFragment(k) ==
  /\ Packet /\ k \in opened /\ Dropped(policy, "malformed", 1)
  /\ UNCHANGED <<engine, opened, marked, got, excused>> /\ Constant

\* PolicyHandle.set; connections that are open may be judged by either.
SetPolicy(p) ==
  /\ p # policy /\ policy' = p
  /\ excused' = excused \union opened
  /\ UNCHANGED <<hello, first, engine, now, opened, marked, got, packets>>

Tick ==
  /\ now < MaxTime /\ now' = now + 1
  /\ UNCHANGED <<hello, first, engine, policy, opened, marked, got, excused, packets>>

Next ==
  \/ \E k \in Conns : \/ Rst(k) \/ DropFragment(k)
                      \/ \E s \in Syns(k) : Syn(k, s) \/ Unread(k, s)
                      \/ \E s \in Segments(k) : Data(k, s) \/ Unread(k, s)
  \/ \E p \in Policies : SetPolicy(p)
  \/ Tick

Spec == Init /\ [][Next]_vars
-----------------------------------------------------------------------------
(* Properties *)

\* make_room: "max_flows" bounds the table, whatever opens.
FlowsBounded == Cardinality(DOMAIN flows) <= MaxFlows

\* What the engine should decide of a connection, and the cells it needs for that: a hello
\* that does not fit the buffer is malformed.
Verdict(k) ==
  Dropped(policy, IF hello[k].length > MaxBuffer THEN "malformed" ELSE hello[k].result, hello[k].labels)
Decisive(k) == Cells(k) \intersect 0..(MaxBuffer - 1)

\* In whatever order, how often and cut how the segments of a hello come, if the policy
\* says drop the server never gets all of it and the connection is not marked.  Excused is a
\* connection since its flow was swept, evicted or reset, since a SYN or bytes that are not
\* its own or a SYN after its first bytes, since a packet beyond MaxDataPackets or one that
\* the engine did not read, or since the policy was changed while it was open; its own SYN
\* before its first bytes ends that.
BlockedStaysOut ==
  \A k \in Conns \ excused : Verdict(k) => k \notin marked /\ ~(Decisive(k) \subseteq got[k])

\* If it says accept, no packet of the connection is dropped, and it is marked by the time
\* the server has the hello: an engine that misses a piece would queue it for ever.  Excused
\* are the same connections.
AllowedStaysIn ==
  \A k \in Conns \ excused : ~Verdict(k) =>
    /\ k \in DOMAIN flows => flows[k].stage # "blocked"
    /\ Decisive(k) \subseteq got[k] => k \in marked
=============================================================================
