---------------------------- MODULE PacketProofs ----------------------------
(***************************************************************************)
(* Proofs about what the firewall does with packets.                       *)
(*                                                                         *)
(* SniFilter, for any connections, sequence space, hellos, policies and    *)
(* limits: the table stays within its bound, and the filter decides as the *)
(* policy says however the segments of a hello come.                       *)
(*                                                                         *)
(* Ruleset, for any hosts, ports and configurations: what the generated    *)
(* chains open, forward, map, answer and keep open.  A chain is judged     *)
(* block by block: a block gives its verdict to the packets it matches and *)
(* leaves the others to the blocks after it (TargetJoined).                *)
(***************************************************************************)
EXTENDS SniFilter, Ruleset, SequenceTheorems, FiniteSetTheorems, NaturalsInduction, WellFoundedInduction, TLAPS

-----------------------------------------------------------------------------
(* SniFilter. *)

Buffer == 0..(MaxBuffer - 1)
Base(k) == (first[k] + 1) % Space

\* The table and its records in full.
FlowType(f) ==
  /\ f = [stage |-> f.stage, seen |-> f.seen, base |-> f.base, data |-> f.data, dataPackets |-> f.dataPackets]
  /\ \A i \in DOMAIN f.data : f.data[i] \in BOOLEAN
RecordInv ==
  /\ \A k \in DOMAIN flows : FlowType(flows[k])
  /\ got \in [Conns -> SUBSET Nat]
  /\ IsFiniteSet(DOMAIN flows)

\* A connection whose SYN has not passed has left no trace.
UnopenedInv == \A k \in Conns \ opened : k \notin DOMAIN flows /\ k \notin marked /\ got[k] = {}

\* While a hello is collected the buffer holds the client's own cells, and all of them that
\* the server has; what is missing is still to be decided on.
Collected(k, f) ==
  /\ f.base = Base(k) /\ k \notin marked
  /\ \A i \in DOMAIN f.data : f.data[i] = TRUE
  /\ got[k] \intersect Buffer \subseteq DOMAIN f.data
  /\ ~(Decisive(k) \subseteq DOMAIN f.data)
Decided(k, stage) ==
  /\ stage = "blocked" => Verdict(k) /\ k \notin marked /\ ~(Decisive(k) \subseteq got[k])
  /\ stage = "passed" => ~Verdict(k) /\ k \in marked
Followed(k) ==
  IF policy.enabled
  THEN /\ k \in DOMAIN flows
       /\ flows[k].stage = "collecting" => Collected(k, flows[k])
       /\ Decided(k, flows[k].stage)
  ELSE k \notin DOMAIN flows /\ k \in marked
FollowedInv == \A k \in opened \ excused : Followed(k)

IInv == TypeOK /\ RecordInv /\ UnopenedInv /\ FollowedInv /\ FlowsBounded

LEMMA Limits ==
  /\ Space \in Nat \ {0} /\ MaxBuffer \in Nat \ {0} /\ 2 * MaxBuffer <= Space
  /\ MaxDataPackets \in Nat \ {0} /\ MaxFlows \in Nat \ {0}
  /\ MaxTime \in Nat \ {0} /\ MaxPackets \in Nat \ {0}
  /\ FirstSeqs \subseteq 0..(Space - 1) /\ Unset \notin Nat
  /\ \A h \in Hellos : h.length \in Nat \ {0} /\ h.result \in Results
BY SniAssumption

LEMMA HelloOf ==
  ASSUME TypeOK, NEW k \in Conns
  PROVE  hello[k].length \in Nat \ {0} /\ hello[k].result \in Results /\ first[k] \in 0..(Space - 1)
BY Limits DEF TypeOK

\* Arithmetic of sequence numbers.
LEMMA Mod ==
  ASSUME NEW n \in Nat \ {0}, NEW x \in Int
  PROVE  /\ x % n \in 0..(n - 1)
         /\ x \in 0..(n - 1) => x % n = x
         /\ x - n \in 0..(n - 1) => x % n = x - n
         /\ x + n \in 0..(n - 1) => x % n = x + n
<1>1. x % n \in 0..(n - 1)
  OBVIOUS
<1>2. x \in 0..(n - 1) => x % n = x
  OBVIOUS
<1>3. x - n \in 0..(n - 1) => x % n = x - n
  OBVIOUS
<1>4. x + n \in 0..(n - 1) => x % n = x + n
  OBVIOUS
<1>5. QED
  BY <1>1, <1>2, <1>3, <1>4

\* The offset of what comes s numbers after the base.
LEMMA WrappingSub ==
  ASSUME NEW n \in Nat \ {0}, NEW a \in 0..(n - 1), NEW s \in 0..(n - 1)
  PROVE  (((a + 1 + s) % n) - ((a + 1) % n)) % n = s
<1>1. PICK b \in Int : b = (a + 1) % n
  OBVIOUS
<1>2. PICK c \in Int : c = (a + 1 + s) % n
  OBVIOUS
<1>3. b = IF a = n - 1 THEN 0 ELSE a + 1
  <2>1. PICK x \in Int : x = a + 1
    OBVIOUS
  <2>2. x % n = IF x < n THEN x ELSE x - n
    <3>1. x < n => x \in 0..(n - 1)
      BY <2>1
    <3>2. ~(x < n) => x - n \in 0..(n - 1)
      BY <2>1
    <3>3. QED
      BY <3>1, <3>2, Mod
  <2>3. QED
    BY <1>1, <2>1, <2>2
<1>4. c = IF a + 1 + s < n THEN a + 1 + s ELSE a + 1 + s - n
  <2>1. PICK x \in Int : x = a + 1 + s
    OBVIOUS
  <2>2. x % n = IF x < n THEN x ELSE x - n
    <3>1. x < n => x \in 0..(n - 1)
      BY <2>1
    <3>2. ~(x < n) => x - n \in 0..(n - 1)
      BY <2>1
    <3>3. QED
      BY <3>1, <3>2, Mod
  <2>3. QED
    BY <1>2, <2>1, <2>2
<1>5. PICK d \in Int : d = c - b
  OBVIOUS
<1>6. d = s \/ d = s - n
  BY <1>3, <1>4, <1>5
<1>7. d % n = s
  BY <1>6, Mod
<1>8. QED
  BY <1>1, <1>2, <1>5, <1>7

\* A segment lies where its sequence number says, wherever the numbers wrap.
LEMMA Wrap ==
  ASSUME TypeOK, NEW k \in Conns, NEW s, s.at \in 0..(Space - 1), s.from = first[k]
  PROVE  Offset(Base(k), SegmentSeq(s)) = s.at
<1>1. first[k] \in 0..(Space - 1) /\ Space \in Nat \ {0}
  BY HelloOf, Limits
<1>2. (((first[k] + 1 + s.at) % Space) - ((first[k] + 1) % Space)) % Space = s.at
  BY <1>1, WrappingSub
<1>3. Offset(Base(k), SegmentSeq(s)) = (((first[k] + 1 + s.at) % Space) - ((first[k] + 1) % Space)) % Space
  BY DEF Offset, SegmentSeq, Base
<1>4. QED
  BY <1>2, <1>3

\* Where a sequence number may be.
LEMMA Numbers ==
  ASSUME NEW s, s.at \in Nat, s.from \in FirstSeqs
  PROVE  SegmentSeq(s) \in 0..(Space - 1) /\ (s.from + 1) % Space \in 0..(Space - 1)
<1>1. PICK n \in FirstSeqs, a \in Nat : n = s.from /\ a = s.at
  BY Zenon
<1>2. n + 1 \in Int /\ n + 1 + a \in Int /\ Space \in Nat \ {0}
  BY Limits
<1>3. (n + 1) % Space \in 0..(Space - 1) /\ (n + 1 + a) % Space \in 0..(Space - 1)
  BY <1>2, Mod
<1>4. QED
  BY <1>1, <1>3, Zenon DEF SegmentSeq

\* The first gap in the buffer.
LEMMA FirstGap ==
  ASSUME NEW data, DOMAIN data \subseteq Buffer
  PROVE  /\ Have(data) \in 0..MaxBuffer
         /\ 0..(Have(data) - 1) \subseteq DOMAIN data /\ Have(data) \notin DOMAIN data
<1> DEFINE S == {n \in Nat : n \notin DOMAIN data}
<1>1. MaxBuffer \in S
  BY Limits DEF Buffer
<1>2. \E n \in S : \A m \in S : ~(<<m, n>> \in OpToRel(<, Nat))
  BY <1>1, NatLessThanWellFounded, WFMin
<1>3. PICK n \in S : \A m \in S : ~(<<m, n>> \in OpToRel(<, Nat))
  BY <1>2
<1>4. ASSUME NEW m \in Nat, m < n PROVE m \in DOMAIN data
  BY <1>3, <1>4 DEF OpToRel
<1>5. n <= MaxBuffer
  BY <1>1, <1>4, Limits
<1>6. n \in 0..MaxBuffer /\ 0..(n - 1) \subseteq DOMAIN data /\ n \notin DOMAIN data
  BY <1>4, <1>5, Limits
<1>7. QED
  BY <1>6 DEF Have

\* What the invariant says at the end.
LEMMA Consequences == IInv => BlockedStaysOut /\ AllowedStaysIn
<1> SUFFICES ASSUME IInv PROVE BlockedStaysOut /\ AllowedStaysIn
  OBVIOUS
<1>1. ASSUME NEW k \in Conns PROVE Decisive(k) # {} /\ Decisive(k) \subseteq Buffer
  <2>1. 0 \in Decisive(k)
    BY HelloOf, Limits DEF IInv, Decisive, Cells
  <2>2. QED
    BY <2>1 DEF Decisive, Buffer
<1>2. ASSUME NEW k \in Conns \ excused
      PROVE  /\ Verdict(k) => k \notin marked /\ ~(Decisive(k) \subseteq got[k])
             /\ ~Verdict(k) => /\ k \in DOMAIN flows => flows[k].stage # "blocked"
                               /\ Decisive(k) \subseteq got[k] => k \in marked
  <2>1. CASE k \notin opened
    BY <1>1, <2>1 DEF IInv, UnopenedInv
  <2>2. CASE k \in opened
    <3>1. Followed(k)
      BY <2>2 DEF IInv, FollowedInv
    <3>2. CASE ~policy.enabled
      BY <3>1, <3>2 DEF Followed, Verdict, Dropped
    <3>3. CASE policy.enabled
      <4>1. k \in DOMAIN flows /\ flows[k].stage \in {"collecting", "passed", "blocked"}
        BY <3>1, <3>3 DEF Followed, IInv, TypeOK, FlowOK
      <4>2. CASE flows[k].stage = "collecting"
        BY <1>1, <3>1, <3>3, <4>2 DEF Followed, Collected
      <4>3. CASE flows[k].stage # "collecting"
        BY <3>1, <3>3, <4>1, <4>3 DEF Followed, Decided
      <4>4. QED
        BY <4>2, <4>3
    <3>4. QED
      BY <3>2, <3>3
  <2>3. QED
    BY <2>1, <2>2
<1>3. QED
  BY <1>2 DEF BlockedStaysOut, AllowedStaysIn

-----------------------------------------------------------------------------
\* What the sweep and make_room leave of the table is as it was.
Kept(f) == DOMAIN f \subseteq DOMAIN flows /\ \A k \in DOMAIN f : f[k] = flows[k]

LEMMA SweptKept ==
  ASSUME RecordInv, FlowsBounded
  PROVE  /\ Kept(Swept) /\ Kept(Fresh(Swept))
         /\ IsFiniteSet(DOMAIN Swept) /\ Cardinality(DOMAIN Swept) \in 0..MaxFlows
         /\ IsFiniteSet(DOMAIN Fresh(Swept)) /\ Cardinality(DOMAIN Fresh(Swept)) \in 0..MaxFlows
<1>1. Kept(Fresh(flows)) /\ Kept(flows)
  BY DEF Kept, Fresh, Without
<1>2. Kept(Swept)
  BY <1>1 DEF Swept
<1>3. Kept(Fresh(Swept))
  <2>1. DOMAIN Fresh(Swept) \subseteq DOMAIN Swept /\ \A k \in DOMAIN Fresh(Swept) : Fresh(Swept)[k] = Swept[k]
    BY DEF Fresh, Without
  <2>2. QED
    BY <1>2, <2>1 DEF Kept
<1>4. ASSUME NEW f, Kept(f) PROVE IsFiniteSet(DOMAIN f) /\ Cardinality(DOMAIN f) \in 0..MaxFlows
  <2>1. IsFiniteSet(DOMAIN flows) /\ DOMAIN f \subseteq DOMAIN flows
    BY <1>4 DEF RecordInv, Kept
  <2>2. IsFiniteSet(DOMAIN f) /\ Cardinality(DOMAIN f) <= Cardinality(DOMAIN flows) /\ Cardinality(DOMAIN f) \in Nat
        /\ Cardinality(DOMAIN flows) \in Nat
    BY <2>1, FS_Subset, FS_CardinalityType
  <2>3. QED
    BY <2>2, Limits DEF FlowsBounded
<1>5. QED
  BY <1>2, <1>3, <1>4

\* make_room does make room: when sweeping is not enough, at least one flow goes.
LEMMA RoomMade ==
  ASSUME RecordInv, FlowsBounded, NEW f \in MakeRoom(Swept)
  PROVE  Kept(f) /\ IsFiniteSet(DOMAIN f) /\ Cardinality(DOMAIN f) \in 0..(MaxFlows - 1)
<1> DEFINE g == Fresh(Swept)
<1>1. CASE f \in {Swept, g} /\ Roomy(f)
  BY <1>1, SweptKept, Limits DEF Roomy
<1>2. CASE f \in Evicted(g) /\ ~Roomy(g)
  <2>1. Kept(g) /\ IsFiniteSet(DOMAIN g) /\ Cardinality(DOMAIN g) = MaxFlows
    BY <1>2, SweptKept, Limits DEF Roomy
  <2>2. PICK K \in SUBSET DOMAIN g :
          f = Without(g, K) /\ Cardinality(K) = IF MaxFlows \div 10 > 1 THEN MaxFlows \div 10 ELSE 1
    BY <1>2 DEF Evicted
  <2>3. Cardinality(K) > 0 /\ Cardinality(K) \in Nat
    BY <2>2, Limits
  <2>4. DOMAIN f = DOMAIN g \ K /\ \A k \in DOMAIN f : f[k] = g[k]
    BY <2>2 DEF Without
  <2>5. IsFiniteSet(DOMAIN g \ K) /\ Cardinality(DOMAIN g \ K) = Cardinality(DOMAIN g) - Cardinality(DOMAIN g \cap K)
    BY <2>1, FS_Difference
  <2>6. DOMAIN g \cap K = K
    BY <2>2
  <2>7. Cardinality(DOMAIN f) = MaxFlows - Cardinality(K)
    BY <2>1, <2>4, <2>5, <2>6
  <2>8. Cardinality(DOMAIN f) \in Nat
    BY <2>4, <2>5, FS_CardinalityType
  <2>9. Kept(f)
    BY <2>1, <2>4 DEF Kept
  <2>10. QED
    BY <2>3, <2>4, <2>5, <2>7, <2>8, <2>9, Limits
<1>3. QED
  BY <1>1, <1>2 DEF MakeRoom

\* A flow is put into the table, which has room for it or has it already.
LEMMA PutFlow ==
  ASSUME NEW f, Kept(f), IsFiniteSet(DOMAIN f), Cardinality(DOMAIN f) \in 0..MaxFlows,
         NEW k, k \in DOMAIN f \/ Cardinality(DOMAIN f) \in 0..(MaxFlows - 1),
         NEW g, flows' = Put(f, k, g)
  PROVE  /\ DOMAIN flows' = DOMAIN f \union {k} /\ flows'[k] = g
         /\ \A j \in DOMAIN flows' \ {k} : j \in DOMAIN flows /\ flows'[j] = flows[j]
         /\ IsFiniteSet(DOMAIN flows') /\ Cardinality(DOMAIN flows') \in 0..MaxFlows
<1>1. DOMAIN flows' = DOMAIN f \union {k} /\ flows'[k] = g /\ \A j \in DOMAIN f \ {k} : flows'[j] = f[j]
  BY DEF Put
<1>2. IsFiniteSet(DOMAIN f \union {k})
      /\ Cardinality(DOMAIN f \union {k}) = IF k \in DOMAIN f THEN Cardinality(DOMAIN f) ELSE Cardinality(DOMAIN f) + 1
  BY FS_AddElement
<1>3. QED
  BY <1>1, <1>2, Limits DEF Kept

\* A step that is about one connection keeps the invariant if it keeps it of that one, and if
\* whoever loses its flow is excused.
LEMMA OneMoves ==
  ASSUME IInv, NEW k \in Conns, UNCHANGED <<hello, first, now, policy>>,
         DOMAIN flows' \subseteq DOMAIN flows \union {k},
         \A j \in DOMAIN flows' \ {k} : flows'[j] = flows[j],
         k \in DOMAIN flows' => FlowOK(flows'[k]) /\ FlowType(flows'[k]),
         IsFiniteSet(DOMAIN flows'), Cardinality(DOMAIN flows') \in 0..MaxFlows,
         lastSweep' \in {lastSweep, now}, packets' \in 0..MaxPackets,
         excused \ {k} \subseteq excused', excused' \subseteq Conns, DOMAIN flows \ DOMAIN flows' \subseteq excused' \union {k},
         got' \in [Conns -> SUBSET Nat], got'[k] \subseteq Cells(k), \A j \in Conns \ {k} : got'[j] = got[j],
         marked \subseteq marked', marked' \subseteq marked \union {k},
         opened' = opened \union {k},
         k \notin excused' => Followed(k)'
  PROVE  IInv'
<1>1. TypeOK /\ RecordInv
  BY DEF IInv
<1>2. TypeOK'
  <2>1. hello' \in [Conns -> Hellos] /\ first' \in [Conns -> FirstSeqs] /\ now' \in 0..MaxTime
        /\ policy' \in Policies /\ packets' \in 0..MaxPackets
    BY <1>1 DEF TypeOK
  <2>2. DOMAIN flows' \subseteq Conns
    BY <1>1 DEF TypeOK
  <2>3. ASSUME NEW j \in DOMAIN flows' PROVE FlowOK(flows[j])'
    <3>1. FlowOK(flows'[j])
      BY <1>1, <2>3 DEF TypeOK
    <3>2. QED
      BY <3>1 DEF FlowOK
  <2>4. lastSweep' \in 0..now'
    BY <1>1 DEF TypeOK
  <2>5. opened' \union marked' \union excused' \subseteq Conns
    BY <1>1 DEF TypeOK
  <2>6. ASSUME NEW j \in Conns PROVE got'[j] \subseteq Cells(j)'
    BY <1>1 DEF TypeOK, Cells
  <2>7. QED
    BY <2>1, <2>2, <2>3, <2>4, <2>5, <2>6 DEF TypeOK
<1>3. RecordInv'
  <2>1. ASSUME NEW j \in DOMAIN flows' PROVE FlowType(flows'[j])
    BY <1>1, <2>1 DEF RecordInv
  <2>2. QED
    BY <2>1 DEF RecordInv, FlowType
<1>4. UnopenedInv'
  BY DEF IInv, UnopenedInv
<1>5. FollowedInv'
  <2>1. ASSUME NEW j \in opened' \ excused', j # k PROVE Followed(j)'
    <3>1. j \in opened \ excused /\ j \in Conns /\ Followed(j)
      BY <1>1, <2>1 DEF IInv, FollowedInv, TypeOK
    <3>2. (j \in DOMAIN flows' <=> j \in DOMAIN flows) /\ (j \in DOMAIN flows' => flows'[j] = flows[j])
          /\ (j \in marked' <=> j \in marked) /\ got'[j] = got[j]
      BY <2>1, <3>1
    <3>3. Verdict(j)' = Verdict(j) /\ Decisive(j)' = Decisive(j) /\ Base(j)' = Base(j)
      BY DEF Verdict, Dropped, NameDropped, Candidates, Decisive, Cells, Base
    <3>4. QED
      BY <3>1, <3>2, <3>3 DEF Followed, Collected, Decided
  <2>2. QED
    BY <2>1 DEF FollowedInv
<1>6. FlowsBounded'
  BY Limits DEF FlowsBounded
<1>7. QED
  BY <1>2, <1>3, <1>4, <1>5, <1>6 DEF IInv

\* Steps that leave the table alone.
LEMMA SameTable ==
  ASSUME IInv, flows' = flows, NEW k
  PROVE  /\ DOMAIN flows' \subseteq DOMAIN flows \union {k} /\ \A j \in DOMAIN flows' \ {k} : flows'[j] = flows[j]
         /\ k \in DOMAIN flows' => FlowOK(flows'[k]) /\ FlowType(flows'[k])
         /\ IsFiniteSet(DOMAIN flows') /\ Cardinality(DOMAIN flows') \in 0..MaxFlows
         /\ DOMAIN flows \ DOMAIN flows' \subseteq excused' \union {k}
<1>1. IsFiniteSet(DOMAIN flows) /\ Cardinality(DOMAIN flows) \in Nat
  BY FS_CardinalityType DEF IInv, RecordInv
<1>2. QED
  BY <1>1, Limits DEF IInv, TypeOK, RecordInv, FlowsBounded

\* What a segment and a SYN are.
CellsOf(s) == s.at..(s.at + s.length - 1)
LEMMA SegmentFields ==
  ASSUME TypeOK, NEW k \in Conns, NEW s \in Segments(k)
  PROVE  /\ s.at \in Nat /\ s.length \in Nat \ {0} /\ s.own \in BOOLEAN
         /\ s.from \in FirstSeqs
         /\ s.own => s.from = first[k]
         /\ CellsOf(s) \subseteq Cells(k) /\ Cells(k) \subseteq Nat
         /\ Sent(s) = IF s.own THEN CellsOf(s) ELSE {}
<1>1. hello[k].length \in Nat \ {0}
  BY HelloOf
<1>2. /\ s.at \in 0..(hello[k].length - 1) /\ s.length \in 1..hello[k].length /\ s.own \in BOOLEAN
      /\ s.at + s.length <= hello[k].length /\ s.from \in FirstSeqs
  BY DEF Segments, Cells
<1>3. s.own => s.from = first[k]
  BY Zenon DEF Segments, OwnCounts
<1>4. s.at \in Nat /\ s.length \in Nat \ {0} /\ CellsOf(s) \subseteq Cells(k) /\ Cells(k) \subseteq Nat
  BY <1>1, <1>2 DEF CellsOf, Cells
<1>5. Sent(s) = IF s.own THEN CellsOf(s) ELSE {}
  BY DEF CellsOf, Sent
<1>6. QED
  BY <1>2, <1>3, <1>4, <1>5, Zenon

LEMMA SynFields ==
  ASSUME TypeOK, NEW k \in Conns, NEW s \in Syns(k)
  PROVE  /\ s.at = 0 /\ s.own \in BOOLEAN /\ s.from \in FirstSeqs
         /\ s.own => s.from = first[k]
         /\ s.length # 0 => s \in Segments(k)
         /\ s.length = 0 => Sent(s) = {}
         /\ Sent(s) \subseteq Cells(k)
<1>1. hello[k].length \in Nat \ {0}
  BY HelloOf
<1>2. /\ s \in [at : {0}, length : 0..hello[k].length, own : BOOLEAN, from : FirstSeqs]
      /\ s.at = 0 /\ s.length \in 0..hello[k].length /\ s.own \in BOOLEAN /\ s.from \in FirstSeqs
  BY DEF Syns
<1>3. OwnCounts(k, s)
  BY Zenon DEF Syns
<1>4. ASSUME s.length # 0 PROVE s \in Segments(k)
  <2>1. s \in [at : Cells(k), length : 1..hello[k].length, own : BOOLEAN, from : FirstSeqs]
    BY <1>1, <1>2, <1>4 DEF Cells
  <2>2. s.at + s.length <= hello[k].length
    BY <1>1, <1>2
  <2>3. QED
    BY <1>3, <2>1, <2>2, Zenon DEF Segments
<1>5. Sent(s) \subseteq Cells(k) /\ (s.length = 0 => Sent(s) = {})
  BY <1>1, <1>2 DEF Sent, Cells
<1>6. s.own => s.from = first[k]
  BY <1>3, Zenon DEF OwnCounts
<1>7. QED
  BY <1>2, <1>4, <1>5, <1>6, Zenon

LEMMA MoreGot ==
  ASSUME IInv, NEW k \in Conns, NEW C, C \subseteq Cells(k), got' = [got EXCEPT ![k] = got[k] \union C]
  PROVE  /\ got' \in [Conns -> SUBSET Nat] /\ got'[k] = got[k] \union C /\ got'[k] \subseteq Cells(k)
         /\ \A j \in Conns \ {k} : got'[j] = got[j]
<1>1. got \in [Conns -> SUBSET Nat] /\ got[k] \subseteq Cells(k)
  BY DEF IInv, RecordInv, TypeOK
<1>2. Cells(k) \subseteq Nat
  BY HelloOf DEF IInv, Cells
<1>3. QED
  BY <1>1, <1>2

LEMMA SameGot ==
  ASSUME IInv, NEW k \in Conns, got' = got
  PROVE  /\ got' \in [Conns -> SUBSET Nat] /\ got'[k] \subseteq Cells(k)
         /\ \A j \in Conns \ {k} : got'[j] = got[j]
BY DEF IInv, RecordInv, TypeOK

\* While the filter is off, what it lets pass is marked.
LEMMA PassDisabledKeeps ==
  ASSUME IInv, NEW k \in Conns, NEW C, C \subseteq Cells(k), PassDisabled(k, C), opened' = opened \union {k}
  PROVE  IInv'
<1>1. /\ ~policy.enabled /\ marked' = marked \union {k} /\ got' = [got EXCEPT ![k] = got[k] \union C]
      /\ flows' = flows /\ lastSweep' = lastSweep /\ excused' = excused /\ UNCHANGED <<hello, first, now, policy>>
  BY DEF PassDisabled, engine, Constant
<1>2. packets' \in 0..MaxPackets
  BY Limits DEF IInv, TypeOK, PassDisabled, Packet
<1>3. k \notin excused' => Followed(k)'
  <2>1. k \notin excused => k \notin DOMAIN flows
    BY <1>1 DEF IInv, UnopenedInv, FollowedInv, Followed
  <2>2. QED
    BY <1>1, <2>1 DEF Followed
<1>4. excused' \subseteq Conns
  BY <1>1 DEF IInv, TypeOK
<1>5. QED
  BY <1>1, <1>2, <1>3, <1>4, SameTable, MoreGot, OneMoves

LEMMA UnreadKeeps ==
  ASSUME IInv, NEW k \in Conns, NEW s \in Segments(k) \union Syns(k), Unread(k, s)
  PROVE  IInv'
<1>1. /\ opened' = opened \union {k} /\ got' = [got EXCEPT ![k] = got[k] \union Sent(s)]
      /\ excused' = excused \union {k}
      /\ flows' = flows /\ lastSweep' = lastSweep /\ UNCHANGED <<marked, hello, first, now, policy>>
  BY DEF Unread, Accept, engine, Constant
<1>2. packets' \in 0..MaxPackets /\ excused' \subseteq Conns
  BY <1>1, Limits DEF IInv, TypeOK, Unread, Packet
<1>3. Sent(s) \subseteq Cells(k)
  BY SegmentFields, SynFields DEF IInv
<1>4. /\ got' \in [Conns -> SUBSET Nat] /\ got'[k] \subseteq Cells(k)
      /\ \A j \in Conns \ {k} : got'[j] = got[j]
  <2>1. PICK C : C = Sent(s)
    OBVIOUS
  <2>2. C \subseteq Cells(k) /\ got' = [got EXCEPT ![k] = got[k] \union C]
    BY <1>1, <1>3, <2>1
  <2>3. QED
    BY <2>2, MoreGot
<1>5. /\ excused \ {k} \subseteq excused' /\ k \in excused'
      /\ marked' \subseteq marked \union {k} /\ marked \subseteq marked'
  BY <1>1
<1>6. QED
  BY <1>1, <1>2, <1>4, <1>5, SameTable, OneMoves

LEMMA DropFragmentKeeps ==
  ASSUME IInv, NEW k \in Conns, DropFragment(k)
  PROVE  IInv'
<1>1. /\ k \in opened /\ UNCHANGED <<flows, lastSweep, opened, marked, got, excused, hello, first, now, policy>>
  BY DEF DropFragment, engine, Constant
<1>2. packets' \in 0..MaxPackets /\ excused' \subseteq Conns
  BY <1>1, Limits DEF IInv, TypeOK, DropFragment, Packet
<1>3. k \notin excused' => Followed(k)'
  BY <1>1 DEF IInv, FollowedInv, Followed, Collected, Decided, Verdict, Dropped, NameDropped, Candidates, Decisive, Cells, Base
<1>4. QED
  BY <1>1, <1>2, <1>3, SameTable, SameGot, OneMoves

LEMMA RstKeeps ==
  ASSUME IInv, NEW k \in Conns, Rst(k)
  PROVE  IInv'
<1>1. /\ k \in opened /\ flows' = Without(Swept, {k}) /\ lastSweep' \in {lastSweep, now}
      /\ excused' = excused \union (DOMAIN flows \ DOMAIN flows') \union {k}
      /\ UNCHANGED <<opened, marked, got, hello, first, now, policy>>
  BY DEF Rst, Forgets, Constant
<1>2. packets' \in 0..MaxPackets /\ excused' \subseteq Conns
  BY <1>1, Limits DEF IInv, TypeOK, Rst, Packet
<1>3. DOMAIN flows' = DOMAIN Swept \ {k} /\ \A j \in DOMAIN flows' : j \in DOMAIN flows /\ flows'[j] = flows[j]
  BY <1>1, SweptKept DEF IInv, Without, Kept
<1>4. IsFiniteSet(DOMAIN flows') /\ Cardinality(DOMAIN flows') \in 0..MaxFlows
  <2>1. IsFiniteSet(DOMAIN Swept) /\ Cardinality(DOMAIN Swept) \in 0..MaxFlows
    BY SweptKept DEF IInv
  <2>2. IsFiniteSet(DOMAIN flows') /\ Cardinality(DOMAIN flows') <= Cardinality(DOMAIN Swept) /\ Cardinality(DOMAIN flows') \in Nat
    BY <1>3, <2>1, FS_Subset, FS_CardinalityType
  <2>3. QED
    BY <2>1, <2>2, Limits
<1>5. QED
  BY <1>1, <1>2, <1>3, <1>4, SameGot, OneMoves

\* A new collection: it starts where the hello starts, with an empty buffer.
LEMMA NewFlow ==
  ASSUME IInv, NEW stage \in {"collecting", "passed", "blocked"}, NEW base \in 0..(Space - 1) \union {Unset}
  PROVE  LET g == Flow(stage, base)
         IN FlowOK(g) /\ FlowType(g) /\ g.stage = stage /\ g.base = base /\ DOMAIN g.data = {} /\ g.dataPackets = 0
<1>1. Flow(stage, base) = [stage |-> stage, seen |-> now, base |-> base, data |-> <<>>, dataPackets |-> 0]
  BY DEF Flow
<1>2. DOMAIN <<>> = {}
  OBVIOUS
<1>3. now \in Nat /\ 0 \in 0..MaxDataPackets
  BY Limits DEF IInv, TypeOK
<1>4. QED
  BY <1>1, <1>2, <1>3 DEF FlowOK, FlowType

-----------------------------------------------------------------------------
\* What the buffer holds with a segment more.
LEMMA StoredPlaces ==
  ASSUME NEW f, NEW s
  PROVE  DOMAIN Stored(f, s) = DOMAIN f.data \union Places(f, s)
BY DEF Stored

LEMMA StoredFits ==
  ASSUME NEW f, NEW s, DOMAIN f.data \subseteq Buffer
  PROVE  DOMAIN Stored(f, s) \subseteq Buffer
BY DEF Stored, Places, Buffer

LEMMA StoredType ==
  ASSUME NEW f, NEW s, s.own \in BOOLEAN, \A i \in DOMAIN f.data : f.data[i] \in BOOLEAN
  PROVE  \A i \in DOMAIN Stored(f, s) : Stored(f, s)[i] \in BOOLEAN
BY DEF Stored

LEMMA OwnStored ==
  ASSUME NEW f, NEW s, s.own = TRUE, \A i \in DOMAIN f.data : f.data[i] = TRUE
  PROVE  \A i \in DOMAIN Stored(f, s) : Stored(f, s)[i] = TRUE
BY DEF Stored

\* The cells of the client's own segment that belong into the buffer are put there.
LEMMA OwnPlaces ==
  ASSUME TypeOK, NEW k \in Conns, NEW s \in Segments(k), s.own, NEW f, f.base = Base(k)
  PROVE  CellsOf(s) \intersect Buffer \subseteq Places(f, s)
<1> SUFFICES ASSUME NEW i \in CellsOf(s) \intersect Buffer PROVE i \in Places(f, s)
  OBVIOUS
<1>1. s.at \in Nat /\ s.length \in Nat \ {0} /\ i \in Nat /\ s.at <= i /\ i <= s.at + s.length - 1 /\ i <= MaxBuffer - 1
  BY SegmentFields, Limits DEF CellsOf, Buffer
<1>2. s.at \in 0..(Space - 1) /\ s.at < MaxBuffer
  BY <1>1, Limits
<1>3. Offset(f.base, SegmentSeq(s)) = s.at
  <2>1. s.from = first[k]
    BY SegmentFields, Zenon
  <2>2. QED
    BY <1>2, <2>1, Wrap
<1>4. ~Ignored(f, s)
  <2>1. MaxBuffer <= Space \div 2
    BY Limits
  <2>2. QED
    BY <1>1, <1>2, <1>3, <2>1, Limits DEF Ignored
<1>5. QED
  BY <1>1, <1>2, <1>3, <1>4 DEF Places, Buffer

\* The engine's judgement of the client's own cells: as long as it needs more, something is
\* missing that a verdict depends on; when it needs no more, it is the verdict on the hello.
LEMMA Judging ==
  ASSUME TypeOK, NEW k \in Conns, NEW s \in Segments(k), s.own, NEW f, FlowOK(f), FlowType(f), Collected(k, f),
         ~(f.dataPackets + 1 > MaxDataPackets), NEW r \in Judged(k, f, s)
  PROVE  LET data == Stored(f, s)
         IN /\ \A i \in DOMAIN data : data[i] = TRUE
            /\ (got[k] \union CellsOf(s)) \intersect Buffer \subseteq DOMAIN data
            /\ r = "needMore" => ~(Decisive(k) \subseteq DOMAIN data)
            /\ r # "needMore" => (Dropped(policy, r, hello[k].labels) <=> Verdict(k))
<1> DEFINE data == Stored(f, s)
           have == Have(data)
<1>1. DOMAIN f.data \subseteq Buffer /\ \A i \in DOMAIN f.data : f.data[i] \in BOOLEAN
  BY DEF FlowOK, FlowType, Buffer
<1>2. /\ DOMAIN data = DOMAIN f.data \union Places(f, s) /\ DOMAIN data \subseteq Buffer
      /\ \A i \in DOMAIN data : data[i] = TRUE
  <2>1. s.own \in BOOLEAN /\ s.own = TRUE
    BY SegmentFields, Zenon
  <2>2. \A i \in DOMAIN f.data : f.data[i] = TRUE
    BY DEF Collected
  <2>3. QED
    BY <1>1, <2>1, <2>2, StoredPlaces, StoredFits, OwnStored
<1>3. CellsOf(s) \intersect Buffer \subseteq Places(f, s)
  BY OwnPlaces DEF Collected
<1>4. (got[k] \union CellsOf(s)) \intersect Buffer \subseteq DOMAIN data
  BY <1>2, <1>3 DEF Collected
<1>5. ~Conflict(f, s)
  <2>1. s.own = TRUE
    BY SegmentFields, Zenon
  <2>2. QED
    BY <2>1 DEF Conflict, Collected
<1>6. PICK p \in Parsed(k, f.base, data) : r = IF p = "needMore" /\ have >= MaxBuffer THEN "malformed" ELSE p
  BY <1>5 DEF Judged
<1>7. have \in 0..MaxBuffer /\ 0..(have - 1) \subseteq DOMAIN data /\ have \notin DOMAIN data
  BY <1>2, FirstGap
<1>8. hello[k].length \in Nat \ {0} /\ hello[k].result \in Results /\ MaxBuffer \in Nat \ {0}
  BY HelloOf, Limits
<1>9. p = IF have < hello[k].length THEN "needMore" ELSE hello[k].result
  <2>1. f.base = (first[k] + 1) % Space /\ \A i \in 0..(have - 1) : i \in DOMAIN data /\ data[i]
    BY <1>2, <1>7 DEF Collected, Base
  <2>2. CASE have = 0
    BY <1>6, <1>8, <2>2 DEF Parsed
  <2>3. CASE have # 0
    BY <1>6, <2>1, <2>3 DEF Parsed
  <2>4. QED
    BY <2>2, <2>3
<1>10. hello[k].result # "needMore"
  BY <1>8 DEF Results
<1>11. ASSUME r = "needMore" PROVE ~(Decisive(k) \subseteq DOMAIN data)
  <2>1. have < MaxBuffer /\ have < hello[k].length
    BY <1>6, <1>7, <1>8, <1>9, <1>10, <1>11
  <2>2. have \in Decisive(k)
    BY <1>7, <1>8, <2>1 DEF Decisive, Cells
  <2>3. QED
    BY <1>7, <2>2
<1>12. ASSUME r # "needMore" PROVE r = IF hello[k].length > MaxBuffer THEN "malformed" ELSE hello[k].result
  <2>1. CASE have < hello[k].length
    BY <1>6, <1>7, <1>8, <1>9, <1>12, <2>1
  <2>2. CASE ~(have < hello[k].length)
    BY <1>6, <1>7, <1>8, <1>9, <1>10, <2>2
  <2>3. QED
    BY <2>1, <2>2
<1>13. r # "needMore" => (Dropped(policy, r, hello[k].labels) <=> Verdict(k))
  BY <1>12 DEF Verdict
<1>14. QED
  BY <1>2, <1>4, <1>11, <1>13

\* The flow that a packet is judged with: the connection's own, or one that begins with it.
LEMMA OldFlow ==
  ASSUME IInv, NEW k \in Conns, NEW s \in Segments(k), NEW f, Kept(f),
         NEW old, old = IF k \in DOMAIN f THEN [f[k] EXCEPT !.seen = now] ELSE Flow("collecting", SegmentSeq(s))
  PROVE  /\ FlowOK(old) /\ FlowType(old)
         /\ k \in DOMAIN f => /\ k \in DOMAIN flows
                              /\ old.stage = flows[k].stage /\ old.base = flows[k].base /\ old.data = flows[k].data
<1>1. CASE k \in DOMAIN f
  <2>1. k \in DOMAIN flows /\ FlowOK(flows[k]) /\ FlowType(flows[k]) /\ f[k] = flows[k]
    BY <1>1 DEF Kept, IInv, TypeOK, RecordInv
  <2>2. old = [stage |-> flows[k].stage, seen |-> now, base |-> flows[k].base, data |-> flows[k].data,
               dataPackets |-> flows[k].dataPackets]
    BY <1>1, <2>1 DEF FlowType
  <2>3. now \in Nat
    BY Limits DEF IInv, TypeOK
  <2>4. QED
    BY <2>1, <2>2, <2>3 DEF FlowOK, FlowType
<1>2. CASE k \notin DOMAIN f
  <2>1. SegmentSeq(s) \in 0..(Space - 1)
    <3>1. s.at \in Nat /\ s.from \in FirstSeqs
      BY SegmentFields DEF IInv
    <3>2. QED
      BY <3>1, Numbers
  <2>2. QED
    BY <1>2, <2>1, NewFlow
<1>3. QED
  BY <1>1, <1>2

\* A packet of one connection, with the table f that sweep and make_room left: it has room
\* for the connection's flow, or has it already.
Handles(k, f) ==
  /\ Kept(f) /\ IsFiniteSet(DOMAIN f) /\ Cardinality(DOMAIN f) \in 0..MaxFlows
  /\ k \in DOMAIN f \/ Cardinality(DOMAIN f) \in 0..(MaxFlows - 1)
  /\ policy.enabled /\ UNCHANGED <<hello, first, now, policy>>
  /\ lastSweep' \in {lastSweep, now} /\ packets' \in 0..MaxPackets
  /\ opened' = opened \union {k}
  /\ excused \ {k} \subseteq excused' /\ excused' \subseteq Conns
  /\ DOMAIN flows \ DOMAIN f \subseteq excused' \union {k}

LEMMA SameVerdict ==
  ASSUME NEW k \in Conns, UNCHANGED <<hello, first, policy>>
  PROVE  Verdict(k)' = Verdict(k) /\ Decisive(k)' = Decisive(k) /\ Base(k)' = Base(k)
BY DEF Verdict, Dropped, NameDropped, Candidates, Decisive, Cells, Base

\* It keeps the invariant if what it puts into the table is right.
LEMMA FlowMoves ==
  ASSUME IInv, NEW k \in Conns, NEW f, Handles(k, f), NEW g, flows' = Put(f, k, g), FlowOK(g), FlowType(g),
         NEW s, Sent(s) \subseteq Cells(k), Accept(k, s) \/ got' = got,
         marked' \in {marked, marked \union {k}}, k \notin excused' => Followed(k)'
  PROVE  IInv'
<1>1. /\ DOMAIN flows' = DOMAIN f \union {k} /\ flows'[k] = g
      /\ \A j \in DOMAIN flows' \ {k} : j \in DOMAIN flows /\ flows'[j] = flows[j]
      /\ IsFiniteSet(DOMAIN flows') /\ Cardinality(DOMAIN flows') \in 0..MaxFlows
  BY PutFlow DEF Handles
<1>2. DOMAIN flows' \subseteq DOMAIN flows \union {k} /\ DOMAIN flows \ DOMAIN flows' \subseteq excused' \union {k}
  BY <1>1 DEF Handles
<1>3. opened' = opened \union {k} /\ marked \subseteq marked' /\ marked' \subseteq marked \union {k}
  BY DEF Handles
<1>4. k \in DOMAIN flows' => FlowOK(flows'[k]) /\ FlowType(flows'[k])
  BY <1>1
<1>5. /\ got' \in [Conns -> SUBSET Nat] /\ got'[k] \subseteq Cells(k)
      /\ \A j \in Conns \ {k} : got'[j] = got[j]
  <2>1. CASE got' = got
    BY <2>1, SameGot
  <2>2. CASE Accept(k, s)
    <3>1. PICK C : C = Sent(s)
      OBVIOUS
    <3>2. C \subseteq Cells(k) /\ got' = [got EXCEPT ![k] = got[k] \union C]
      BY <2>2, <3>1 DEF Accept
    <3>3. QED
      BY <3>2, MoreGot
  <2>3. QED
    BY <2>1, <2>2
<1>6. QED
  BY <1>1, <1>2, <1>3, <1>4, <1>5, OneMoves DEF Handles

LEMMA PutSays ==
  ASSUME NEW f, NEW k, NEW g, flows' = Put(f, k, g)
  PROVE  k \in DOMAIN flows' /\ flows'[k] = g
BY DEF Put

\* A segment for a flow that collects: with the client's own bytes, the engine waits as long
\* as something is missing that the verdict depends on, and then decides as the verdict is.
LEMMA DecideKeeps ==
  ASSUME IInv, NEW k \in Conns, NEW s \in Segments(k), NEW f, Handles(k, f),
         NEW old, FlowOK(old), FlowType(old), old.stage = "collecting", Decide(k, f, old, s),
         k \notin excused' => s.own /\ ~(old.dataPackets + 1 > MaxDataPackets) /\ Collected(k, old)
  PROVE  IInv'
<1> DEFINE limit == old.dataPackets + 1 > MaxDataPackets
<1>1. /\ policy.enabled /\ UNCHANGED <<hello, first, now, policy>>
      /\ s.own \in BOOLEAN /\ Sent(s) = IF s.own THEN CellsOf(s) ELSE {}
      /\ Sent(s) \subseteq Cells(k)
  BY SegmentFields DEF Handles, IInv
<1>2. Verdict(k)' = Verdict(k) /\ Decisive(k)' = Decisive(k) /\ Base(k)' = Base(k)
  BY <1>1, SameVerdict
<1>3. PICK r \in Judged(k, old, s) :
        IF r = "needMore"
        THEN /\ flows' = Put(f, k, [old EXCEPT !.data = Stored(old, s), !.dataPackets = @ + 1])
             /\ Accept(k, s) /\ UNCHANGED marked
        ELSE IF Dropped(policy, r, hello[k].labels)
        THEN flows' = Put(f, k, Flow("blocked", Unset)) /\ UNCHANGED <<got, marked>>
        ELSE flows' = Put(f, k, Flow("passed", Unset)) /\ Accept(k, s) /\ marked' = marked \union {k}
  BY DEF Decide
<1>4. ASSUME k \notin excused'
      PROVE  /\ Collected(k, old) /\ Sent(s) = CellsOf(s)
             /\ \A i \in DOMAIN Stored(old, s) : Stored(old, s)[i] = TRUE
             /\ (got[k] \union Sent(s)) \intersect Buffer \subseteq DOMAIN Stored(old, s)
             /\ r = "needMore" => ~(Decisive(k) \subseteq DOMAIN Stored(old, s))
             /\ r # "needMore" => (Dropped(policy, r, hello[k].labels) <=> Verdict(k))
  <2>1. Collected(k, old) /\ s.own /\ ~limit /\ Sent(s) = CellsOf(s)
    BY <1>1, <1>4
  <2>2. QED
    BY <1>3, <2>1, Judging DEF IInv
<1>5. ASSUME k \notin excused' PROVE Decisive(k) \subseteq Buffer /\ ~(Decisive(k) \subseteq got[k])
  BY <1>4, <1>5 DEF Decisive, Buffer, Collected
<1>6. CASE r = "needMore"
  <2>1. PICK g : g = [old EXCEPT !.data = Stored(old, s), !.dataPackets = @ + 1]
    OBVIOUS
  <2>2. flows' = Put(f, k, g) /\ Accept(k, s) /\ marked' = marked
    BY <1>3, <1>6, <2>1
  <2>3. ~limit
    BY <1>3, <1>6 DEF Judged
  <2>4. /\ FlowOK(g) /\ FlowType(g)
        /\ g.stage = "collecting" /\ g.base = old.base /\ g.data = Stored(old, s)
    <3>1. PICK data : data = Stored(old, s)
      OBVIOUS
    <3>2. DOMAIN data \subseteq Buffer /\ \A i \in DOMAIN data : data[i] \in BOOLEAN
      <4>1. DOMAIN old.data \subseteq Buffer /\ \A i \in DOMAIN old.data : old.data[i] \in BOOLEAN
        BY DEF FlowOK, FlowType, Buffer
      <4>2. QED
        BY <1>1, <3>1, <4>1, StoredFits, StoredType
    <3>3. old.dataPackets + 1 \in 0..MaxDataPackets
      BY <2>3, Limits DEF FlowOK
    <3>4. g = [stage |-> old.stage, seen |-> old.seen, base |-> old.base, data |-> data,
               dataPackets |-> old.dataPackets + 1]
      BY <2>1, <3>1 DEF FlowType
    <3>5. FlowOK(g) /\ FlowType(g) /\ g.stage = old.stage /\ g.base = old.base /\ g.data = data
      BY <3>2, <3>3, <3>4 DEF FlowOK, FlowType, Buffer
    <3>6. QED
      BY <3>1, <3>5
  <2>5. ASSUME k \notin excused' PROVE Followed(k)'
    <3>1. k \in DOMAIN flows' /\ flows'[k] = g
      BY <2>2, PutSays
    <3>2. Collected(k, flows[k])'
      <4>1. g.base = Base(k)' /\ k \notin marked'
        BY <1>2, <1>4, <2>2, <2>4, <2>5 DEF Collected
      <4>2. \A i \in DOMAIN g.data : g.data[i] = TRUE
        BY <1>4, <2>4, <2>5
      <4>3. got'[k] = got[k] \union Sent(s)
        BY <2>2 DEF Accept, IInv, RecordInv
      <4>4. got'[k] \intersect Buffer \subseteq DOMAIN g.data
        BY <1>4, <2>4, <2>5, <4>3
      <4>5. ~(Decisive(k)' \subseteq DOMAIN g.data)
        BY <1>2, <1>4, <1>6, <2>4, <2>5
      <4>6. QED
        BY <3>1, <4>1, <4>2, <4>4, <4>5 DEF Collected, Buffer
    <3>3. QED
      BY <1>1, <2>4, <3>1, <3>2 DEF Followed, Decided
  <2>6. QED
    BY <1>1, <2>2, <2>4, <2>5, FlowMoves
<1>7. CASE r # "needMore" /\ Dropped(policy, r, hello[k].labels)
  <2>1. flows' = Put(f, k, Flow("blocked", Unset)) /\ got' = got /\ marked' = marked
    BY <1>3, <1>7
  <2>2. /\ FlowOK(Flow("blocked", Unset)) /\ FlowType(Flow("blocked", Unset))
        /\ Flow("blocked", Unset).stage = "blocked"
    BY NewFlow
  <2>3. ASSUME k \notin excused' PROVE Followed(k)'
    <3>1. k \notin marked
      BY <1>4, <2>3 DEF Collected
    <3>2. k \in DOMAIN flows' /\ flows'[k] = Flow("blocked", Unset)
      BY <2>1, PutSays
    <3>3. QED
      BY <1>1, <1>2, <1>4, <1>5, <1>7, <2>1, <2>2, <2>3, <3>1, <3>2 DEF Followed, Decided
  <2>4. QED
    BY <1>1, <2>1, <2>2, <2>3, FlowMoves
<1>8. CASE r # "needMore" /\ ~Dropped(policy, r, hello[k].labels)
  <2>1. flows' = Put(f, k, Flow("passed", Unset)) /\ Accept(k, s) /\ marked' = marked \union {k}
    BY <1>3, <1>8
  <2>2. /\ FlowOK(Flow("passed", Unset)) /\ FlowType(Flow("passed", Unset))
        /\ Flow("passed", Unset).stage = "passed"
    BY NewFlow
  <2>3. ASSUME k \notin excused' PROVE Followed(k)'
    <3>1. k \in DOMAIN flows' /\ flows'[k] = Flow("passed", Unset)
      BY <2>1, PutSays
    <3>2. QED
      BY <1>1, <1>2, <1>4, <1>8, <2>1, <2>2, <2>3, <3>1 DEF Followed, Decided
  <2>4. QED
    BY <1>1, <2>1, <2>2, <2>3, FlowMoves
<1>9. QED
  BY <1>6, <1>7, <1>8

\* A SYN: the connection's own, before the server has anything, begins a collection where the
\* hello begins; any other excuses it.
LEMMA SynKeeps ==
  ASSUME IInv, NEW k \in Conns, NEW s \in Syns(k), Syn(k, s)
  PROVE  IInv'
<1>1. /\ s.own \in BOOLEAN /\ s.from \in FirstSeqs
      /\ s.own => s.from = first[k]
      /\ s.length # 0 => s \in Segments(k)
      /\ Sent(s) \subseteq Cells(k) /\ opened' = opened \union {k} /\ s.at \in Nat
  <2>1. TypeOK /\ opened' = opened \union {k}
    BY DEF IInv, Syn
  <2>2. s.at = 0 => s.at \in Nat
    OBVIOUS
  <2>3. QED
    BY <2>1, <2>2, SynFields, Zenon
<1>2. CASE PassDisabled(k, Sent(s))
  BY <1>1, <1>2, PassDisabledKeeps
<1>3. CASE ~PassDisabled(k, Sent(s))
  <2>1. PICK g : g = Flow("collecting", (s.from + 1) % Space)
    OBVIOUS
  <2>2. PICK f \in MakeRoom(Swept) :
          /\ IF s.length = 0 THEN flows' = Put(f, k, g) /\ UNCHANGED <<got, marked>> ELSE Decide(k, f, g, s)
          /\ excused' = ((excused \union (DOMAIN flows \ DOMAIN f)) \ {k})
                          \union Excuse(~s.own \/ got[k] # {} \/ k \in marked, k)
    BY <1>3, <2>1 DEF Syn
  <2>3. /\ excused \ {k} \subseteq excused' /\ excused' \subseteq Conns
        /\ DOMAIN flows \ DOMAIN f \subseteq excused' \union {k}
        /\ k \notin excused' => s.own /\ got[k] = {} /\ k \notin marked
    BY <1>1, <2>2 DEF Excuse, IInv, TypeOK
  <2>4. Handles(k, f)
    <3>1. /\ policy.enabled /\ UNCHANGED <<hello, first, now, policy>> /\ lastSweep' \in {lastSweep, now}
      BY <1>3 DEF Syn, Constant, Sweeps
    <3>2. packets' \in 0..MaxPackets
      BY <1>3, Limits DEF IInv, TypeOK, Syn, Packet
    <3>3. Kept(f) /\ IsFiniteSet(DOMAIN f) /\ Cardinality(DOMAIN f) \in 0..(MaxFlows - 1)
      BY RoomMade DEF IInv
    <3>4. Cardinality(DOMAIN f) \in 0..MaxFlows
      BY <3>3, Limits
    <3>5. QED
      BY <1>1, <2>3, <3>1, <3>2, <3>3, <3>4 DEF Handles
  <2>5. /\ FlowOK(g) /\ FlowType(g) /\ g.stage = "collecting" /\ DOMAIN g.data = {} /\ g.dataPackets = 0
        /\ g.base = (s.from + 1) % Space
    <3>1. PICK b : b = (s.from + 1) % Space
      OBVIOUS
    <3>2. b \in 0..(Space - 1)
      BY <1>1, <3>1, Numbers
    <3>3. QED
      BY <2>1, <3>1, <3>2, NewFlow
  <2>6. Decisive(k) # {}
    <3>1. 0 \in Decisive(k)
      BY HelloOf, Limits DEF IInv, Decisive, Cells
    <3>2. QED
      BY <3>1
  <2>7. ASSUME k \notin excused' PROVE Collected(k, g)
    <3>1. s.from = first[k] /\ got[k] = {} /\ k \notin marked
      BY <1>1, <2>3, <2>7, Zenon
    <3>2. QED
      BY <2>5, <2>6, <3>1 DEF Collected, Base
  <2>8. CASE s.length # 0
    <3>1. Decide(k, f, g, s) /\ s \in Segments(k)
      BY <1>1, <2>2, <2>8
    <3>2. ~(g.dataPackets + 1 > MaxDataPackets)
      BY <2>5, Limits
    <3>3. QED
      BY <2>3, <2>4, <2>5, <2>7, <3>1, <3>2, DecideKeeps
  <2>9. CASE s.length = 0
    <3>1. flows' = Put(f, k, g) /\ got' = got /\ marked' = marked
      BY <2>2, <2>9
    <3>2. ASSUME k \notin excused' PROVE Followed(k)'
      <4>1. Verdict(k)' = Verdict(k) /\ Decisive(k)' = Decisive(k) /\ Base(k)' = Base(k)
        BY <2>4, SameVerdict DEF Handles
      <4>2. k \in DOMAIN flows' /\ flows'[k] = g
        BY <3>1, PutSays
      <4>3. Collected(k, flows[k])'
        BY <2>7, <3>1, <3>2, <4>1, <4>2 DEF Collected, Buffer
      <4>4. QED
        BY <2>4, <2>5, <4>2, <4>3 DEF Followed, Decided, Handles
    <3>3. QED
      BY <1>1, <2>4, <2>5, <3>1, <3>2, FlowMoves
  <2>10. QED
    BY <2>8, <2>9
<1>4. QED
  BY <1>2, <1>3

LEMMA DataKeeps ==
  ASSUME IInv, NEW k \in Conns, NEW s \in Segments(k), Data(k, s)
  PROVE  IInv'
<1>1. k \in opened /\ opened' = opened \union {k} /\ Sent(s) \subseteq Cells(k) /\ s.own \in BOOLEAN
  BY SegmentFields DEF Data, IInv
<1>2. CASE PassDisabled(k, Sent(s))
  BY <1>1, <1>2, PassDisabledKeeps
<1>3. CASE ~PassDisabled(k, Sent(s))
  <2>1. /\ Packet /\ policy.enabled /\ UNCHANGED <<hello, first, now, policy>>
        /\ lastSweep' \in {lastSweep, now}
    BY <1>3 DEF Data, Constant, Sweeps
  <2>2. packets' \in 0..MaxPackets
    BY <2>1, Limits DEF IInv, TypeOK, Packet
  <2>3. PICK f \in IF k \in DOMAIN Swept THEN {Swept} ELSE MakeRoom(Swept) :
          LET old == IF k \in DOMAIN f THEN [f[k] EXCEPT !.seen = now] ELSE Flow("collecting", SegmentSeq(s))
              limit == old.dataPackets + 1 > MaxDataPackets
          IN /\ CASE old.stage = "passed" -> flows' = Put(f, k, old) /\ Accept(k, s) /\ UNCHANGED marked
                  [] old.stage = "blocked" -> flows' = Put(f, k, old) /\ UNCHANGED <<got, marked>>
                  [] old.stage = "collecting" -> Decide(k, f, old, s)
             /\ Forgets(f, Excuse(~s.own \/ limit, k))
    BY <1>3 DEF Data
  <2>4. PICK old : old = IF k \in DOMAIN f THEN [f[k] EXCEPT !.seen = now] ELSE Flow("collecting", SegmentSeq(s))
    OBVIOUS
  <2> DEFINE limit == old.dataPackets + 1 > MaxDataPackets
  <2>5. /\ CASE old.stage = "passed" -> flows' = Put(f, k, old) /\ Accept(k, s) /\ UNCHANGED marked
             [] old.stage = "blocked" -> flows' = Put(f, k, old) /\ UNCHANGED <<got, marked>>
             [] old.stage = "collecting" -> Decide(k, f, old, s)
        /\ Forgets(f, Excuse(~s.own \/ limit, k))
    BY <2>3, <2>4, Zenon
  <2>6. /\ Kept(f) /\ IsFiniteSet(DOMAIN f) /\ Cardinality(DOMAIN f) \in 0..MaxFlows
        /\ k \in DOMAIN f \/ Cardinality(DOMAIN f) \in 0..(MaxFlows - 1)
    BY SweptKept, RoomMade, Limits DEF IInv
  <2>7. /\ FlowOK(old) /\ FlowType(old)
        /\ k \in DOMAIN f => /\ k \in DOMAIN flows
                             /\ old.stage = flows[k].stage /\ old.base = flows[k].base /\ old.data = flows[k].data
    BY <2>4, <2>6, OldFlow
  <2>8. /\ excused \subseteq excused' /\ excused' \subseteq Conns /\ DOMAIN flows \ DOMAIN f \subseteq excused'
        /\ k \notin excused' => s.own /\ ~limit
    BY <2>5 DEF Forgets, Excuse, IInv, TypeOK
  <2>9. Handles(k, f)
    BY <1>1, <2>1, <2>2, <2>6, <2>8 DEF Handles
  <2>10. k \notin excused' => k \in DOMAIN f /\ Followed(k)
    BY <1>1, <2>1, <2>8 DEF IInv, FollowedInv, Followed
  <2>11. Verdict(k)' = Verdict(k) /\ Decisive(k)' = Decisive(k) /\ Base(k)' = Base(k)
    BY <2>1, SameVerdict
  <2>12. CASE old.stage = "passed"
    <3>1. flows' = Put(f, k, old) /\ marked' = marked /\ Accept(k, s)
      BY <2>5, <2>12
    <3>2. ASSUME k \notin excused' PROVE Followed(k)'
      BY <2>1, <2>7, <2>10, <2>11, <2>12, <3>1, <3>2, PutSays DEF Followed, Decided
    <3>3. QED
      BY <1>1, <2>7, <2>9, <3>1, <3>2, FlowMoves
  <2>13. CASE old.stage = "blocked"
    <3>1. flows' = Put(f, k, old) /\ marked' = marked /\ got' = got
      BY <2>5, <2>13
    <3>2. ASSUME k \notin excused' PROVE Followed(k)'
      BY <2>1, <2>7, <2>10, <2>11, <2>13, <3>1, <3>2, PutSays DEF Followed, Decided
    <3>3. QED
      BY <1>1, <2>7, <2>9, <3>1, <3>2, FlowMoves
  <2>14. CASE old.stage = "collecting"
    <3>1. Decide(k, f, old, s)
      BY <2>5, <2>14
    <3>2. ASSUME k \notin excused' PROVE s.own /\ ~limit /\ Collected(k, old)
      BY <2>1, <2>7, <2>8, <2>10, <2>14, <3>2 DEF Followed, Collected
    <3>3. QED
      BY <2>7, <2>9, <2>14, <3>1, <3>2, DecideKeeps
  <2>15. QED
    BY <2>7, <2>12, <2>13, <2>14 DEF FlowOK
<1>4. QED
  BY <1>2, <1>3

-----------------------------------------------------------------------------
\* A new policy excuses whatever is open; there is nothing else it could misjudge.
LEMMA SetPolicyKeeps ==
  ASSUME IInv, NEW p \in Policies, SetPolicy(p)
  PROVE  IInv'
<1>1. /\ policy' = p /\ excused' = excused \union opened
      /\ UNCHANGED <<hello, first, flows, lastSweep, now, opened, marked, got, packets>>
  BY DEF SetPolicy, engine
<1>2. TypeOK'
  BY <1>1 DEF IInv, TypeOK, FlowOK, Cells
<1>3. RecordInv' /\ UnopenedInv' /\ FlowsBounded'
  BY <1>1 DEF IInv, RecordInv, FlowType, UnopenedInv, FlowsBounded
<1>4. FollowedInv'
  BY <1>1 DEF FollowedInv
<1>5. QED
  BY <1>2, <1>3, <1>4 DEF IInv

\* The clock takes no part in what is known of a connection.
LEMMA SameFollowed ==
  ASSUME FollowedInv, UNCHANGED <<hello, first, flows, policy, opened, marked, got, excused>>
  PROVE  FollowedInv'
<1> SUFFICES ASSUME NEW k \in opened \ excused PROVE Followed(k)'
  BY DEF FollowedInv
<1>1. Followed(k)
  BY DEF FollowedInv
<1>2. Verdict(k)' = Verdict(k) /\ Decisive(k)' = Decisive(k) /\ Base(k)' = Base(k)
  BY DEF Verdict, Dropped, NameDropped, Candidates, Decisive, Cells, Base
<1>3. QED
  BY <1>1, <1>2 DEF Followed, Collected, Decided

LEMMA TickKeeps ==
  ASSUME IInv, Tick
  PROVE  IInv'
<1>1. /\ now' = now + 1 /\ now' \in 0..MaxTime /\ now \in Nat
      /\ UNCHANGED <<hello, first, flows, lastSweep, policy, opened, marked, got, excused, packets>>
  BY Limits DEF Tick, engine, IInv, TypeOK
<1>2. TypeOK'
  <2>1. ASSUME NEW k \in DOMAIN flows' PROVE FlowOK(flows[k])'
    BY <1>1, <2>1 DEF IInv, TypeOK, FlowOK
  <2>2. lastSweep' \in 0..now'
    BY <1>1 DEF IInv, TypeOK
  <2>3. QED
    BY <1>1, <2>1, <2>2 DEF IInv, TypeOK, Cells
<1>3. RecordInv' /\ UnopenedInv' /\ FlowsBounded'
  BY <1>1 DEF IInv, RecordInv, FlowType, UnopenedInv, FlowsBounded
<1>4. FollowedInv'
  BY <1>1, SameFollowed DEF IInv
<1>5. QED
  BY <1>2, <1>3, <1>4 DEF IInv

LEMMA InitHolds == Init => IInv
<1> SUFFICES ASSUME Init PROVE IInv
  OBVIOUS
<1>1. flows = <<>> /\ DOMAIN flows = {} /\ opened = {} /\ marked = {} /\ excused = {} /\ got = [k \in Conns |-> {}]
  BY DEF Init
<1>2. TypeOK
  BY <1>1, Limits DEF Init, TypeOK
<1>3. IsFiniteSet(DOMAIN flows) /\ Cardinality(DOMAIN flows) = 0
  BY <1>1, FS_EmptySet
<1>4. QED
  BY <1>1, <1>2, <1>3, Limits DEF IInv, RecordInv, UnopenedInv, FollowedInv, FlowsBounded

LEMMA InvKept == IInv /\ [Next]_vars => IInv'
<1> SUFFICES ASSUME IInv, [Next]_vars PROVE IInv'
  OBVIOUS
<1>1. CASE \E k \in Conns : \E s \in Syns(k) : Syn(k, s)
  BY <1>1, SynKeeps
<1>2. CASE \E k \in Conns : Rst(k)
  BY <1>2, RstKeeps
<1>3. CASE \E k \in Conns : DropFragment(k)
  BY <1>3, DropFragmentKeeps
<1>4. CASE \E k \in Conns : \E s \in Segments(k) : Data(k, s)
  BY <1>4, DataKeeps
<1>5. CASE \E k \in Conns : \E s \in Segments(k) \union Syns(k) : Unread(k, s)
  BY <1>5, UnreadKeeps
<1>6. CASE \E p \in Policies : SetPolicy(p)
  BY <1>6, SetPolicyKeeps
<1>7. CASE Tick
  BY <1>7, TickKeeps
<1>8. CASE UNCHANGED vars
  <2>1. UNCHANGED <<hello, first, flows, lastSweep, now, policy, opened, marked, got, excused, packets>>
    BY <1>8 DEF vars, engine
  <2>2. QED
    <3>1. TypeOK'
      BY <2>1 DEF IInv, TypeOK, FlowOK, Cells
    <3>2. RecordInv' /\ UnopenedInv' /\ FlowsBounded'
      BY <2>1 DEF IInv, RecordInv, FlowType, UnopenedInv, FlowsBounded
    <3>3. FollowedInv'
      BY <2>1, SameFollowed DEF IInv
    <3>4. QED
      BY <3>1, <3>2, <3>3 DEF IInv
<1>9. QED
  BY <1>1, <1>2, <1>3, <1>4, <1>5, <1>6, <1>7, <1>8 DEF Next

THEOREM InvHolds == Spec => []IInv
<1>1. QED
  BY InitHolds, InvKept, PTL DEF Spec

\* Every variable keeps its type: the buffer of a flow stays within MAX_BUFFER and its
\* packets within MAX_DATA_PACKETS (Collector.handle).
THEOREM TypeCorrect == Spec => []TypeOK
<1>1. IInv => TypeOK
  BY DEF IInv
<1>2. QED
  BY InvHolds, <1>1, PTL

\* The table never holds more than max_flows flows (make_room), whatever number of
\* connections open, send and go idle.
THEOREM FlowsBoundedHolds == Spec => []FlowsBounded
<1>1. IInv => FlowsBounded
  BY DEF IInv
<1>2. QED
  BY InvHolds, <1>1, PTL

\* However a hello is cut, reordered and repeated and wherever its numbers wrap, whatever SYNs
\* and bytes of other connections come between, when the policy says drop the server never
\* gets all of it and the connection is not marked, unless it is excused as BlockedStaysOut
\* lists (Collector.handle, on_packet, judge).
THEOREM BlockedStaysOutHolds == Spec => []BlockedStaysOut
<1>1. IInv => BlockedStaysOut
  BY Consequences
<1>2. QED
  BY InvHolds, <1>1, PTL

\* When the policy says accept, a connection that is not excused is never blocked, and it is
\* marked by the time the server has the hello (Collector.handle, on_packet, judge).
THEOREM AllowedStaysInHolds == Spec => []AllowedStaysIn
<1>1. IInv => AllowedStaysIn
  BY Consequences
<1>2. QED
  BY InvHolds, <1>1, PTL

-----------------------------------------------------------------------------
(* Ruleset: sequences of lines, and the first that matches. *)

\* A sequence, of whatever its elements are.
IsSeq(a) == a \in Seq({a[i] : i \in DOMAIN a})

LEMMA SeqFrom ==
  ASSUME NEW S, NEW a \in Seq(S)
  PROVE  IsSeq(a) /\ Len(a) \in Nat /\ DOMAIN a = 1..Len(a)
<1>1. Len(a) \in Nat /\ DOMAIN a = 1..Len(a) /\ a = [i \in 1..Len(a) |-> a[i]]
  OBVIOUS
<1>2. a \in [1..Len(a) -> {a[i] : i \in DOMAIN a}]
  BY <1>1
<1>3. QED
  BY <1>1, <1>2 DEF IsSeq

LEMMA SeqBy ==
  ASSUME NEW n \in Nat, NEW a, DOMAIN a = 1..n, a = [i \in 1..n |-> a[i]]
  PROVE  IsSeq(a) /\ Len(a) = n
<1>1. a \in [1..n -> {a[i] : i \in DOMAIN a}]
  OBVIOUS
<1>2. a \in Seq({a[i] : i \in DOMAIN a})
  BY <1>1, SeqDef
<1>3. QED
  BY <1>2 DEF IsSeq

\* Where the lines of a joined sequence are.
LEMMA Joined ==
  ASSUME NEW a, NEW b, IsSeq(a), IsSeq(b)
  PROVE  /\ IsSeq(a \o b) /\ Len(a \o b) = Len(a) + Len(b) /\ DOMAIN (a \o b) = 1..(Len(a) + Len(b))
         /\ \A i \in 1..Len(a) : (a \o b)[i] = a[i]
         /\ \A i \in 1..Len(b) : (a \o b)[Len(a) + i] = b[i]
<1> DEFINE S == {a[i] : i \in DOMAIN a} \union {b[i] : i \in DOMAIN b}
<1>1. a \in Seq(S) /\ b \in Seq(S)
  BY DEF IsSeq
<1>2. a \o b \in Seq(S)
  BY <1>1
<1>3. IsSeq(a \o b)
  BY <1>2, SeqFrom
<1>4. QED
  BY <1>1, <1>3

\* The first line that matches.
LEMMA HitIsFirst ==
  ASSUME NEW chain, NEW p, IsSeq(chain)
  PROVE  \/ Hit(chain, p) = 0 /\ \A j \in 1..Len(chain) : ~Matches(chain[j], p)
         \/ /\ Hit(chain, p) \in 1..Len(chain) /\ Matches(chain[Hit(chain, p)], p)
            /\ \A j \in 1..Len(chain) : Matches(chain[j], p) => Hit(chain, p) <= j
<1> DEFINE S == {i \in 1..Len(chain) : Matches(chain[i], p)}
<1>0. Len(chain) \in Nat
  BY DEF IsSeq
<1>1. Hit(chain, p) = IF S # {} THEN Min(S) ELSE 0
  BY DEF Hit, SelectInSeq
<1>2. CASE S = {}
  BY <1>1, <1>2
<1>3. CASE S # {}
  <2>1. S \subseteq Nat
    BY <1>0
  <2>2. \E n \in S : \A m \in S : ~(<<m, n>> \in OpToRel(<, Nat))
    BY <1>3, <2>1, NatLessThanWellFounded, WFMin
  <2>3. PICK n \in S : \A m \in S : ~(<<m, n>> \in OpToRel(<, Nat))
    BY <2>2
  <2> HIDE DEF S
  <2>4. ASSUME NEW m \in Nat, m < n PROVE <<m, n>> \in OpToRel(<, Nat)
    BY <2>1, <2>3, <2>4 DEF OpToRel
  <2>5. \A m \in S : n <= m
    <3>1. SUFFICES ASSUME NEW m \in S PROVE n <= m
      OBVIOUS
    <3>2. m \in Nat /\ n \in Nat
      BY <2>1, <2>3
    <3>3. ~(m < n)
      BY <2>3, <2>4, <3>2
    <3>4. QED
      BY <3>2, <3>3
  <2>6. Min(S) \in S /\ \A m \in S : Min(S) <= m
    BY <2>5 DEF Min
  <2>7. QED
    BY <1>1, <1>3, <2>6 DEF S
<1>4. QED
  BY <1>2, <1>3

\* A chain in two parts.
LEMMA TargetJoined ==
  ASSUME NEW a, NEW b, IsSeq(a), IsSeq(b), NEW p, NEW o
  PROVE  Target(a \o b, p, o) = Target(a, p, Target(b, p, o))
<1> DEFINE i == Hit(a, p)
           j == Hit(b, p)
           h == Hit(a \o b, p)
<1>0. Len(a) \in Nat /\ Len(b) \in Nat
  BY DEF IsSeq
<1>1. CASE i # 0
  <2>1. i \in 1..Len(a) /\ Matches(a[i], p) /\ \A m \in 1..Len(a) : Matches(a[m], p) => i <= m
    BY <1>1, HitIsFirst
  <2>2. i \in 1..Len(a \o b) /\ Matches((a \o b)[i], p)
    BY <1>0, <2>1, Joined
  <2>3. h \in 1..Len(a \o b) /\ Matches((a \o b)[h], p) /\ h <= i
    BY <2>2, HitIsFirst, Joined
  <2>4. h \in 1..Len(a) /\ (a \o b)[h] = a[h]
    BY <1>0, <2>1, <2>3, Joined
  <2>5. h = i
    BY <1>0, <2>1, <2>3, <2>4
  <2>6. QED
    BY <1>1, <2>4, <2>5 DEF Target
<1>2. CASE i = 0 /\ j # 0
  <2>1. Matches((a \o b)[Len(a) + j], p) /\ Len(a) + j \in 1..Len(a \o b)
    BY <1>0, <1>2, HitIsFirst, Joined
  <2>2. \A m \in 1..Len(a) : ~Matches((a \o b)[m], p)
    BY <1>0, <1>2, HitIsFirst, Joined
  <2>3. \A m \in 1..Len(b) : Matches((a \o b)[Len(a) + m], p) => j <= m
    BY <1>0, <1>2, HitIsFirst, Joined
  <2>4. h \in 1..Len(a \o b) /\ h <= Len(a) + j /\ Matches((a \o b)[h], p)
    BY <1>0, <2>1, HitIsFirst, Joined
  <2>5. h > Len(a)
    BY <1>0, <2>2, <2>4
  <2>6. h = Len(a) + (h - Len(a)) /\ h - Len(a) \in 1..Len(b)
    BY <1>0, <2>4, <2>5, Joined
  <2>7. h = Len(a) + j
    BY <1>0, <1>2, <2>3, <2>4, <2>6, HitIsFirst
  <2>8. QED
    BY <1>0, <1>2, <2>7, HitIsFirst, Joined DEF Target
<1>3. CASE i = 0 /\ j = 0
  <2>1. \A m \in 1..Len(a) : ~Matches((a \o b)[m], p)
    BY <1>0, <1>3, HitIsFirst, Joined
  <2>2. \A m \in 1..Len(b) : ~Matches((a \o b)[Len(a) + m], p)
    BY <1>0, <1>3, HitIsFirst, Joined
  <2>3. \A m \in 1..(Len(a) + Len(b)) : m <= Len(a) \/ (m - Len(a) \in 1..Len(b) /\ m = Len(a) + (m - Len(a)))
    BY <1>0
  <2>4. \A m \in 1..Len(a \o b) : ~Matches((a \o b)[m], p)
    BY <1>0, <2>1, <2>2, <2>3, Joined
  <2>5. h = 0
    BY <2>4, HitIsFirst, Joined
  <2>6. QED
    BY <1>3, <2>5 DEF Target
<1>4. QED
  BY <1>1, <1>2, <1>3

\* A block whose lines say the same.
LEMMA TargetOfBlock ==
  ASSUME NEW block, IsSeq(block), NEW p, NEW o, NEW v, \A i \in 1..Len(block) : block[i].verdict = v
  PROVE  Target(block, p, o) = IF \E i \in 1..Len(block) : Matches(block[i], p) THEN v ELSE o
<1>1. Len(block) \in Nat
  BY DEF IsSeq
<1>2. QED
  BY <1>1, HitIsFirst DEF Target

-----------------------------------------------------------------------------
(* What each block of a chain says of a packet: its verdict, or what the rest says. *)

\* A packet with values in all the fields that lines look at.
PacketOK(p) ==
  /\ p.in \in Sides /\ p.out \in Sides /\ p.src \in Hosts /\ p.dst \in Hosts
  /\ p.protocol \in Protocols /\ p.port \in Ports \union {NoPort} /\ p.state \in {"new", "established"}
  /\ p.dnat \in BOOLEAN /\ p.flood \in BOOLEAN /\ p.meets \in BOOLEAN

LEMMA MatchesAll ==
  ASSUME NEW line, NEW p
  PROVE  Matches(line, p) <=>
           /\ p.in \in line.in /\ p.out \in line.out /\ p.src \in line.src /\ p.dst \in line.dst
           /\ p.protocol \in line.protocol /\ p.port \in line.port /\ p.state \in line.state
           /\ p.dnat \in line.dnat /\ p.flood \in line.flood /\ p.meets \in line.meets
BY DEF Matches, Fields

\* Blocks of one, two and four lines that say the same.
LEMMA Tuples ==
  ASSUME NEW a, NEW b, NEW c, NEW d
  PROVE  IsSeq(<<a>>) /\ IsSeq(<<a, b>>) /\ IsSeq(<<a, b, c, d>>) /\ IsSeq(<<>>)
<1>1. <<a>> \in Seq({a}) /\ <<a, b>> \in Seq({a, b}) /\ <<a, b, c, d>> \in Seq({a, b, c, d}) /\ <<>> \in Seq({a})
  OBVIOUS
<1>2. QED
  BY <1>1, SeqFrom

LEMMA OneLine ==
  ASSUME NEW a, NEW p, NEW o
  PROVE  Target(<<a>>, p, o) = IF Matches(a, p) THEN a.verdict ELSE o
<1>1. PICK s : s = <<a>>
  OBVIOUS
<1>2. IsSeq(s)
  BY <1>1, Tuples
<1>3. Len(s) = 1 /\ 1..Len(s) = {1} /\ s[1] = a
  BY <1>1
<1>4. \A i \in 1..Len(s) : s[i].verdict = a.verdict
  BY <1>3
<1>5. Target(s, p, o) = IF \E i \in 1..Len(s) : Matches(s[i], p) THEN a.verdict ELSE o
  BY <1>2, <1>4, TargetOfBlock
<1>6. (\E i \in 1..Len(s) : Matches(s[i], p)) <=> Matches(a, p)
  BY <1>3
<1>7. QED
  BY <1>1, <1>5, <1>6

LEMMA TwoLines ==
  ASSUME NEW a, NEW b, NEW p, NEW o, b.verdict = a.verdict
  PROVE  Target(<<a, b>>, p, o) = IF Matches(a, p) \/ Matches(b, p) THEN a.verdict ELSE o
<1>1. PICK s : s = <<a, b>>
  OBVIOUS
<1>2. IsSeq(s)
  BY <1>1, Tuples
<1>3. Len(s) = 2 /\ 1..Len(s) = {1, 2} /\ s[1] = a /\ s[2] = b
  BY <1>1
<1>4. \A i \in 1..Len(s) : s[i].verdict = a.verdict
  BY <1>3
<1>5. Target(s, p, o) = IF \E i \in 1..Len(s) : Matches(s[i], p) THEN a.verdict ELSE o
  BY <1>2, <1>4, TargetOfBlock
<1>6. (\E i \in 1..Len(s) : Matches(s[i], p)) <=> Matches(a, p) \/ Matches(b, p)
  BY <1>3
<1>7. QED
  BY <1>1, <1>5, <1>6

\* Two lines that say different things.
LEMMA FirstOfTwo ==
  ASSUME NEW a, NEW b, NEW p, NEW o
  PROVE  Target(<<a, b>>, p, o) = IF Matches(a, p) THEN a.verdict ELSE IF Matches(b, p) THEN b.verdict ELSE o
<1>1. PICK s : s = <<a, b>>
  OBVIOUS
<1>2. IsSeq(s)
  BY <1>1, Tuples
<1>3. Len(s) = 2 /\ 1..Len(s) = {1, 2} /\ s[1] = a /\ s[2] = b
  BY <1>1
<1>4. PICK h : h = Hit(s, p)
  OBVIOUS
<1>5. CASE Matches(a, p)
  <2>1. h \in {1, 2} /\ h <= 1
    BY <1>2, <1>3, <1>4, <1>5, HitIsFirst
  <2>2. h = 1
    BY <2>1
  <2>3. QED
    BY <1>1, <1>3, <1>4, <1>5, <2>2 DEF Target
<1>6. CASE ~Matches(a, p) /\ Matches(b, p)
  <2>1. h = 2
    BY <1>2, <1>3, <1>4, <1>6, HitIsFirst
  <2>2. QED
    BY <1>1, <1>3, <1>4, <1>6, <2>1 DEF Target
<1>7. CASE ~Matches(a, p) /\ ~Matches(b, p)
  <2>1. h = 0
    BY <1>2, <1>3, <1>4, <1>7, HitIsFirst
  <2>2. QED
    BY <1>1, <1>4, <1>7, <2>1 DEF Target
<1>8. QED
  BY <1>5, <1>6, <1>7

LEMMA FourLines ==
  ASSUME NEW a, NEW b, NEW c, NEW d, NEW p, NEW o, b.verdict = a.verdict, c.verdict = a.verdict, d.verdict = a.verdict
  PROVE  Target(<<a, b, c, d>>, p, o) = IF Matches(a, p) \/ Matches(b, p) \/ Matches(c, p) \/ Matches(d, p) THEN a.verdict ELSE o
<1>1. PICK s : s = <<a, b, c, d>>
  OBVIOUS
<1>2. IsSeq(s)
  BY <1>1, Tuples
<1>3. Len(s) = 4 /\ 1..Len(s) = {1, 2, 3, 4} /\ s[1] = a /\ s[2] = b /\ s[3] = c /\ s[4] = d
  BY <1>1
<1>4. \A i \in 1..Len(s) : s[i].verdict = a.verdict
  BY <1>3
<1>5. Target(s, p, o) = IF \E i \in 1..Len(s) : Matches(s[i], p) THEN a.verdict ELSE o
  BY <1>2, <1>4, TargetOfBlock
<1>6. (\E i \in 1..Len(s) : Matches(s[i], p)) <=> Matches(a, p) \/ Matches(b, p) \/ Matches(c, p) \/ Matches(d, p)
  BY <1>3
<1>7. QED
  BY <1>1, <1>5, <1>6

Accepts == TRUE
Drops == FALSE

LEMMA EstablishedSays ==
  ASSUME NEW p, PacketOK(p), NEW o
  PROVE  Target(Established, p, o) = IF p.state = "established" THEN Accepts ELSE o
<1> DEFINE l == [AcceptAll EXCEPT !.state = {"established"}]
<1>1. /\ l.in = Sides /\ l.out = Sides /\ l.src = Hosts /\ l.dst = Hosts /\ l.protocol = Protocols
      /\ l.port = Ports \union {NoPort} /\ l.state = {"established"} /\ l.dnat = BOOLEAN /\ l.flood = BOOLEAN
      /\ l.meets = BOOLEAN /\ l.verdict = Accepts /\ Established = <<l>>
  BY DEF Accepts, Drops, AcceptAll, Established
<1> HIDE DEF l
<1>2. Matches(l, p) <=> p.state = "established"
  BY <1>1, MatchesAll DEF PacketOK
<1>3. Target(Established, p, o) = IF Matches(l, p) THEN l.verdict ELSE o
  BY <1>1, OneLine
<1>4. QED
  BY <1>1, <1>2, <1>3

LEMMA DdosSays ==
  ASSUME NEW p, PacketOK(p), NEW o
  PROVE  Target(DdosRules, p, o) = IF p.protocol = "tcp" /\ p.state = "new" /\ p.flood THEN Drops ELSE o
<1> DEFINE l == [Drop EXCEPT !.protocol = {"tcp"}, !.state = {"new"}, !.flood = {TRUE}]
<1>1. /\ l.in = Sides /\ l.out = Sides /\ l.src = Hosts /\ l.dst = Hosts /\ l.protocol = {"tcp"}
      /\ l.port = Ports \union {NoPort} /\ l.state = {"new"} /\ l.dnat = BOOLEAN /\ l.flood = {TRUE}
      /\ l.meets = BOOLEAN /\ l.verdict = Drops /\ DdosRules = <<l>>
  BY DEF Accepts, Drops, AcceptAll, Drop, DdosRules
<1> HIDE DEF l
<1>2. Matches(l, p) <=> p.protocol = "tcp" /\ p.state = "new" /\ p.flood
  BY <1>1, MatchesAll DEF PacketOK
<1>3. Target(DdosRules, p, o) = IF Matches(l, p) THEN l.verdict ELSE o
  BY <1>1, OneLine
<1>4. QED
  BY <1>1, <1>2, <1>3

LEMMA SourceMatches ==
  ASSUME NEW p, PacketOK(p), NEW k
  PROVE  /\ Matches(BySource(k), p) <=> k.inbound /\ p.src \in Country(k)
         /\ BySource(k).verdict = Drops
<1> DEFINE l == BySource(k)
<1>1. /\ l.in = Sides /\ l.out = Sides /\ l.src = (IF k.inbound THEN Country(k) ELSE {}) /\ l.dst = Hosts
      /\ l.protocol = Protocols /\ l.port = Ports \union {NoPort} /\ l.state = {"new", "established"}
      /\ l.dnat = BOOLEAN /\ l.flood = BOOLEAN /\ l.meets = BOOLEAN /\ l.verdict = Drops
  BY DEF Accepts, Drops, AcceptAll, Drop, BySource
<1> HIDE DEF l
<1>2. Matches(l, p) <=> k.inbound /\ p.src \in Country(k)
  BY <1>1, MatchesAll DEF PacketOK
<1>3. QED
  BY <1>1, <1>2 DEF l

LEMMA DestinationMatches ==
  ASSUME NEW p, PacketOK(p), NEW k
  PROVE  /\ Matches(ByDestination(k), p) <=> k.outbound /\ p.dst \in Country(k)
         /\ ByDestination(k).verdict = Drops
<1> DEFINE l == ByDestination(k)
<1>1. /\ l.in = Sides /\ l.out = Sides /\ l.dst = (IF k.outbound THEN Country(k) ELSE {}) /\ l.src = Hosts
      /\ l.protocol = Protocols /\ l.port = Ports \union {NoPort} /\ l.state = {"new", "established"}
      /\ l.dnat = BOOLEAN /\ l.flood = BOOLEAN /\ l.meets = BOOLEAN /\ l.verdict = Drops
  BY DEF Accepts, Drops, AcceptAll, Drop, ByDestination
<1> HIDE DEF l
<1>2. Matches(l, p) <=> k.outbound /\ p.dst \in Country(k)
  BY <1>1, MatchesAll DEF PacketOK
<1>3. QED
  BY <1>1, <1>2 DEF l

\* What the lines of a blocked country match.
BlockedSource(k, p) == k.inbound /\ p.src \in Country(k)
BlockedDestination(k, p) == k.outbound /\ p.dst \in Country(k)

LEMMA GeoipSays ==
  ASSUME NEW p, PacketOK(p), NEW k, NEW o
  PROVE  /\ Target(GeoipRules(k, "input"), p, o) = IF BlockedSource(k, p) THEN Drops ELSE o
         /\ Target(GeoipRules(k, "forward"), p, o) = IF BlockedSource(k, p) \/ BlockedDestination(k, p) THEN Drops ELSE o
         /\ Target(GeoipRules(k, "output"), p, o) = IF BlockedDestination(k, p) THEN Drops ELSE o
<1>1. /\ GeoipRules(k, "input") = <<BySource(k)>> /\ GeoipRules(k, "output") = <<ByDestination(k)>>
      /\ GeoipRules(k, "forward") = <<BySource(k), ByDestination(k)>>
  BY DEF GeoipRules
<1>2. Target(<<BySource(k)>>, p, o) = IF Matches(BySource(k), p) THEN Drops ELSE o
  BY SourceMatches, OneLine
<1>3. Target(<<ByDestination(k)>>, p, o) = IF Matches(ByDestination(k), p) THEN Drops ELSE o
  BY DestinationMatches, OneLine
<1>4. Target(<<BySource(k), ByDestination(k)>>, p, o) =
        IF Matches(BySource(k), p) \/ Matches(ByDestination(k), p) THEN Drops ELSE o
  <2>1. BySource(k).verdict = Drops /\ ByDestination(k).verdict = Drops
    BY SourceMatches, DestinationMatches
  <2>2. PICK a, b : a = BySource(k) /\ b = ByDestination(k)
    OBVIOUS
  <2>3. b.verdict = a.verdict
    BY <2>1, <2>2
  <2>4. Target(<<a, b>>, p, o) = IF Matches(a, p) \/ Matches(b, p) THEN a.verdict ELSE o
    BY <2>3, TwoLines
  <2>5. QED
    BY <2>1, <2>2, <2>4
<1>5. (Matches(BySource(k), p) <=> BlockedSource(k, p)) /\ (Matches(ByDestination(k), p) <=> BlockedDestination(k, p))
  BY SourceMatches, DestinationMatches DEF BlockedSource, BlockedDestination
<1>6. QED
  BY <1>1, <1>2, <1>3, <1>4, <1>5

LEMMA PingMatches ==
  ASSUME NEW p, PacketOK(p), NEW sides
  PROVE  /\ Matches(Ping(sides), p) <=> p.in \in sides /\ p.protocol = "icmp" /\ p.meets
         /\ (Ping(sides)).verdict = Accepts
<1>1. PICK l : l = Ping(sides)
  OBVIOUS
<1>2. /\ l.in = sides /\ l.out = Sides /\ l.src = Hosts /\ l.dst = Hosts /\ l.protocol = {"icmp"}
      /\ l.port = (Ports \union {NoPort}) /\ l.state = {"new", "established"} /\ l.dnat = BOOLEAN
      /\ l.flood = BOOLEAN /\ l.meets = {TRUE}
      /\ l.verdict = Accepts
  BY <1>1 DEF Accepts, Drops, Ping, AcceptAll
<1>3. Matches(l, p) <=> p.in \in sides /\ p.protocol = "icmp" /\ p.meets
  BY <1>2, MatchesAll DEF PacketOK
<1>4. QED
  BY <1>1, <1>2, <1>3

LEMMA ManagementMatches ==
  ASSUME NEW p, PacketOK(p), NEW k, NEW l, l = [AcceptAll EXCEPT !.in = {"lan"}, !.protocol = {"tcp"}, !.port = k.management]
  PROVE  (Matches(l, p) <=> p.in = "lan" /\ p.protocol = "tcp" /\ p.port \in k.management) /\ l.verdict = Accepts
<1>1. /\ l.in = {"lan"} /\ l.out = Sides /\ l.src = Hosts /\ l.dst = Hosts /\ l.protocol = {"tcp"}
      /\ l.port = k.management /\ l.state = {"new", "established"} /\ l.dnat = BOOLEAN /\ l.flood = BOOLEAN
      /\ l.meets = BOOLEAN
      /\ l.verdict = Accepts
  BY DEF Accepts, Drops, AcceptAll
<1>2. Matches(l, p) <=> p.in = "lan" /\ p.protocol = "tcp" /\ p.port \in k.management
  BY <1>1, MatchesAll DEF PacketOK
<1>3. QED
  BY <1>1, <1>2

LEMMA DhcpMatches ==
  ASSUME NEW p, PacketOK(p), NEW k, NEW l, l = [AcceptAll EXCEPT !.in = k.dhcp, !.protocol = {"udp"}, !.port = {67}]
  PROVE  (Matches(l, p) <=> p.in \in k.dhcp /\ p.protocol = "udp" /\ p.port = 67) /\ l.verdict = Accepts
<1>1. /\ l.in = k.dhcp /\ l.out = Sides /\ l.src = Hosts /\ l.dst = Hosts /\ l.protocol = {"udp"}
      /\ l.port = {67} /\ l.state = {"new", "established"} /\ l.dnat = BOOLEAN /\ l.flood = BOOLEAN
      /\ l.meets = BOOLEAN
      /\ l.verdict = Accepts
  BY DEF Accepts, Drops, AcceptAll
<1>2. Matches(l, p) <=> p.in \in k.dhcp /\ p.protocol = "udp" /\ p.port = 67
  BY <1>1, MatchesAll DEF PacketOK
<1>3. QED
  BY <1>1, <1>2

LEMMA DnsMatches ==
  ASSUME NEW p, PacketOK(p), NEW k, NEW l, l = [AcceptAll EXCEPT !.in = k.dns, !.protocol = {"tcp", "udp"}, !.port = {53}]
  PROVE  (Matches(l, p) <=> p.in \in k.dns /\ p.protocol \in {"tcp", "udp"} /\ p.port = 53) /\ l.verdict = Accepts
<1>1. /\ l.in = k.dns /\ l.out = Sides /\ l.src = Hosts /\ l.dst = Hosts /\ l.protocol = {"tcp", "udp"}
      /\ l.port = {53} /\ l.state = {"new", "established"} /\ l.dnat = BOOLEAN /\ l.flood = BOOLEAN
      /\ l.meets = BOOLEAN
      /\ l.verdict = Accepts
  BY DEF Accepts, Drops, AcceptAll
<1>2. Matches(l, p) <=> p.in \in k.dns /\ p.protocol \in {"tcp", "udp"} /\ p.port = 53
  BY <1>1, MatchesAll DEF PacketOK
<1>3. QED
  BY <1>1, <1>2

LEMMA TunnelMatches ==
  ASSUME NEW p, PacketOK(p), NEW k, NEW l, l = [AcceptAll EXCEPT !.protocol = {"udp"}, !.port = k.wireguard]
  PROVE  (Matches(l, p) <=> p.protocol = "udp" /\ p.port \in k.wireguard) /\ l.verdict = Accepts
<1>1. /\ l.in = Sides /\ l.out = Sides /\ l.src = Hosts /\ l.dst = Hosts /\ l.protocol = {"udp"}
      /\ l.port = k.wireguard /\ l.state = {"new", "established"} /\ l.dnat = BOOLEAN /\ l.flood = BOOLEAN
      /\ l.meets = BOOLEAN
      /\ l.verdict = Accepts
  BY DEF Accepts, Drops, AcceptAll
<1>2. Matches(l, p) <=> p.protocol = "udp" /\ p.port \in k.wireguard
  BY <1>1, MatchesAll DEF PacketOK
<1>3. QED
  BY <1>1, <1>2

\* What the self protection block, the WireGuard block and the DNS enforcement block match.
SelfAsked(k, p) ==
  \/ p.in = "lan" /\ p.protocol = "icmp" /\ p.meets
  \/ p.in = "lan" /\ p.protocol = "tcp" /\ p.port \in k.management
  \/ p.in \in k.dhcp /\ p.protocol = "udp" /\ p.port = 67
  \/ p.in \in k.dns /\ p.protocol \in {"tcp", "udp"} /\ p.port = 53
TunnelAsked(k, p) ==
  \/ p.protocol = "udp" /\ p.port \in k.wireguard
  \/ p.in = "vpn" /\ p.protocol = "icmp" /\ p.meets /\ k.wireguard # {}
Evades(k, p) ==
  /\ p.in \in Enforced(k) /\ p.protocol \in {"tcp", "udp"}
  /\ p.port \in {53, 853} \/ (p.dst \in Resolvers /\ p.port = 443)

LEMMA SelfProtectionSays ==
  ASSUME NEW p, PacketOK(p), NEW k, NEW o
  PROVE  Target(SelfProtection(k), p, o) = IF SelfAsked(k, p) THEN Accepts ELSE o
<1>1. PICK a, b, c, d :
        /\ a = Ping({"lan"}) /\ b = [AcceptAll EXCEPT !.in = {"lan"}, !.protocol = {"tcp"}, !.port = k.management]
        /\ c = [AcceptAll EXCEPT !.in = k.dhcp, !.protocol = {"udp"}, !.port = {67}]
        /\ d = [AcceptAll EXCEPT !.in = k.dns, !.protocol = {"tcp", "udp"}, !.port = {53}]
  OBVIOUS
<1>2. SelfProtection(k) = <<a, b, c, d>>
  BY <1>1 DEF SelfProtection
<1>3. a.verdict = Accepts /\ b.verdict = Accepts /\ c.verdict = Accepts /\ d.verdict = Accepts
  BY <1>1, PingMatches, ManagementMatches, DhcpMatches, DnsMatches
<1>4. Target(<<a, b, c, d>>, p, o) =
        IF Matches(a, p) \/ Matches(b, p) \/ Matches(c, p) \/ Matches(d, p) THEN a.verdict ELSE o
  <2>1. b.verdict = a.verdict /\ c.verdict = a.verdict /\ d.verdict = a.verdict
    BY <1>3
  <2>2. QED
    BY <2>1, FourLines
<1>5. Matches(a, p) <=> p.in = "lan" /\ p.protocol = "icmp" /\ p.meets
  <2>1. Matches(a, p) <=> p.in \in {"lan"} /\ p.protocol = "icmp" /\ p.meets
    BY <1>1, PingMatches
  <2>2. QED
    BY <2>1
<1>6. Matches(b, p) <=> p.in = "lan" /\ p.protocol = "tcp" /\ p.port \in k.management
  BY <1>1, ManagementMatches
<1>7. Matches(c, p) <=> p.in \in k.dhcp /\ p.protocol = "udp" /\ p.port = 67
  BY <1>1, DhcpMatches
<1>8. Matches(d, p) <=> p.in \in k.dns /\ p.protocol \in {"tcp", "udp"} /\ p.port = 53
  BY <1>1, DnsMatches
<1>9. QED
  BY <1>2, <1>3, <1>4, <1>5, <1>6, <1>7, <1>8 DEF SelfAsked

LEMMA WireguardInputSays ==
  ASSUME NEW p, PacketOK(p), NEW k, NEW o
  PROVE  Target(WireguardInput(k), p, o) = IF TunnelAsked(k, p) THEN Accepts ELSE o
<1>1. PICK a, b :
        /\ a = [AcceptAll EXCEPT !.protocol = {"udp"}, !.port = k.wireguard]
        /\ b = Ping(IF k.wireguard = {} THEN {} ELSE {"vpn"})
  OBVIOUS
<1>2. WireguardInput(k) = <<a, b>>
  BY <1>1 DEF WireguardInput
<1>3. a.verdict = Accepts /\ b.verdict = Accepts
  BY <1>1, PingMatches, TunnelMatches
<1>4. Target(<<a, b>>, p, o) = IF Matches(a, p) \/ Matches(b, p) THEN a.verdict ELSE o
  <2>1. b.verdict = a.verdict
    BY <1>3
  <2>2. QED
    BY <2>1, TwoLines
<1>5. Matches(a, p) <=> p.protocol = "udp" /\ p.port \in k.wireguard
  BY <1>1, TunnelMatches
<1>6. Matches(b, p) <=> p.in \in (IF k.wireguard = {} THEN {} ELSE {"vpn"}) /\ p.protocol = "icmp" /\ p.meets
  BY <1>1, PingMatches
<1>7. QED
  BY <1>2, <1>3, <1>4, <1>5, <1>6 DEF TunnelAsked

LEMMA DnsEnforceSays ==
  ASSUME NEW p, PacketOK(p), NEW k, NEW o
  PROVE  Target(DnsEnforceForward(k), p, o) = IF Evades(k, p) THEN Drops ELSE o
<1>1. PICK a, b :
        /\ a = [[Drop EXCEPT !.in = Enforced(k), !.protocol = {"tcp", "udp"}] EXCEPT !.port = {53, 853}]
        /\ b = [[Drop EXCEPT !.in = Enforced(k), !.protocol = {"tcp", "udp"}] EXCEPT !.dst = Resolvers, !.port = {443}]
  OBVIOUS
<1>2. DnsEnforceForward(k) = <<a, b>>
  BY <1>1 DEF DnsEnforceForward
<1>3. /\ a.in = Enforced(k) /\ a.out = Sides /\ a.src = Hosts /\ a.dst = Hosts /\ a.protocol = {"tcp", "udp"}
      /\ a.port = {53, 853} /\ a.state = {"new", "established"} /\ a.dnat = BOOLEAN /\ a.flood = BOOLEAN
      /\ a.meets = BOOLEAN /\ a.verdict = Drops
  BY <1>1 DEF Accepts, Drops, Drop, AcceptAll
<1>4. /\ b.in = Enforced(k) /\ b.out = Sides /\ b.src = Hosts /\ b.dst = Resolvers /\ b.protocol = {"tcp", "udp"}
      /\ b.port = {443} /\ b.state = {"new", "established"} /\ b.dnat = BOOLEAN /\ b.flood = BOOLEAN
      /\ b.meets = BOOLEAN /\ b.verdict = Drops
  BY <1>1 DEF Accepts, Drops, Drop, AcceptAll
<1>5. Target(<<a, b>>, p, o) = IF Matches(a, p) \/ Matches(b, p) THEN a.verdict ELSE o
  <2>1. b.verdict = a.verdict
    BY <1>3, <1>4
  <2>2. QED
    BY <2>1, TwoLines
<1>6. Matches(a, p) <=> p.in \in Enforced(k) /\ p.protocol \in {"tcp", "udp"} /\ p.port \in {53, 853}
  BY <1>3, MatchesAll DEF PacketOK
<1>7. Matches(b, p) <=> p.in \in Enforced(k) /\ p.protocol \in {"tcp", "udp"} /\ p.dst \in Resolvers /\ p.port = 443
  BY <1>4, MatchesAll DEF PacketOK
<1>8. a.verdict = Drops
  BY <1>3
<1>9. Matches(a, p) \/ Matches(b, p) <=> Evades(k, p)
  BY <1>6, <1>7 DEF Evades
<1>10. QED
  BY <1>2, <1>5, <1>8, <1>9

\* What the lines of the SNI filter match.
ShutQuic(k, p) == QuicIsShut(k) /\ p.protocol = "udp" /\ p.port = 443
Queued(k, p) == k.sni /\ p.protocol = "tcp" /\ p.port = 443

LEMMA SniSays ==
  ASSUME NEW p, PacketOK(p), NEW k, NEW o
  PROVE  Target(SniLines(k), p, o) = IF ShutQuic(k, p) THEN Drops ELSE IF Queued(k, p) THEN Accepts ELSE o
<1>1. PICK a, b :
        /\ a = [Drop EXCEPT !.protocol = {"udp"}, !.port = IF QuicIsShut(k) THEN {443} ELSE {}]
        /\ b = [AcceptAll EXCEPT !.protocol = {"tcp"}, !.port = IF k.sni THEN {443} ELSE {}]
  OBVIOUS
<1>2. SniLines(k) = <<a, b>>
  BY <1>1 DEF SniLines
<1>3. /\ a.in = Sides /\ a.out = Sides /\ a.src = Hosts /\ a.dst = Hosts /\ a.protocol = {"udp"}
      /\ a.port = (IF QuicIsShut(k) THEN {443} ELSE {}) /\ a.state = {"new", "established"} /\ a.dnat = BOOLEAN
      /\ a.flood = BOOLEAN /\ a.meets = BOOLEAN /\ a.verdict = Drops
  BY <1>1 DEF Accepts, Drops, Drop, AcceptAll
<1>4. /\ b.in = Sides /\ b.out = Sides /\ b.src = Hosts /\ b.dst = Hosts /\ b.protocol = {"tcp"}
      /\ b.port = (IF k.sni THEN {443} ELSE {}) /\ b.state = {"new", "established"} /\ b.dnat = BOOLEAN
      /\ b.flood = BOOLEAN /\ b.meets = BOOLEAN /\ b.verdict = Accepts
  BY <1>1 DEF Accepts, Drops, AcceptAll
<1>5. Matches(a, p) <=> ShutQuic(k, p)
  BY <1>3, MatchesAll DEF PacketOK, ShutQuic
<1>6. Matches(b, p) <=> Queued(k, p)
  BY <1>4, MatchesAll DEF PacketOK, Queued
<1>7. QED
  BY <1>2, <1>3, <1>4, <1>5, <1>6, FirstOfTwo

\* What the assumption says of one configuration.
LEMMA ConfigIs ==
  ASSUME NEW k \in Configs
  PROVE  /\ k.forwards \in Seq(Forwards) /\ k.mappings \in Seq(Mappings) /\ k.rules \in Seq(Rules)
         /\ {k.wan, k.masquerade, k.enforce, k.inbound, k.outbound, k.sni, k.quic} \subseteq BOOLEAN
         /\ {k.dns, k.dhcp} \subseteq SUBSET {"lan", "vpn"} /\ {k.management, k.wireguard} \subseteq SUBSET Ports
         /\ \A i \in DOMAIN k.forwards :
              /\ k.forwards[i].first <= k.forwards[i].last
              /\ k.forwards[i].first # k.forwards[i].last => k.forwards[i].internal = k.forwards[i].first
BY RulesetAssumption

LEMMA BlocksAreSeqs ==
  ASSUME NEW k \in Configs
  PROVE  /\ IsSeq(Established) /\ IsSeq(DdosRules) /\ IsSeq(SelfProtection(k)) /\ IsSeq(WireguardInput(k))
         /\ IsSeq(SniLines(k)) /\ IsSeq(DnsEnforceForward(k)) /\ IsSeq(PortForwardAccepts(k))
         /\ \A c \in {"input", "forward", "output"} : IsSeq(GeoipRules(k, c)) /\ IsSeq(Chain(k, c))
<1>1. IsSeq(Established) /\ IsSeq(DdosRules)
  BY Tuples DEF Established, DdosRules
<1>2. IsSeq(SelfProtection(k))
  BY Tuples DEF SelfProtection
<1>3. IsSeq(WireguardInput(k))
  BY Tuples DEF WireguardInput
<1>4. IsSeq(DnsEnforceForward(k))
  <2>1. \E a, b : DnsEnforceForward(k) = <<a, b>>
    BY DEF DnsEnforceForward
  <2>2. QED
    BY <2>1, Tuples
<1>5. \A c \in {"input", "forward", "output"} : IsSeq(GeoipRules(k, c))
  BY Tuples DEF GeoipRules
<1>6. \A c \in {"input", "forward", "output"} : IsSeq(Chain(k, c))
  <2>1. TAKE c \in {"input", "forward", "output"}
  <2>2. Len(k.rules) \in Nat /\ DOMAIN k.rules = 1..Len(k.rules)
    BY ConfigIs
  <2>3. DOMAIN Chain(k, c) = 1..Len(k.rules) /\ Chain(k, c) = [i \in 1..Len(k.rules) |-> Chain(k, c)[i]]
    BY <2>2 DEF Chain
  <2>4. QED
    BY <2>2, <2>3, SeqBy
<1>7. IsSeq(PortForwardAccepts(k))
  <2>1. CASE ~k.wan
    BY <2>1, Tuples DEF PortForwardAccepts
  <2>2. CASE k.wan
    <3>1. Len(k.forwards) \in Nat /\ DOMAIN k.forwards = 1..Len(k.forwards)
      BY ConfigIs
    <3>2. /\ DOMAIN PortForwardAccepts(k) = 1..Len(k.forwards)
          /\ PortForwardAccepts(k) = [i \in 1..Len(k.forwards) |-> PortForwardAccepts(k)[i]]
      BY <2>2, <3>1 DEF PortForwardAccepts
    <3>3. QED
      BY <3>1, <3>2, SeqBy
  <2>3. QED
    BY <2>1, <2>2
<1>8. IsSeq(SniLines(k))
  <2>1. \E a, b : SniLines(k) = <<a, b>>
    BY DEF SniLines
  <2>2. QED
    BY <2>1, Tuples
<1>9. QED
  BY <1>1, <1>2, <1>3, <1>4, <1>5, <1>6, <1>7, <1>8

LEMMA PortForwardSays ==
  ASSUME NEW k \in Configs, NEW p, PacketOK(p), NEW o
  PROVE  Target(PortForwardAccepts(k), p, o) = IF p.dnat /\ ForwardedTo(k, p) THEN Accepts ELSE o
<1>1. PICK s : s = PortForwardAccepts(k)
  OBVIOUS
<1>2. IsSeq(s)
  BY <1>1, BlocksAreSeqs
<1>3. CASE ~k.wan
  <2>1. s = <<>> /\ Len(s) = 0
    BY <1>1, <1>3 DEF PortForwardAccepts
  <2>2. \A i \in 1..Len(s) : s[i].verdict = AcceptAll.verdict /\ ~Matches(s[i], p)
    BY <2>1
  <2>3. Target(s, p, o) = o
    BY <1>2, <2>2, TargetOfBlock
  <2>4. QED
    BY <1>1, <1>3, <2>3 DEF ForwardedTo
<1>4. CASE k.wan
  <2>1. DOMAIN k.forwards = 1..Len(k.forwards) /\ Len(k.forwards) \in Nat
    BY ConfigIs
  <2>2. DOMAIN s = 1..Len(k.forwards) /\ s = [i \in 1..Len(k.forwards) |-> s[i]]
    BY <1>1, <1>4, <2>1 DEF PortForwardAccepts
  <2>3. DOMAIN s = DOMAIN k.forwards /\ Len(s) = Len(k.forwards)
    BY <2>1, <2>2, SeqBy
  <2>4. ASSUME NEW i \in DOMAIN k.forwards
        PROVE  /\ s[i].verdict = AcceptAll.verdict
               /\ Matches(s[i], p) <=>
                    /\ p.in = "wan" /\ p.dst = k.forwards[i].host /\ p.protocol \in k.forwards[i].protocols
                    /\ p.port \in InternalPorts(k.forwards[i]) /\ p.dnat
    <3>1. PICK l : l = s[i]
      OBVIOUS
    <3>2. l = [AcceptAll EXCEPT !.in = {"wan"}, !.dst = {k.forwards[i].host}, !.protocol = k.forwards[i].protocols,
                                !.port = InternalPorts(k.forwards[i]), !.dnat = {TRUE}]
      BY <1>1, <1>4, <3>1 DEF PortForwardAccepts
    <3>3. /\ l.in = {"wan"} /\ l.out = Sides /\ l.src = Hosts /\ l.dst = {k.forwards[i].host}
          /\ l.protocol = k.forwards[i].protocols /\ l.port = InternalPorts(k.forwards[i])
          /\ l.state = {"new", "established"} /\ l.dnat = {TRUE} /\ l.flood = BOOLEAN /\ l.meets = BOOLEAN
          /\ l.verdict = AcceptAll.verdict
      BY <3>2 DEF Accepts, Drops, AcceptAll
    <3>4. Matches(l, p) <=>
            /\ p.in = "wan" /\ p.dst = k.forwards[i].host /\ p.protocol \in k.forwards[i].protocols
            /\ p.port \in InternalPorts(k.forwards[i]) /\ p.dnat
      BY <3>3, MatchesAll DEF PacketOK
    <3>5. QED
      BY <3>1, <3>3, <3>4
  <2>5. (\E i \in 1..Len(s) : Matches(s[i], p)) <=> p.dnat /\ ForwardedTo(k, p)
    BY <1>4, <2>1, <2>3, <2>4 DEF ForwardedTo
  <2>6. Target(s, p, o) = IF \E i \in 1..Len(s) : Matches(s[i], p) THEN AcceptAll.verdict ELSE o
    <3>1. \A i \in 1..Len(s) : s[i].verdict = AcceptAll.verdict
      BY <2>1, <2>3, <2>4
    <3>2. QED
      BY <1>2, <3>1, TargetOfBlock
  <2>7. AcceptAll.verdict = Accepts
    BY DEF Accepts, Drops, AcceptAll
  <2>8. QED
    BY <1>1, <2>5, <2>6, <2>7
<1>5. QED
  BY <1>3, <1>4

\* A rule is about a packet in a chain.
About(r, chain, p) ==
  /\ r.chain = chain /\ (IF chain = "output" THEN p.out ELSE p.in) \in r.sides
  /\ p.src \in r.src /\ p.dst \in r.dst /\ p.protocol \in r.protocols /\ p.port \in r.ports
  /\ r.conditional => p.meets

LEMMA RuleLineMatches ==
  ASSUME NEW p, PacketOK(p), NEW r \in Rules
  PROVE  /\ Matches(RuleLine(r), p) <=> About(r, r.chain, p)
         /\ RuleLine(r).verdict = r.accepts
<1>1. PICK l : l = RuleLine(r)
  OBVIOUS
<1>2. /\ l.in = (IF r.chain = "output" THEN Sides ELSE r.sides)
      /\ l.out = (IF r.chain = "output" THEN r.sides ELSE Sides)
      /\ l.src = r.src /\ l.dst = r.dst /\ l.protocol = r.protocols /\ l.port = r.ports
      /\ l.state = {"new", "established"} /\ l.dnat = BOOLEAN /\ l.flood = BOOLEAN
      /\ l.meets = (IF r.conditional THEN {TRUE} ELSE BOOLEAN) /\ l.verdict = r.accepts
  BY <1>1 DEF Accepts, Drops, RuleLine, AcceptAll
<1>3. p.meets \in (IF r.conditional THEN {TRUE} ELSE BOOLEAN) <=> (r.conditional => p.meets)
  BY DEF PacketOK
<1>4. Matches(l, p) <=> About(r, r.chain, p)
  BY <1>2, <1>3, MatchesAll DEF PacketOK, About
<1>5. QED
  BY <1>1, <1>2, <1>4

LEMMA ChainSays ==
  ASSUME NEW k \in Configs, NEW p, PacketOK(p), NEW o, NEW c \in {"input", "forward", "output"}
  PROVE  \/ Target(Chain(k, c), p, o) = o
         \/ \E i \in DOMAIN k.rules : About(k.rules[i], c, p) /\ Target(Chain(k, c), p, o) = k.rules[i].accepts
<1>1. PICK s : s = Chain(k, c)
  OBVIOUS
<1>2. PICK i : i = Hit(s, p)
  OBVIOUS
<1>3. IsSeq(s)
  BY <1>1, BlocksAreSeqs
<1>4. CASE i = 0
  BY <1>1, <1>2, <1>4 DEF Target
<1>5. CASE i # 0
  <2>1. i \in 1..Len(s) /\ Matches(s[i], p) /\ Target(s, p, o) = s[i].verdict
    BY <1>2, <1>3, <1>5, HitIsFirst DEF Target
  <2>2. DOMAIN k.rules = 1..Len(k.rules) /\ Len(k.rules) \in Nat
    BY ConfigIs
  <2>3. DOMAIN s = DOMAIN k.rules /\ Len(s) = Len(k.rules)
    BY <1>1, <2>2 DEF Chain
  <2>4. i \in DOMAIN k.rules /\ k.rules[i] \in Rules
    BY <2>1, <2>2, <2>3, ConfigIs
  <2>5. s[i] = IF k.rules[i].chain = c THEN RuleLine(k.rules[i]) ELSE [AcceptAll EXCEPT !.in = {}]
    BY <1>1, <2>4 DEF Chain
  <2>6. k.rules[i].chain = c
    <3>1. SUFFICES ASSUME k.rules[i].chain # c PROVE FALSE
      OBVIOUS
    <3>2. s[i].in = {}
      BY <2>5, <3>1 DEF Accepts, Drops, AcceptAll
    <3>3. QED
      BY <2>1, <3>2, MatchesAll
  <2>7. Matches(RuleLine(k.rules[i]), p) /\ Target(s, p, o) = RuleLine(k.rules[i]).verdict
    BY <2>1, <2>5, <2>6
  <2>8. QED
    BY <1>1, <2>4, <2>6, <2>7, RuleLineMatches
<1>6. QED
  BY <1>4, <1>5

-----------------------------------------------------------------------------
(* What each chain says. *)

\* Over the limit of new TCP connections.
Flooding(p) == p.protocol = "tcp" /\ p.state = "new" /\ p.flood

LEMMA InputSays ==
  ASSUME NEW k \in Configs, NEW p, PacketOK(p), NEW o
  PROVE  Target(Input(k), p, o) =
           IF p.state = "established" THEN Accepts
           ELSE IF Flooding(p) \/ BlockedSource(k, p) THEN Drops
           ELSE IF SelfAsked(k, p) \/ TunnelAsked(k, p) THEN Accepts
           ELSE Target(Chain(k, "input"), p, o)
<1>1. PICK a, b, c, d, e, f :
        /\ a = Established /\ b = DdosRules /\ c = GeoipRules(k, "input") /\ d = SelfProtection(k)
        /\ e = WireguardInput(k) /\ f = Chain(k, "input")
  OBVIOUS
<1>2. IsSeq(a) /\ IsSeq(b) /\ IsSeq(c) /\ IsSeq(d) /\ IsSeq(e) /\ IsSeq(f)
  BY <1>1, BlocksAreSeqs
<1>3. Input(k) = a \o b \o c \o d \o e \o f
  BY <1>1 DEF Input
<1>4. IsSeq(a \o b) /\ IsSeq(a \o b \o c) /\ IsSeq(a \o b \o c \o d) /\ IsSeq(a \o b \o c \o d \o e)
  BY <1>2, Joined
<1>5. Target(Input(k), p, o) =
        Target(a, p, Target(b, p, Target(c, p, Target(d, p, Target(e, p, Target(f, p, o))))))
  BY <1>2, <1>3, <1>4, TargetJoined
<1>6. PICK t : t = Target(f, p, o)
  OBVIOUS
<1>7. Target(e, p, t) = IF TunnelAsked(k, p) THEN Accepts ELSE t
  BY <1>1, WireguardInputSays
<1>8. Target(d, p, Target(e, p, t)) = IF SelfAsked(k, p) THEN Accepts ELSE Target(e, p, t)
  BY <1>1, SelfProtectionSays
<1>9. \A x : Target(c, p, x) = IF BlockedSource(k, p) THEN Drops ELSE x
  BY <1>1, GeoipSays
<1>10. \A x : Target(b, p, x) = IF Flooding(p) THEN Drops ELSE x
  BY <1>1, DdosSays DEF Flooding
<1>11. \A x : Target(a, p, x) = IF p.state = "established" THEN Accepts ELSE x
  BY <1>1, EstablishedSays
<1>12. QED
  BY <1>1, <1>5, <1>6, <1>7, <1>8, <1>9, <1>10, <1>11

LEMMA ForwardSays ==
  ASSUME NEW k \in Configs, NEW p, PacketOK(p), NEW o
  PROVE  Target(Forward(k), p, o) =
           IF ShutQuic(k, p) THEN Drops
           ELSE IF Queued(k, p) \/ p.state = "established" THEN Accepts
           ELSE IF Flooding(p) \/ Evades(k, p) \/ BlockedSource(k, p) \/ BlockedDestination(k, p) THEN Drops
           ELSE IF p.dnat /\ ForwardedTo(k, p) THEN Accepts
           ELSE Target(Chain(k, "forward"), p, o)
<1>1. PICK a, b, c, d, e, f, g :
        /\ a = Established /\ b = DdosRules /\ c = DnsEnforceForward(k) /\ d = GeoipRules(k, "forward")
        /\ e = PortForwardAccepts(k) /\ f = Chain(k, "forward") /\ g = SniLines(k)
  OBVIOUS
<1>2. IsSeq(a) /\ IsSeq(b) /\ IsSeq(c) /\ IsSeq(d) /\ IsSeq(e) /\ IsSeq(f) /\ IsSeq(g)
  BY <1>1, BlocksAreSeqs
<1>3. Forward(k) = g \o a \o b \o c \o d \o e \o f
  BY <1>1 DEF Forward
<1>4. /\ IsSeq(g \o a) /\ IsSeq(g \o a \o b) /\ IsSeq(g \o a \o b \o c) /\ IsSeq(g \o a \o b \o c \o d)
      /\ IsSeq(g \o a \o b \o c \o d \o e)
  BY <1>2, Joined
<1>5. Target(Forward(k), p, o) =
        Target(g, p, Target(a, p, Target(b, p, Target(c, p, Target(d, p, Target(e, p, Target(f, p, o)))))))
  BY <1>2, <1>3, <1>4, TargetJoined
<1>6. PICK t : t = Target(f, p, o)
  OBVIOUS
<1>7. Target(e, p, t) = IF p.dnat /\ ForwardedTo(k, p) THEN Accepts ELSE t
  BY <1>1, PortForwardSays
<1>8. \A x : Target(d, p, x) = IF BlockedSource(k, p) \/ BlockedDestination(k, p) THEN Drops ELSE x
  BY <1>1, GeoipSays
<1>9. \A x : Target(c, p, x) = IF Evades(k, p) THEN Drops ELSE x
  BY <1>1, DnsEnforceSays
<1>10. \A x : Target(b, p, x) = IF Flooding(p) THEN Drops ELSE x
  BY <1>1, DdosSays DEF Flooding
<1>11. \A x : Target(a, p, x) = IF p.state = "established" THEN Accepts ELSE x
  BY <1>1, EstablishedSays
<1>12. \A x : Target(g, p, x) = IF ShutQuic(k, p) THEN Drops ELSE IF Queued(k, p) THEN Accepts ELSE x
  BY <1>1, SniSays
<1>13. QED
  BY <1>1, <1>5, <1>6, <1>7, <1>8, <1>9, <1>10, <1>11, <1>12

LEMMA OutputSays ==
  ASSUME NEW k \in Configs, NEW p, PacketOK(p), NEW o
  PROVE  Target(Output(k), p, o) =
           IF BlockedDestination(k, p) THEN Drops ELSE Target(Chain(k, "output"), p, o)
<1>1. Target(Output(k), p, o) = Target(GeoipRules(k, "output"), p, Target(Chain(k, "output"), p, o))
  BY BlocksAreSeqs, TargetJoined DEF Output
<1>2. QED
  BY <1>1, GeoipSays

\* Any block: a line of it that matches, or nothing.
LEMMA TargetOfLines ==
  ASSUME NEW block, IsSeq(block), NEW p, NEW o
  PROVE  \/ Target(block, p, o) = o /\ \A i \in 1..Len(block) : ~Matches(block[i], p)
         \/ \E i \in 1..Len(block) : Matches(block[i], p) /\ Target(block, p, o) = block[i].verdict
<1>1. CASE Hit(block, p) = 0
  <2>1. Len(block) \in Nat
    BY DEF IsSeq
  <2>2. \A i \in 1..Len(block) : ~Matches(block[i], p)
    BY <1>1, <2>1, HitIsFirst
  <2>3. QED
    BY <1>1, <2>2 DEF Target
<1>2. CASE Hit(block, p) # 0
  BY <1>2, HitIsFirst DEF Target
<1>3. QED
  BY <1>1, <1>2

-----------------------------------------------------------------------------
(* What the NAT chains say. *)

\* What the lines of PREROUTING match: the redirection to the firewall's own resolver, a
\* mapping, a port forward.
Redirected(k, p) ==
  p.in \in Enforced(k) /\ p.dst \notin Own /\ p.protocol \in {"tcp", "udp"} /\ p.port = 53
Mapped(m, p) == p.in = "wan" /\ p.dst = m.external
Forwarded(f, p) == p.in = "wan" /\ p.protocol \in f.protocols /\ p.port \in f.first..f.last
ForwardTarget(f) == [host |-> f.host, port |-> IF f.first = f.last THEN f.internal ELSE NoPort]
MappingLine(m) == [NatTo(m.internal, NoPort) EXCEPT !.in = {"wan"}, !.dst = {m.external}]
SourceLine(m) == [NatTo(m.external, NoPort) EXCEPT !.out = {"wan"}, !.src = {m.internal}]
Masquerade(k) == [NatTo(Address, NoPort) EXCEPT !.out = IF k.masquerade THEN {"wan"} ELSE {}]

LEMMA RedirectMatches ==
  ASSUME NEW k, NEW p, PacketOK(p)
  PROVE  /\ Matches(Redirect(k), p) <=> Redirected(k, p)
         /\ Redirect(k).verdict = [host |-> Address, port |-> 53]
<1>1. PICK l : l = Redirect(k)
  OBVIOUS
<1>2. /\ l.in = Enforced(k) /\ l.out = Sides /\ l.src = Hosts /\ l.dst = Hosts \ Own
      /\ l.protocol = {"tcp", "udp"} /\ l.port = {53} /\ l.state = {"new", "established"} /\ l.dnat = BOOLEAN
      /\ l.flood = BOOLEAN /\ l.meets = BOOLEAN /\ l.verdict = [host |-> Address, port |-> 53]
  BY <1>1 DEF Redirect, NatTo, AcceptAll
<1>3. Matches(l, p) <=> Redirected(k, p)
  BY <1>2, MatchesAll DEF PacketOK, Redirected
<1>4. QED
  BY <1>1, <1>2, <1>3

LEMMA DnatMatches ==
  ASSUME NEW f, NEW p, PacketOK(p)
  PROVE  /\ Matches(Dnat(f), p) <=> Forwarded(f, p)
         /\ Dnat(f).verdict = ForwardTarget(f)
<1>1. PICK l : l = Dnat(f)
  OBVIOUS
<1>2. /\ l.in = {"wan"} /\ l.out = Sides /\ l.src = Hosts /\ l.dst = Hosts
      /\ l.protocol = f.protocols /\ l.port = f.first..f.last /\ l.state = {"new", "established"} /\ l.dnat = BOOLEAN
      /\ l.flood = BOOLEAN /\ l.meets = BOOLEAN /\ l.verdict = ForwardTarget(f)
  BY <1>1 DEF Dnat, NatTo, AcceptAll, ForwardTarget
<1>3. Matches(l, p) <=> Forwarded(f, p)
  BY <1>2, MatchesAll DEF PacketOK, Forwarded
<1>4. QED
  BY <1>1, <1>2, <1>3

LEMMA MappingMatches ==
  ASSUME NEW m, NEW p, PacketOK(p)
  PROVE  /\ Matches(MappingLine(m), p) <=> Mapped(m, p)
         /\ MappingLine(m).verdict = [host |-> m.internal, port |-> NoPort]
<1>1. PICK l : l = MappingLine(m)
  OBVIOUS
<1>2. /\ l.in = {"wan"} /\ l.out = Sides /\ l.src = Hosts /\ l.dst = {m.external}
      /\ l.protocol = Protocols /\ l.port = Ports \union {NoPort} /\ l.state = {"new", "established"}
      /\ l.dnat = BOOLEAN /\ l.flood = BOOLEAN /\ l.meets = BOOLEAN
      /\ l.verdict = [host |-> m.internal, port |-> NoPort]
  BY <1>1 DEF MappingLine, NatTo, AcceptAll
<1>3. Matches(l, p) <=> Mapped(m, p)
  BY <1>2, MatchesAll DEF PacketOK, Mapped
<1>4. QED
  BY <1>1, <1>2, <1>3

LEMMA SourceLineMatches ==
  ASSUME NEW m, NEW p, PacketOK(p)
  PROVE  /\ Matches(SourceLine(m), p) <=> p.out = "wan" /\ p.src = m.internal
         /\ SourceLine(m).verdict = [host |-> m.external, port |-> NoPort]
<1>1. PICK l : l = SourceLine(m)
  OBVIOUS
<1>2. /\ l.in = Sides /\ l.out = {"wan"} /\ l.src = {m.internal} /\ l.dst = Hosts
      /\ l.protocol = Protocols /\ l.port = Ports \union {NoPort} /\ l.state = {"new", "established"}
      /\ l.dnat = BOOLEAN /\ l.flood = BOOLEAN /\ l.meets = BOOLEAN
      /\ l.verdict = [host |-> m.external, port |-> NoPort]
  BY <1>1 DEF SourceLine, NatTo, AcceptAll
<1>3. Matches(l, p) <=> p.out = "wan" /\ p.src = m.internal
  BY <1>2, MatchesAll DEF PacketOK
<1>4. QED
  BY <1>1, <1>2, <1>3

\* First the redirection, then the mappings, then the port forwards.
LEMMA PreroutingSays ==
  ASSUME NEW k \in Configs, NEW p, PacketOK(p), NEW o
  PROVE  /\ ~HasNat(k) => Target(Prerouting(k), p, o) = o
         /\ HasNat(k) =>
              \/ Redirected(k, p) /\ Target(Prerouting(k), p, o) = [host |-> Address, port |-> 53]
              \/ /\ ~Redirected(k, p)
                 /\ \E i \in DOMAIN k.mappings :
                      /\ Mapped(k.mappings[i], p)
                      /\ Target(Prerouting(k), p, o) = [host |-> k.mappings[i].internal, port |-> NoPort]
              \/ /\ ~Redirected(k, p) /\ \A i \in DOMAIN k.mappings : ~Mapped(k.mappings[i], p)
                 /\ \E i \in DOMAIN k.forwards :
                      /\ Forwarded(k.forwards[i], p)
                      /\ Target(Prerouting(k), p, o) = ForwardTarget(k.forwards[i])
              \/ /\ ~Redirected(k, p) /\ \A i \in DOMAIN k.mappings : ~Mapped(k.mappings[i], p)
                 /\ \A i \in DOMAIN k.forwards : ~Forwarded(k.forwards[i], p)
                 /\ Target(Prerouting(k), p, o) = o
<1>1. CASE ~HasNat(k)
  <2>1. PICK s : s = Prerouting(k)
    OBVIOUS
  <2>2. s = <<>> /\ Len(s) = 0
    BY <1>1, <2>1 DEF Prerouting
  <2>3. IsSeq(s)
    BY <2>2, Tuples
  <2>4. Target(s, p, o) = o
    BY <2>2, <2>3, TargetOfLines
  <2>5. QED
    BY <1>1, <2>1, <2>4
<1>2. CASE HasNat(k)
  <2>1. PICK a, b, c : a = <<Redirect(k)>> /\ b = [i \in DOMAIN k.mappings |-> MappingLine(k.mappings[i])]
                       /\ c = [i \in DOMAIN k.forwards |-> Dnat(k.forwards[i])]
    OBVIOUS
  <2>2. Prerouting(k) = a \o b \o c
    BY <1>2, <2>1 DEF Prerouting, MappingLine
  <2>3. /\ DOMAIN k.mappings = 1..Len(k.mappings) /\ Len(k.mappings) \in Nat
        /\ DOMAIN k.forwards = 1..Len(k.forwards) /\ Len(k.forwards) \in Nat
    BY ConfigIs
  <2>4. DOMAIN b = 1..Len(k.mappings) /\ b = [i \in 1..Len(k.mappings) |-> b[i]]
    BY <2>1, <2>3
  <2>5. DOMAIN c = 1..Len(k.forwards) /\ c = [i \in 1..Len(k.forwards) |-> c[i]]
    BY <2>1, <2>3
  <2>6. IsSeq(a) /\ IsSeq(b) /\ Len(b) = Len(k.mappings) /\ IsSeq(c) /\ Len(c) = Len(k.forwards)
    BY <2>1, <2>3, <2>4, <2>5, SeqBy, Tuples
  <2>7. PICK u, v : u = Target(c, p, o) /\ v = Target(b, p, u)
    OBVIOUS
  <2>8. Target(Prerouting(k), p, o) = Target(a, p, v)
    <3>1. IsSeq(a \o b)
      BY <2>6, Joined
    <3>2. Target(a \o b \o c, p, o) = Target(a \o b, p, Target(c, p, o))
      BY <2>6, <3>1, TargetJoined
    <3>3. Target(a \o b, p, u) = Target(a, p, Target(b, p, u))
      BY <2>6, TargetJoined
    <3>4. QED
      BY <2>2, <2>7, <3>2, <3>3
  <2>9. Target(a, p, v) = IF Matches(Redirect(k), p) THEN Redirect(k).verdict ELSE v
    BY <2>1, OneLine
  <2>10. Target(a, p, v) = IF Redirected(k, p) THEN [host |-> Address, port |-> 53] ELSE v
    BY <2>9, RedirectMatches
  <2>11. \A i \in DOMAIN k.mappings :
           /\ Matches(b[i], p) <=> Mapped(k.mappings[i], p)
           /\ b[i].verdict = [host |-> k.mappings[i].internal, port |-> NoPort]
    <3>1. TAKE i \in DOMAIN k.mappings
    <3>2. b[i] = MappingLine(k.mappings[i])
      BY <2>1
    <3>3. QED
      BY <3>2, MappingMatches
  <2>12. \A i \in DOMAIN k.forwards :
           (Matches(c[i], p) <=> Forwarded(k.forwards[i], p)) /\ c[i].verdict = ForwardTarget(k.forwards[i])
    <3>1. TAKE i \in DOMAIN k.forwards
    <3>2. c[i] = Dnat(k.forwards[i])
      BY <2>1
    <3>3. QED
      BY <3>2, DnatMatches
  <2>13. \/ \E i \in DOMAIN k.mappings :
              Mapped(k.mappings[i], p) /\ v = [host |-> k.mappings[i].internal, port |-> NoPort]
         \/ v = u /\ \A i \in DOMAIN k.mappings : ~Mapped(k.mappings[i], p)
    <3>1. \/ v = u /\ \A i \in 1..Len(b) : ~Matches(b[i], p)
          \/ \E i \in 1..Len(b) : Matches(b[i], p) /\ v = b[i].verdict
      BY <2>6, <2>7, TargetOfLines
    <3>2. 1..Len(b) = DOMAIN k.mappings
      BY <2>3, <2>6
    <3>3. QED
      BY <2>11, <3>1, <3>2
  <2>14. \/ \E i \in DOMAIN k.forwards : Forwarded(k.forwards[i], p) /\ u = ForwardTarget(k.forwards[i])
         \/ u = o /\ \A i \in DOMAIN k.forwards : ~Forwarded(k.forwards[i], p)
    <3>1. \/ u = o /\ \A i \in 1..Len(c) : ~Matches(c[i], p)
          \/ \E i \in 1..Len(c) : Matches(c[i], p) /\ u = c[i].verdict
      BY <2>6, <2>7, TargetOfLines
    <3>2. 1..Len(c) = DOMAIN k.forwards
      BY <2>3, <2>6
    <3>3. QED
      BY <2>12, <3>1, <3>2
  <2>15. QED
    BY <1>2, <2>8, <2>10, <2>13, <2>14
<1>3. QED
  BY <1>1, <1>2

LEMMA PostroutingSays ==
  ASSUME NEW k \in Configs, NEW p, PacketOK(p), NEW o
  PROVE  \/ /\ HasNat(k)
            /\ \E i \in DOMAIN k.mappings :
                 /\ p.out = "wan" /\ p.src = k.mappings[i].internal
                 /\ Target(Postrouting(k), p, o) = [host |-> k.mappings[i].external, port |-> NoPort]
         \/ /\ HasNat(k) => \A i \in DOMAIN k.mappings : ~(p.out = "wan" /\ p.src = k.mappings[i].internal)
            /\ Target(Postrouting(k), p, o) \in {o, [host |-> Address, port |-> NoPort]}
<1>1. CASE ~HasNat(k)
  <2>1. PICK s : s = Postrouting(k)
    OBVIOUS
  <2>2. s = <<>> /\ Len(s) = 0
    BY <1>1, <2>1 DEF Postrouting
  <2>3. IsSeq(s)
    BY <2>2, Tuples
  <2>4. Target(s, p, o) = o
    BY <2>2, <2>3, TargetOfLines
  <2>5. QED
    BY <1>1, <2>1, <2>4
<1>2. CASE HasNat(k)
  <2>1. PICK b, c : b = [i \in DOMAIN k.mappings |-> SourceLine(k.mappings[i])] /\ c = <<Masquerade(k)>>
    OBVIOUS
  <2>2. Postrouting(k) = b \o c
    BY <1>2, <2>1 DEF Postrouting, SourceLine, Masquerade
  <2>3. DOMAIN k.mappings = 1..Len(k.mappings) /\ Len(k.mappings) \in Nat
    BY ConfigIs
  <2>4. DOMAIN b = 1..Len(k.mappings) /\ b = [i \in 1..Len(k.mappings) |-> b[i]]
    BY <2>1, <2>3
  <2>5. IsSeq(b) /\ Len(b) = Len(k.mappings) /\ IsSeq(c)
    BY <2>1, <2>3, <2>4, SeqBy, Tuples
  <2>6. PICK u : u = Target(c, p, o)
    OBVIOUS
  <2>7. Target(Postrouting(k), p, o) = Target(b, p, u)
    BY <2>2, <2>5, <2>6, TargetJoined
  <2>8. Masquerade(k).verdict = [host |-> Address, port |-> NoPort]
    BY DEF Masquerade, NatTo, AcceptAll
  <2>9. u \in {o, [host |-> Address, port |-> NoPort]}
    <3>1. u = IF Matches(Masquerade(k), p) THEN Masquerade(k).verdict ELSE o
      BY <2>1, <2>6, OneLine
    <3>2. QED
      BY <2>8, <3>1
  <2>10. \A i \in DOMAIN k.mappings :
           /\ Matches(b[i], p) <=> p.out = "wan" /\ p.src = k.mappings[i].internal
           /\ b[i].verdict = [host |-> k.mappings[i].external, port |-> NoPort]
    <3>1. TAKE i \in DOMAIN k.mappings
    <3>2. b[i] = SourceLine(k.mappings[i])
      BY <2>1
    <3>3. QED
      BY <3>2, SourceLineMatches
  <2>11. \/ Target(b, p, u) = u /\ \A i \in 1..Len(b) : ~Matches(b[i], p)
         \/ \E i \in 1..Len(b) : Matches(b[i], p) /\ Target(b, p, u) = b[i].verdict
    BY <2>5, TargetOfLines
  <2>12. 1..Len(b) = DOMAIN k.mappings
    BY <2>3, <2>5
  <2>13. QED
    BY <1>2, <2>7, <2>9, <2>10, <2>11, <2>12
<1>3. QED
  BY <1>1, <1>2

LEMMA SideIs ==
  ASSUME NEW h \in Hosts
  PROVE  /\ Side(h) \in Sides
         /\ (Side(h) = "self" <=> h \in Own) /\ (Side(h) = "wan" <=> h \in Outside)
         /\ (Side(h) = "lan" <=> h \in Inside) /\ (Side(h) = "vpn" <=> h \in Tunnel)
BY RulesetAssumption DEF Side, Sides, Hosts

LEMMA PacketIs ==
  ASSUME NEW p \in Packets
  PROVE  /\ PacketOK(p) /\ p.state = "new" /\ p.dnat = FALSE
         /\ p.in = Side(p.src) /\ p.out = Side(p.dst)
         /\ p.port \in (IF p.protocol = "icmp" THEN {NoPort} ELSE Ports)
         /\ p = [in |-> p.in, out |-> p.out, src |-> p.src, dst |-> p.dst, protocol |-> p.protocol, port |-> p.port,
                 state |-> p.state, dnat |-> p.dnat, flood |-> p.flood, meets |-> p.meets]
<1>1. PICK s \in Hosts \ (Own \ {Address}), d \in Hosts, v \in Services, over \in BOOLEAN, meets \in BOOLEAN :
        p = [in |-> Side(s), out |-> Side(d), src |-> s, dst |-> d, protocol |-> v.protocol, port |-> v.port,
             state |-> "new", dnat |-> FALSE, flood |-> over, meets |-> meets]
  BY DEF Packets
<1>2. /\ p.in = Side(s) /\ p.out = Side(d) /\ p.src = s /\ p.dst = d /\ p.protocol = v.protocol /\ p.port = v.port
      /\ p.state = "new" /\ p.dnat = FALSE /\ p.flood = over /\ p.meets = meets
  BY <1>1
<1>3. v.protocol \in Protocols /\ v.port \in (IF v.protocol = "icmp" THEN {NoPort} ELSE Ports)
  BY DEF Services, Protocols
<1>4. PacketOK(p)
  <2>1. s \in Hosts
    OBVIOUS
  <2>2. Side(s) \in Sides /\ Side(d) \in Sides
    BY <2>1, SideIs
  <2>3. v.port \in Ports \union {NoPort}
    BY <1>3
  <2>4. QED
    BY <1>2, <1>3, <2>1, <2>2, <2>3 DEF PacketOK
<1>5. QED
  BY <1>1, <1>2, <1>3, <1>4

\* Where the first packet goes after DNAT.
Goal(k, p) ==
  LET here == [host |-> p.dst, port |-> p.port]
  IN IF p.in = "self" THEN here ELSE Target(generate[k].prerouting, p, here)

LEMMA GoalSays ==
  ASSUME NEW k \in Configs, NEW p \in Packets
  PROVE  \/ /\ Goal(k, p) = [host |-> p.dst, port |-> p.port]
            /\ HasNat(k) /\ p.in # "self" =>
                 /\ ~Redirected(k, p) /\ \A i \in DOMAIN k.mappings : ~Mapped(k.mappings[i], p)
                 /\ \A i \in DOMAIN k.forwards : ~Forwarded(k.forwards[i], p)
         \/ HasNat(k) /\ Redirected(k, p) /\ Goal(k, p) = [host |-> Address, port |-> 53]
         \/ /\ HasNat(k) /\ p.in = "wan"
            /\ \E i \in DOMAIN k.mappings :
                 Mapped(k.mappings[i], p) /\ Goal(k, p) = [host |-> k.mappings[i].internal, port |-> NoPort]
         \/ /\ HasNat(k) /\ p.in = "wan" /\ \A i \in DOMAIN k.mappings : ~Mapped(k.mappings[i], p)
            /\ \E i \in DOMAIN k.forwards : Forwarded(k.forwards[i], p) /\ Goal(k, p) = ForwardTarget(k.forwards[i])
<1>1. PICK o : o = [host |-> p.dst, port |-> p.port]
  OBVIOUS
<1>2. generate[k].prerouting = Prerouting(k)
  BY DEF generate
<1>3. Goal(k, p) = IF p.in = "self" THEN o ELSE Target(Prerouting(k), p, o)
  BY <1>1, <1>2 DEF Goal
<1>4. PacketOK(p)
  BY PacketIs
<1>5. CASE p.in = "self"
  BY <1>1, <1>3, <1>5
<1>6. CASE p.in # "self" /\ ~HasNat(k)
  BY <1>1, <1>3, <1>4, <1>6, PreroutingSays
<1>7. CASE p.in # "self" /\ HasNat(k)
  <2>1. PICK t : t = Target(Prerouting(k), p, o)
    OBVIOUS
  <2>2. \/ Redirected(k, p) /\ t = [host |-> Address, port |-> 53]
        \/ /\ ~Redirected(k, p)
           /\ \E i \in DOMAIN k.mappings : Mapped(k.mappings[i], p) /\ t = [host |-> k.mappings[i].internal, port |-> NoPort]
        \/ /\ ~Redirected(k, p) /\ \A i \in DOMAIN k.mappings : ~Mapped(k.mappings[i], p)
           /\ \E i \in DOMAIN k.forwards : Forwarded(k.forwards[i], p) /\ t = ForwardTarget(k.forwards[i])
        \/ /\ ~Redirected(k, p) /\ \A i \in DOMAIN k.mappings : ~Mapped(k.mappings[i], p)
           /\ (\A i \in DOMAIN k.forwards : ~Forwarded(k.forwards[i], p)) /\ t = o
    BY <1>4, <1>7, <2>1, PreroutingSays
  <2>3. QED
    BY <1>1, <1>3, <1>7, <2>1, <2>2 DEF Mapped, Forwarded
<1>8. QED
  BY <1>5, <1>6, <1>7

LEMMA GoalOK ==
  ASSUME NEW k \in Configs, NEW p \in Packets
  PROVE  /\ Goal(k, p).host \in Hosts
         /\ Goal(k, p).port \in Ports \union {NoPort}
         /\ p.protocol = "icmp" => Goal(k, p).port = NoPort
<1>1. p.dst \in Hosts /\ p.port \in (IF p.protocol = "icmp" THEN {NoPort} ELSE Ports)
  BY PacketIs DEF PacketOK
<1>2. CASE Goal(k, p) = [host |-> p.dst, port |-> p.port]
  BY <1>1, <1>2
<1>3. CASE Redirected(k, p) /\ Goal(k, p) = [host |-> Address, port |-> 53]
  BY <1>3, RulesetAssumption DEF Redirected, Hosts
<1>4. CASE \E i \in DOMAIN k.mappings : Goal(k, p) = [host |-> k.mappings[i].internal, port |-> NoPort]
  <2>1. PICK i \in DOMAIN k.mappings : Goal(k, p) = [host |-> k.mappings[i].internal, port |-> NoPort]
    BY <1>4
  <2>2. k.mappings[i] \in Mappings
    BY ConfigIs
  <2>3. k.mappings[i].internal \in Inside
    BY <2>2 DEF Mappings
  <2>4. QED
    BY <2>1, <2>3 DEF Hosts
<1>5. CASE \E i \in DOMAIN k.forwards : Forwarded(k.forwards[i], p) /\ Goal(k, p) = ForwardTarget(k.forwards[i])
  <2>1. PICK i \in DOMAIN k.forwards : Forwarded(k.forwards[i], p) /\ Goal(k, p) = ForwardTarget(k.forwards[i])
    BY <1>5
  <2>2. PICK f : f = k.forwards[i]
    OBVIOUS
  <2>3. f \in Forwards
    BY <2>2, ConfigIs
  <2>4. f.host \in Inside /\ f.internal \in Ports /\ f.protocols \subseteq {"tcp", "udp"}
    BY <2>3 DEF Forwards
  <2>5. p.protocol # "icmp"
    BY <2>1, <2>2, <2>4 DEF Forwarded
  <2>6. Goal(k, p).host = f.host /\ Goal(k, p).port \in {f.internal, NoPort}
    BY <2>1, <2>2 DEF ForwardTarget
  <2>7. QED
    BY <2>4, <2>5, <2>6 DEF Hosts
<1>6. QED
  BY <1>2, <1>3, <1>4, <1>5, GoalSays

\* What DNAT changes of a packet and what not.
LEMMA TranslatedIs ==
  ASSUME NEW k \in Configs, NEW p \in Packets
  PROVE  LET q == Translated(k, p)
         IN /\ q.in = p.in /\ q.src = p.src /\ q.protocol = p.protocol /\ q.state = "new"
            /\ q.flood = p.flood /\ q.meets = p.meets
            /\ q.dst = Goal(k, p).host /\ q.out = Side(q.dst)
            /\ q.port = IF Goal(k, p).port = NoPort THEN p.port ELSE Goal(k, p).port
            /\ q.dnat \in BOOLEAN /\ (q.dnat <=> Goal(k, p) # [host |-> p.dst, port |-> p.port])
            /\ q = [in |-> q.in, out |-> q.out, src |-> q.src, dst |-> q.dst, protocol |-> q.protocol, port |-> q.port,
                    state |-> q.state, dnat |-> q.dnat, flood |-> q.flood, meets |-> q.meets]
<1>1. PICK q : q = Translated(k, p)
  OBVIOUS
<1>2. PICK to : to = Goal(k, p)
  OBVIOUS
<1>3. PICK moved \in BOOLEAN : moved = (to # [host |-> p.dst, port |-> p.port])
  OBVIOUS
<1>4. q = [p EXCEPT !.dst = to.host, !.out = Side(to.host), !.dnat = moved,
                    !.port = IF to.port = NoPort THEN p.port ELSE to.port]
  BY <1>1, <1>2, <1>3 DEF Translated, Goal
<1>5. p = [in |-> p.in, out |-> p.out, src |-> p.src, dst |-> p.dst, protocol |-> p.protocol, port |-> p.port,
           state |-> p.state, dnat |-> p.dnat, flood |-> p.flood, meets |-> p.meets] /\ p.state = "new"
  BY PacketIs
<1>6. q = [in |-> p.in, out |-> Side(to.host), src |-> p.src, dst |-> to.host, protocol |-> p.protocol,
           port |-> IF to.port = NoPort THEN p.port ELSE to.port,
           state |-> "new", dnat |-> moved, flood |-> p.flood, meets |-> p.meets]
  BY <1>4, <1>5
<1>7. /\ q.in = p.in /\ q.src = p.src /\ q.protocol = p.protocol /\ q.state = "new" /\ q.flood = p.flood
      /\ q.meets = p.meets /\ q.dst = to.host /\ q.out = Side(to.host)
      /\ q.port = (IF to.port = NoPort THEN p.port ELSE to.port)
  BY <1>6
<1>8. q.dnat = moved
  BY <1>6
<1>9. q.dnat \in BOOLEAN /\ (q.dnat <=> to # [host |-> p.dst, port |-> p.port])
  BY <1>3, <1>8
<1>10. q = [in |-> q.in, out |-> q.out, src |-> q.src, dst |-> q.dst, protocol |-> q.protocol, port |-> q.port,
            state |-> q.state, dnat |-> q.dnat, flood |-> q.flood, meets |-> q.meets]
  BY <1>6
<1>11. QED
  BY <1>1, <1>2, <1>7, <1>9, <1>10

LEMMA TranslatedOK ==
  ASSUME NEW k \in Configs, NEW p \in Packets
  PROVE  /\ PacketOK(Translated(k, p))
         /\ Translated(k, p).port \in (IF p.protocol = "icmp" THEN {NoPort} ELSE Ports)
         /\ Translated(k, p).dnat => p.in # "self"
<1>1. PICK q : q = Translated(k, p)
  OBVIOUS
<1>2. PICK to : to = Goal(k, p)
  OBVIOUS
<1>3. /\ q.in = p.in /\ q.src = p.src /\ q.protocol = p.protocol /\ q.state = "new"
      /\ q.flood = p.flood /\ q.meets = p.meets /\ q.dst = to.host /\ q.out = Side(to.host)
      /\ q.port = IF to.port = NoPort THEN p.port ELSE to.port
      /\ q.dnat \in BOOLEAN /\ (q.dnat <=> to # [host |-> p.dst, port |-> p.port])
  BY <1>1, <1>2, TranslatedIs
<1>4. to.host \in Hosts /\ to.port \in Ports \union {NoPort} /\ (p.protocol = "icmp" => to.port = NoPort)
  BY <1>2, GoalOK
<1>5. PacketOK(p) /\ p.port \in (IF p.protocol = "icmp" THEN {NoPort} ELSE Ports)
  BY PacketIs
<1>6. q.port \in (IF p.protocol = "icmp" THEN {NoPort} ELSE Ports)
  BY <1>3, <1>4, <1>5
<1>7. q.port \in Ports \union {NoPort}
  BY <1>6
<1>8. Side(to.host) \in Sides
  BY <1>4, SideIs
<1>9. PacketOK(q)
  BY <1>3, <1>4, <1>5, <1>7, <1>8 DEF PacketOK
<1>10. q.dnat => p.in # "self"
  BY <1>2, <1>3 DEF Goal
<1>11. QED
  BY <1>1, <1>6, <1>9, <1>10

\* Which chain judges a packet, and what it says.
LEMMA FilteredIs ==
  ASSUME NEW k \in Configs, NEW p
  PROVE  Filtered(k, p) = Target(CASE ChainOf(p) = "input" -> Input(k) [] ChainOf(p) = "forward" -> Forward(k)
                                   [] ChainOf(p) = "output" -> Output(k),
                                 p, IF ChainOf(p) = "output" THEN Accepts ELSE Drops)
<1>1. PICK o : o = (ChainOf(p) = "output")
  OBVIOUS
<1>2. o = IF ChainOf(p) = "output" THEN Accepts ELSE Drops
  BY <1>1 DEF Accepts, Drops
<1>3. ChainOf(p) \in {"input", "forward", "output"}
  BY DEF ChainOf
<1>4. generate[k].input = Input(k) /\ generate[k].forward = Forward(k) /\ generate[k].output = Output(k)
  BY DEF generate
<1>5. Filtered(k, p) = Target(generate[k][ChainOf(p)], p, o)
  BY <1>1 DEF Filtered, Passes, Target
<1>6. QED
  BY <1>2, <1>3, <1>4, <1>5

LEMMA ChainVerdict ==
  ASSUME NEW k \in Configs, NEW p, PacketOK(p), NEW o \in BOOLEAN, NEW c \in {"input", "forward", "output"}
  PROVE  /\ Target(Chain(k, c), p, o) \in BOOLEAN
         /\ \/ Target(Chain(k, c), p, o) = o
            \/ \E i \in DOMAIN k.rules :
                 About(k.rules[i], c, p) /\ (Target(Chain(k, c), p, o) <=> k.rules[i].accepts)
<1>1. CASE Target(Chain(k, c), p, o) = o
  BY <1>1
<1>2. CASE \E i \in DOMAIN k.rules : About(k.rules[i], c, p) /\ Target(Chain(k, c), p, o) = k.rules[i].accepts
  <2>1. PICK i \in DOMAIN k.rules : About(k.rules[i], c, p) /\ Target(Chain(k, c), p, o) = k.rules[i].accepts
    BY <1>2
  <2>2. k.rules[i] \in Rules
    BY ConfigIs
  <2>3. k.rules[i].accepts \in BOOLEAN
    BY <2>2 DEF Rules
  <2>4. QED
    BY <2>1, <2>3
<1>3. QED
  BY <1>1, <1>2, ChainSays

LEMMA InputJudges ==
  ASSUME NEW k \in Configs, NEW p, PacketOK(p), ChainOf(p) = "input"
  PROVE  /\ Filtered(k, p) \in BOOLEAN
         /\ p.state = "established" => Filtered(k, p)
         /\ p.state = "new" /\ Filtered(k, p) =>
              /\ ~BlockedSource(k, p)
              /\ \/ SelfAsked(k, p) \/ TunnelAsked(k, p)
                 \/ \E i \in DOMAIN k.rules : About(k.rules[i], "input", p) /\ k.rules[i].accepts
         /\ SelfAsked(k, p) /\ ~Flooding(p) /\ ~BlockedSource(k, p) => Filtered(k, p)
<1>1. Filtered(k, p) = Target(Input(k), p, Drops)
  BY FilteredIs
<1>2. PICK t : t = Target(Chain(k, "input"), p, Drops)
  OBVIOUS
<1>3. t \in BOOLEAN /\ (t => \E i \in DOMAIN k.rules : About(k.rules[i], "input", p) /\ k.rules[i].accepts)
  BY <1>2, ChainVerdict DEF Drops
<1>4. Filtered(k, p) =
        IF p.state = "established" THEN Accepts
        ELSE IF Flooding(p) \/ BlockedSource(k, p) THEN Drops
        ELSE IF SelfAsked(k, p) \/ TunnelAsked(k, p) THEN Accepts
        ELSE t
  BY <1>1, <1>2, InputSays
<1>5. Accepts = TRUE /\ Drops = FALSE
  BY DEF Accepts, Drops
<1>6. QED
  BY <1>3, <1>4, <1>5

LEMMA ForwardJudges ==
  ASSUME NEW k \in Configs, NEW p, PacketOK(p), ChainOf(p) = "forward"
  PROVE  /\ Filtered(k, p) \in BOOLEAN
         /\ p.state = "established" => Filtered(k, p) \/ ShutQuic(k, p)
         /\ Filtered(k, p) => ~ShutQuic(k, p)
         /\ p.state = "new" /\ Filtered(k, p) /\ ~Queued(k, p) =>
              /\ ~Evades(k, p) /\ ~BlockedSource(k, p) /\ ~BlockedDestination(k, p)
              /\ \/ p.dnat /\ ForwardedTo(k, p)
                 \/ \E i \in DOMAIN k.rules : About(k.rules[i], "forward", p) /\ k.rules[i].accepts
         /\ /\ p.dnat /\ ForwardedTo(k, p) /\ ~Flooding(p) /\ ~ShutQuic(k, p)
            /\ ~Evades(k, p) /\ ~BlockedSource(k, p) /\ ~BlockedDestination(k, p)
            => Filtered(k, p)
<1>1. Filtered(k, p) = Target(Forward(k), p, Drops)
  BY FilteredIs
<1>2. PICK t : t = Target(Chain(k, "forward"), p, Drops)
  OBVIOUS
<1>3. t \in BOOLEAN /\ (t => \E i \in DOMAIN k.rules : About(k.rules[i], "forward", p) /\ k.rules[i].accepts)
  BY <1>2, ChainVerdict DEF Drops
<1>4. Filtered(k, p) =
        IF ShutQuic(k, p) THEN Drops
        ELSE IF Queued(k, p) \/ p.state = "established" THEN Accepts
        ELSE IF Flooding(p) \/ Evades(k, p) \/ BlockedSource(k, p) \/ BlockedDestination(k, p) THEN Drops
        ELSE IF p.dnat /\ ForwardedTo(k, p) THEN Accepts
        ELSE t
  BY <1>1, <1>2, ForwardSays
<1>5. Accepts = TRUE /\ Drops = FALSE
  BY DEF Accepts, Drops
<1>6. QED
  BY <1>3, <1>4, <1>5

LEMMA OutputJudges ==
  ASSUME NEW k \in Configs, NEW p, PacketOK(p), ChainOf(p) = "output"
  PROVE  /\ Filtered(k, p) \in BOOLEAN
         /\ Filtered(k, p) => ~BlockedDestination(k, p)
         /\ \/ Filtered(k, p) \/ BlockedDestination(k, p)
            \/ \E i \in DOMAIN k.rules : About(k.rules[i], "output", p) /\ ~k.rules[i].accepts
<1>1. Filtered(k, p) = Target(Output(k), p, Accepts)
  BY FilteredIs
<1>2. PICK t : t = Target(Chain(k, "output"), p, Accepts)
  OBVIOUS
<1>3. t \in BOOLEAN /\ (t \/ \E i \in DOMAIN k.rules : About(k.rules[i], "output", p) /\ ~k.rules[i].accepts)
  BY <1>2, ChainVerdict DEF Accepts
<1>4. Filtered(k, p) = IF BlockedDestination(k, p) THEN Drops ELSE t
  BY <1>1, <1>2, OutputSays
<1>5. Accepts = TRUE /\ Drops = FALSE
  BY DEF Accepts, Drops
<1>6. QED
  BY <1>3, <1>4, <1>5

LEMMA FilteredOK ==
  ASSUME NEW k \in Configs, NEW p, PacketOK(p)
  PROVE  Filtered(k, p) \in BOOLEAN
BY InputJudges, ForwardJudges, OutputJudges DEF ChainOf

LEMMA SourceSays ==
  ASSUME NEW k \in Configs, NEW p, PacketOK(p)
  PROVE  /\ Source(k, p) \in Hosts
         /\ p.out = "wan" /\ HasNat(k) =>
              \/ \E i \in DOMAIN k.mappings : p.src = k.mappings[i].internal /\ Source(k, p) = k.mappings[i].external
              \/ \A i \in DOMAIN k.mappings : p.src # k.mappings[i].internal
<1>1. PICK o : o = [host |-> p.src, port |-> NoPort]
  OBVIOUS
<1>2. p.src \in Hosts /\ Address \in Hosts
  BY RulesetAssumption DEF PacketOK, Hosts
<1>3. CASE p.out = "self"
  <2>1. PICK s : s = <<>>
    OBVIOUS
  <2>2. IsSeq(s) /\ Len(s) = 0
    BY <2>1, Tuples
  <2>3. Target(s, p, o) = o
    BY <2>2, TargetOfLines
  <2>4. Source(k, p) = o.host
    BY <1>1, <1>3, <2>1, <2>3 DEF Source
  <2>5. QED
    BY <1>1, <1>2, <1>3, <2>4
<1>4. CASE p.out # "self"
  <2>1. PICK t : t = Target(Postrouting(k), p, o)
    OBVIOUS
  <2>2. generate[k].postrouting = Postrouting(k)
    BY DEF generate
  <2>3. Source(k, p) = t.host
    BY <1>1, <1>4, <2>1, <2>2 DEF Source
  <2>4. \/ /\ HasNat(k)
           /\ \E i \in DOMAIN k.mappings :
                /\ p.out = "wan" /\ p.src = k.mappings[i].internal
                /\ t = [host |-> k.mappings[i].external, port |-> NoPort]
        \/ /\ HasNat(k) => \A i \in DOMAIN k.mappings : ~(p.out = "wan" /\ p.src = k.mappings[i].internal)
           /\ t \in {o, [host |-> Address, port |-> NoPort]}
    BY <2>1, PostroutingSays
  <2>5. \A i \in DOMAIN k.mappings : k.mappings[i].external \in Hosts
    <3>1. TAKE i \in DOMAIN k.mappings
    <3>2. k.mappings[i] \in Mappings
      BY ConfigIs
    <3>3. QED
      BY <3>2 DEF Mappings, Hosts
  <2>6. CASE \E i \in DOMAIN k.mappings :
                /\ p.out = "wan" /\ p.src = k.mappings[i].internal
                /\ t = [host |-> k.mappings[i].external, port |-> NoPort]
    BY <2>3, <2>5, <2>6
  <2>7. CASE /\ HasNat(k) => \A i \in DOMAIN k.mappings : ~(p.out = "wan" /\ p.src = k.mappings[i].internal)
             /\ t \in {o, [host |-> Address, port |-> NoPort]}
    <3>1. t.host \in {p.src, Address}
      BY <1>1, <2>7
    <3>2. QED
      BY <1>2, <2>3, <2>7, <3>1
  <2>8. QED
    BY <2>4, <2>6, <2>7
<1>5. QED
  BY <1>3, <1>4

-----------------------------------------------------------------------------
(* The invariant. *)

\* A connection has fields of their types; every commit leaves it as it was opened.
ConnectionOK(r) ==
  /\ r.first \in Packets /\ r.open \in BOOLEAN /\ r.from \in Hosts
  /\ PacketOK(r.at)
  /\ r.at.port \in IF r.first.protocol = "icmp" THEN {NoPort} ELSE Ports
  /\ r.at.dnat => r.first.in # "self"
  /\ r.at = [in |-> r.at.in, out |-> r.at.out, src |-> r.at.src, dst |-> r.at.dst, protocol |-> r.at.protocol,
             port |-> r.at.port, state |-> r.at.state, dnat |-> r.at.dnat, flood |-> r.at.flood, meets |-> r.at.meets]

RulesetInv ==
  /\ kernel \in Configs
  /\ conns = [c \in Connections |-> conns[c]]
  /\ \A c \in Connections : conns[c] # NoConn => ConnectionOK(conns[c])

\* What Open writes.
Opened(k, p) ==
  [open |-> Filtered(k, Translated(k, p)), first |-> p, at |-> Translated(k, p), from |-> Source(k, Translated(k, p))]

LEMMA OpenedOK ==
  ASSUME NEW k \in Configs, NEW p \in Packets
  PROVE  ConnectionOK(Opened(k, p))
<1>1. PICK q : q = Translated(k, p)
  OBVIOUS
<1>2. PICK r : r = Opened(k, p)
  OBVIOUS
<1>3. r.first = p /\ r.at = q /\ r.open = Filtered(k, q) /\ r.from = Source(k, q)
  BY <1>1, <1>2 DEF Opened
<1>4. PacketOK(q) /\ q.port \in (IF p.protocol = "icmp" THEN {NoPort} ELSE Ports) /\ (q.dnat => p.in # "self")
  BY <1>1, TranslatedOK
<1>5. q = [in |-> q.in, out |-> q.out, src |-> q.src, dst |-> q.dst, protocol |-> q.protocol, port |-> q.port,
           state |-> q.state, dnat |-> q.dnat, flood |-> q.flood, meets |-> q.meets]
  BY <1>1, TranslatedIs
<1>6. r.open \in BOOLEAN /\ r.from \in Hosts
  BY <1>3, <1>4, FilteredOK, SourceSays
<1>7. QED
  BY <1>2, <1>3, <1>4, <1>5, <1>6 DEF ConnectionOK

LEMMA RulesetInitially == RulesetInit => RulesetInv
BY DEF RulesetInit, RulesetInv

LEMMA RulesetInvKept == RulesetInv /\ [RulesetNext]_rulesetVars => RulesetInv'
<1> SUFFICES ASSUME RulesetInv, [RulesetNext]_rulesetVars PROVE RulesetInv'
  OBVIOUS
<1>1. ASSUME NEW c \in Connections, NEW p \in Packets, Open(c, p) PROVE RulesetInv'
  <2>1. conns' = [conns EXCEPT ![c] = Opened(kernel, p)] /\ kernel' = kernel
    BY <1>1 DEF Open, Opened
  <2>2. ConnectionOK(Opened(kernel, p))
    BY OpenedOK DEF RulesetInv
  <2>3. PICK r : r = Opened(kernel, p)
    OBVIOUS
  <2>4. QED
    BY <2>1, <2>2, <2>3 DEF RulesetInv
<1>2. ASSUME NEW c \in Connections, Close(c) PROVE RulesetInv'
  BY <1>2 DEF Close, RulesetInv
<1>3. ASSUME NEW k \in Configs, Commit(k) PROVE RulesetInv'
  BY <1>3 DEF Commit, RulesetInv
<1>4. CASE UNCHANGED rulesetVars
  BY <1>4 DEF RulesetInv, rulesetVars
<1>5. QED
  BY <1>1, <1>2, <1>3, <1>4 DEF RulesetNext

\* The invariant holds in every reachable state.
THEOREM RulesetInvHolds == RulesetSpec => []RulesetInv
BY RulesetInitially, RulesetInvKept, PTL DEF RulesetSpec

\* Type correctness; among it, that NAT leads every connection to a host there is and to a
\* port exactly if its protocol has ports, and never one that the firewall opens itself.
THEOREM RulesetTypeCorrect == RulesetSpec => []RulesetTypeOK
<1>1. RulesetInv => RulesetTypeOK
  BY DEF RulesetInv, ConnectionOK, PacketOK, RulesetTypeOK
<1>2. QED
  BY <1>1, RulesetInvHolds, PTL

-----------------------------------------------------------------------------
(* Connections go on. *)

\* The packets that follow the first are packets of an established connection.
LEMMA OnwardOK ==
  ASSUME NEW p, PacketOK(p), NEW q \in Onward(p),
         p = [in |-> p.in, out |-> p.out, src |-> p.src, dst |-> p.dst, protocol |-> p.protocol, port |-> p.port,
              state |-> p.state, dnat |-> p.dnat, flood |-> p.flood, meets |-> p.meets]
  PROVE  PacketOK(q) /\ q.state = "established"
<1>1. PICK v \in BOOLEAN \X BOOLEAN : q = [p EXCEPT !.state = "established", !.flood = v[1], !.meets = v[2]]
  BY DEF Onward
<1>2. q = [in |-> p.in, out |-> p.out, src |-> p.src, dst |-> p.dst, protocol |-> p.protocol, port |-> p.port,
           state |-> "established", dnat |-> p.dnat, flood |-> v[1], meets |-> v[2]]
  BY <1>1
<1>3. /\ q.in = p.in /\ q.out = p.out /\ q.src = p.src /\ q.dst = p.dst /\ q.protocol = p.protocol /\ q.port = p.port
      /\ q.state = "established" /\ q.dnat = p.dnat /\ q.flood \in BOOLEAN /\ q.meets \in BOOLEAN
  BY <1>2
<1>4. QED
  BY <1>3 DEF PacketOK

LEMMA AnswerOK ==
  ASSUME NEW p, PacketOK(p),
         p = [in |-> p.in, out |-> p.out, src |-> p.src, dst |-> p.dst, protocol |-> p.protocol, port |-> p.port,
              state |-> p.state, dnat |-> p.dnat, flood |-> p.flood, meets |-> p.meets]
  PROVE  LET q == Answer(p)
         IN /\ PacketOK(q)
            /\ q = [in |-> q.in, out |-> q.out, src |-> q.src, dst |-> q.dst, protocol |-> q.protocol, port |-> q.port,
                    state |-> q.state, dnat |-> q.dnat, flood |-> q.flood, meets |-> q.meets]
<1>1. PICK q : q = Answer(p)
  OBVIOUS
<1>2. q = [in |-> p.out, out |-> p.in, src |-> p.dst, dst |-> p.src, protocol |-> p.protocol, port |-> NoPort,
           state |-> p.state, dnat |-> p.dnat, flood |-> p.flood, meets |-> p.meets]
  BY <1>1 DEF Answer, NoPort, Ephemeral
<1>3. /\ q.in = p.out /\ q.out = p.in /\ q.src = p.dst /\ q.dst = p.src /\ q.protocol = p.protocol /\ q.port = NoPort
      /\ q.state = p.state /\ q.dnat = p.dnat /\ q.flood = p.flood /\ q.meets = p.meets
  BY <1>2
<1>4. PacketOK(q)
  BY <1>3 DEF PacketOK
<1>5. q = [in |-> q.in, out |-> q.out, src |-> q.src, dst |-> q.dst, protocol |-> q.protocol, port |-> q.port,
           state |-> q.state, dnat |-> q.dnat, flood |-> q.flood, meets |-> q.meets]
  BY <1>2
<1>6. QED
  BY <1>1, <1>4, <1>5

\* No commit cuts a connection that is open: replies come first in INPUT and right after the
\* lines of the SNI filter in FORWARD (generator.rs), so only QUIC where that gets shut is
\* lost, and what OUTPUT holds back of the firewall's own packets.
THEOREM ConnectionsGoOnHolds == RulesetSpec => []ConnectionsGoOn
<1>1. RulesetInv => ConnectionsGoOn
  <2>1. SUFFICES ASSUME RulesetInv, NEW c \in Connections, conns[c] # NoConn,
                        NEW q \in Onward(conns[c].at) \union Onward(Answer(conns[c].at))
                 PROVE  \/ Filtered(kernel, q)
                        \/ QuicIsShut(kernel) /\ IsQuic(q)
                        \/ /\ q.in = "self"
                           /\ \/ kernel.outbound /\ q.dst \in Country(kernel)
                              \/ \E i \in DOMAIN kernel.rules : LET r == kernel.rules[i] IN
                                   r.chain = "output" /\ ~r.accepts /\ q.out \in r.sides /\ q.dst \in r.dst
    BY DEF ConnectionsGoOn
  <2>2. PICK p : p = conns[c].at
    OBVIOUS
  <2>3. ConnectionOK(conns[c]) /\ kernel \in Configs
    BY <2>1 DEF RulesetInv
  <2>4. /\ PacketOK(p)
        /\ p = [in |-> p.in, out |-> p.out, src |-> p.src, dst |-> p.dst, protocol |-> p.protocol, port |-> p.port,
                state |-> p.state, dnat |-> p.dnat, flood |-> p.flood, meets |-> p.meets]
    BY <2>2, <2>3 DEF ConnectionOK
  <2>5. PICK r : r = Answer(p)
    OBVIOUS
  <2>6. /\ PacketOK(r)
        /\ r = [in |-> r.in, out |-> r.out, src |-> r.src, dst |-> r.dst, protocol |-> r.protocol, port |-> r.port,
                state |-> r.state, dnat |-> r.dnat, flood |-> r.flood, meets |-> r.meets]
    BY <2>4, <2>5, AnswerOK
  <2>7. q \in Onward(p) \/ q \in Onward(r)
    BY <2>2, <2>5
  <2>8. PacketOK(q) /\ q.state = "established"
    BY <2>4, <2>6, <2>7, OnwardOK
  <2>9. CASE ChainOf(q) = "output"
    <3>1. q.in = "self"
      BY <2>9 DEF ChainOf
    <3>2. \/ Filtered(kernel, q) \/ BlockedDestination(kernel, q)
          \/ \E i \in DOMAIN kernel.rules : About(kernel.rules[i], "output", q) /\ ~kernel.rules[i].accepts
      BY <2>3, <2>8, <2>9, OutputJudges
    <3>3. QED
      BY <3>1, <3>2 DEF BlockedDestination, About
  <2>10. CASE ChainOf(q) # "output"
    <3>1. Filtered(kernel, q) \/ (ChainOf(q) = "forward" /\ ShutQuic(kernel, q))
      BY <2>3, <2>8, <2>10, InputJudges, ForwardJudges DEF ChainOf
    <3>2. QED
      BY <3>1 DEF ShutQuic, IsQuic
  <2>11. QED
    BY <2>9, <2>10
<1>2. QED
  BY <1>1, RulesetInvHolds, PTL

-----------------------------------------------------------------------------
(* The steps that open a connection. *)

LEMMA OpenStep ==
  ASSUME RulesetInv, [RulesetNext]_rulesetVars, NEW c \in Connections, Opens(c)
  PROVE  /\ kernel \in Configs
         /\ \E p \in Packets : conns'[c] = Opened(kernel, p)
<1>1. ASSUME NEW d \in Connections, NEW p \in Packets, Open(d, p)
      PROVE  \E x \in Packets : conns'[c] = Opened(kernel, x)
  <2>1. conns' = [conns EXCEPT ![d] = Opened(kernel, p)]
    BY <1>1 DEF Open, Opened
  <2>2. d = c
    BY <2>1 DEF Opens, RulesetInv
  <2>3. conns'[c] = Opened(kernel, p)
    BY <2>1, <2>2 DEF RulesetInv
  <2>4. QED
    BY <2>3
<1>2. ASSUME NEW d \in Connections, Close(d) PROVE FALSE
  BY <1>2 DEF Close, Opens, RulesetInv
<1>3. ASSUME NEW k \in Configs, Commit(k) PROVE FALSE
  BY <1>3 DEF Commit, Opens
<1>4. CASE UNCHANGED rulesetVars
  BY <1>4 DEF rulesetVars, Opens
<1>5. QED
  BY <1>1, <1>2, <1>3, <1>4 DEF RulesetNext, RulesetInv

\* The fields of the connection that was opened.
LEMMA OpenedIs ==
  ASSUME NEW k, NEW p
  PROVE  /\ Opened(k, p).open = Filtered(k, Translated(k, p)) /\ Opened(k, p).first = p
         /\ Opened(k, p).at = Translated(k, p) /\ Opened(k, p).from = Source(k, Translated(k, p))
BY DEF Opened

LEMMA AllowedIs ==
  ASSUME NEW k, NEW p, NEW c \in {"input", "forward"},
         \E i \in DOMAIN k.rules : About(k.rules[i], c, p) /\ k.rules[i].accepts
  PROVE  Allowed(k, c, p)
BY DEF About, Allowed

LEMMA AskedIsService ==
  ASSUME NEW k, NEW p, SelfAsked(k, p) \/ TunnelAsked(k, p)
  PROVE  OwnService(k, p)
BY DEF SelfAsked, TunnelAsked, OwnService

LEMMA OpenedIsLawful ==
  ASSUME NEW k \in Configs, NEW x \in Packets, Opened(k, x).open
  PROVE  Lawful(k, Opened(k, x)) \/ IsQueued(k, Opened(k, x).at)
<1>1. PICK p : p = Translated(k, x)
  OBVIOUS
<1>2. Opened(k, x).at = p /\ Filtered(k, p)
  BY <1>1, OpenedIs
<1>3. PacketOK(p) /\ p.state = "new"
  BY <1>1, TranslatedOK, TranslatedIs
<1>4. CASE ChainOf(p) = "input"
  <2>1. ~BlockedSource(k, p) /\ (OwnService(k, p) \/ Allowed(k, "input", p))
    BY <1>2, <1>3, <1>4, InputJudges, AllowedIs, AskedIsService
  <2>2. QED
    BY <1>2, <1>4, <2>1 DEF BlockedSource, Lawful, IsQuic
<1>5. CASE ChainOf(p) = "forward" /\ Queued(k, p)
  BY <1>2, <1>5 DEF Queued, IsQueued
<1>6. CASE ChainOf(p) = "forward" /\ ~Queued(k, p)
  <2>1. /\ ~Evades(k, p) /\ ~BlockedSource(k, p) /\ ~BlockedDestination(k, p) /\ ~ShutQuic(k, p)
        /\ (p.dnat /\ ForwardedTo(k, p)) \/ Allowed(k, "forward", p)
    BY <1>2, <1>3, <1>6, ForwardJudges, AllowedIs
  <2>2. p.in \in Enforced(k) /\ p.protocol # "icmp" => p.port \notin {53, 853} /\ (p.port = 443 => p.dst \notin Resolvers)
    BY <1>3, <2>1 DEF Evades, PacketOK, Protocols
  <2>3. QED
    BY <1>2, <1>6, <2>1, <2>2 DEF BlockedSource, BlockedDestination, Lawful, IsQuic, ShutQuic
<1>7. CASE ChainOf(p) = "output"
  <2>1. ~BlockedDestination(k, p)
    BY <1>2, <1>3, <1>7, OutputJudges
  <2>2. QED
    BY <1>2, <1>7, <2>1 DEF BlockedDestination, Lawful, IsQuic
<1>8. QED
  BY <1>4, <1>5, <1>6, <1>7 DEF ChainOf

\* Nothing is opened that the configuration does not ask for, and what it forbids stays shut:
\* the order of the blocks of FORWARD and INPUT in the generator (generator.rs) brings every
\* drop before the port forwards and the rules.  The queue of the SNI filter is ahead of them
\* all in FORWARD, and excused.
THEOREM OpensOnlyWhatIsAskedHolds == RulesetSpec => OpensOnlyWhatIsAsked
<1>1. RulesetInv /\ [RulesetNext]_rulesetVars =>
        \A c \in Connections :
          Opens(c) /\ conns'[c].open => Lawful(kernel, conns'[c]) \/ IsQueued(kernel, conns'[c].at)
  <2>1. SUFFICES ASSUME RulesetInv, [RulesetNext]_rulesetVars, NEW c \in Connections, Opens(c), conns'[c].open
                 PROVE  Lawful(kernel, conns'[c]) \/ IsQueued(kernel, conns'[c].at)
    OBVIOUS
  <2>2. PICK x \in Packets : conns'[c] = Opened(kernel, x) /\ kernel \in Configs
    BY <2>1, OpenStep
  <2>3. QED
    BY <2>1, <2>2, OpenedIsLawful
<1>2. QED
  BY <1>1, RulesetInvHolds, PTL DEF RulesetSpec, OpensOnlyWhatIsAsked

LEMMA PrivateIsNoCountry ==
  ASSUME NEW k, NEW h \in Protected
  PROVE  h \notin Country(k)
BY DEF Country, Zone

LEMMA OpenedIsAnswered ==
  ASSUME NEW k \in Configs, NEW p \in Packets
  PROVE  Answered(k, Opened(k, p))
<1>1. PICK q, g : q = Translated(k, p) /\ g = Goal(k, p)
  OBVIOUS
<1>2. Opened(k, p).first = p /\ Opened(k, p).at = q /\ Opened(k, p).open = Filtered(k, q)
  BY <1>1, OpenedIs
<1>3. SUFFICES ASSUME ForOwnService(k, p), p.src \in Protected
               PROVE  ChainOf(q) = "input" /\ (Filtered(k, q) \/ p.flood)
  BY <1>2 DEF Answered
<1>4. PacketOK(q) /\ PacketOK(p)
  BY <1>1, TranslatedOK, PacketIs
<1>5. /\ q.in = p.in /\ q.src = p.src /\ q.protocol = p.protocol /\ q.state = "new" /\ q.flood = p.flood
      /\ q.dst = g.host /\ q.out = Side(q.dst)
      /\ q.port = IF g.port = NoPort THEN p.port ELSE g.port
  BY <1>1, TranslatedIs
<1>6. k.dns \subseteq {"lan", "vpn"} /\ Enforced(k) \subseteq k.dns
  BY ConfigIs DEF Enforced
<1>7. p.in \in {"lan", "vpn"}
  BY <1>3, <1>6 DEF ForOwnService
<1>8. p.protocol # "icmp" => p.protocol \in {"tcp", "udp"}
  BY <1>4 DEF PacketOK, Protocols
<1>9. q.dst \in Own /\ SelfAsked(k, q)
  <2>1. CASE p.dst \in Own
    <3>1. ~Redirected(k, p)
      BY <2>1 DEF Redirected
    <3>2. g = [host |-> p.dst, port |-> p.port]
      BY <1>1, <1>7, <3>1, GoalSays
    <3>3. q.dst \in Own /\ q.port = p.port
      BY <1>5, <2>1, <3>2
    <3>4. SelfAsked(k, q)
      BY <1>3, <1>5, <1>6, <1>8, <3>3 DEF SelfAsked, ForOwnService
    <3>5. QED
      BY <3>3, <3>4
  <2>2. CASE p.dst \notin Own
    <3>1. k.wan /\ p.in \in Enforced(k) /\ p.port = 53 /\ p.protocol # "icmp"
      BY <1>3, <2>2 DEF ForOwnService
    <3>2. HasNat(k) /\ Redirected(k, p)
      BY <1>8, <2>2, <3>1 DEF HasNat, Redirected
    <3>3. g = [host |-> Address, port |-> 53]
      BY <1>1, <1>7, <3>2, GoalSays
    <3>4. q.dst \in Own /\ q.port = 53
      BY <1>5, <3>3, RulesetAssumption DEF NoPort
    <3>5. SelfAsked(k, q)
      BY <1>5, <1>6, <1>8, <3>1, <3>4 DEF SelfAsked
    <3>6. QED
      BY <3>4, <3>5
  <2>3. QED
    BY <2>1, <2>2
<1>10. ChainOf(q) = "input"
  <2>1. q.dst \in Hosts
    BY <1>4 DEF PacketOK
  <2>2. q.out = "self"
    BY <1>5, <1>9, <2>1, SideIs
  <2>3. QED
    BY <1>5, <1>7, <2>2 DEF ChainOf
<1>11. ~BlockedSource(k, q)
  BY <1>3, <1>5, PrivateIsNoCountry DEF BlockedSource
<1>12. Filtered(k, q) \/ p.flood
  BY <1>4, <1>5, <1>9, <1>10, <1>11, InputJudges DEF Flooding
<1>13. QED
  BY <1>10, <1>12

\* The firewall's own services answer who has a private address, whatever the rules say and
\* whatever networks were pasted for a blocked country: self protection stands before the
\* rules, and the zone's set leaves private space out.
THEOREM OwnServicesAnswerHolds == RulesetSpec => OwnServicesAnswer
<1>1. RulesetInv /\ [RulesetNext]_rulesetVars =>
        \A c \in Connections : Opens(c) => Answered(kernel, conns'[c])
  <2>1. SUFFICES ASSUME RulesetInv, [RulesetNext]_rulesetVars, NEW c \in Connections, Opens(c)
                 PROVE  Answered(kernel, conns'[c])
    OBVIOUS
  <2>2. PICK x \in Packets : conns'[c] = Opened(kernel, x) /\ kernel \in Configs
    BY <2>1, OpenStep
  <2>3. QED
    BY <2>2, OpenedIsAnswered
<1>2. QED
  BY <1>1, RulesetInvHolds, PTL DEF RulesetSpec, OwnServicesAnswer

-----------------------------------------------------------------------------
(* NAT and filter. *)

LEMMA ForwardIs ==
  ASSUME NEW k \in Configs, NEW i \in DOMAIN k.forwards
  PROVE  LET f == k.forwards[i]
         IN /\ f.host \in Inside /\ f.internal \in Ports /\ f.first \in Ports /\ f.last \in Ports
            /\ f.internal \in Nat \ {0} /\ f.first \in Nat \ {0} /\ f.last \in Nat \ {0}
            /\ f.protocols \subseteq {"tcp", "udp"} /\ f.first <= f.last /\ (f.first # f.last => f.internal = f.first)
<1>1. k.forwards[i] \in Forwards
  BY ConfigIs
<1>2. PICK f : f = k.forwards[i]
  OBVIOUS
<1>3. f.host \in Inside /\ f.internal \in Ports /\ f.first \in Ports /\ f.last \in Ports /\ f.protocols \subseteq {"tcp", "udp"}
  BY <1>1, <1>2 DEF Forwards
<1>4. Ports \subseteq Nat \ {0}
  BY RulesetAssumption
<1>5. f.first <= f.last /\ (f.first # f.last => f.internal = f.first)
  BY <1>2, ConfigIs
<1>6. QED
  BY <1>2, <1>3, <1>4, <1>5

\* A connection to a forwarded port arrives at its host and port.
LEMMA ForwardDelivers ==
  ASSUME NEW k \in Configs, NatIsClear(k), NEW p \in Packets, NEW i \in DOMAIN k.forwards,
         k.wan, p.in = "wan", p.dst \in Own, p.protocol \in k.forwards[i].protocols,
         p.port \in k.forwards[i].first..k.forwards[i].last,
         \A j \in DOMAIN k.mappings : k.mappings[j].external # p.dst
  PROVE  LET f == k.forwards[i]
             q == Translated(k, p)
         IN /\ q.dst = f.host /\ q.port = (p.port - f.first) + f.internal
            /\ \/ Filtered(k, q) \/ p.flood \/ BlockedSource(k, p) \/ (k.outbound /\ q.dst \in Country(k))
               \/ QuicIsShut(k) /\ IsQuic(q)
<1>1. PICK f, q, g : f = k.forwards[i] /\ q = Translated(k, p) /\ g = Goal(k, p)
  OBVIOUS
<1>2. /\ f.host \in Inside /\ f.internal \in Nat \ {0} /\ f.first \in Nat \ {0} /\ f.last \in Nat \ {0}
      /\ f.first <= f.last /\ (f.first # f.last => f.internal = f.first)
  BY <1>1, ForwardIs
<1>3. /\ q.in = p.in /\ q.src = p.src /\ q.protocol = p.protocol /\ q.state = "new" /\ q.flood = p.flood
      /\ q.dst = g.host /\ q.out = Side(q.dst)
      /\ q.port = (IF g.port = NoPort THEN p.port ELSE g.port)
      /\ (q.dnat <=> g # [host |-> p.dst, port |-> p.port])
  BY <1>1, TranslatedIs
<1>4. k.forwards # <<>>
  BY ConfigIs
<1>5. HasNat(k)
  BY <1>4 DEF HasNat
<1>6. k.dns \subseteq {"lan", "vpn"}
  BY ConfigIs
<1>7. Enforced(k) \subseteq {"lan", "vpn"}
  BY <1>6 DEF Enforced
<1>8. ~Redirected(k, p) /\ (\A j \in DOMAIN k.mappings : ~Mapped(k.mappings[j], p)) /\ Forwarded(f, p)
  BY <1>1, <1>7 DEF Redirected, Mapped, Forwarded
<1>9. \E j \in DOMAIN k.forwards : Forwarded(k.forwards[j], p) /\ g = ForwardTarget(k.forwards[j])
  BY <1>1, <1>5, <1>8, GoalSays
<1>10. g = ForwardTarget(f)
  <2>1. PICK j \in DOMAIN k.forwards : Forwarded(k.forwards[j], p) /\ g = ForwardTarget(k.forwards[j])
    BY <1>9
  <2>2. PICK h : h = k.forwards[j]
    OBVIOUS
  <2>3. h.first \in Nat /\ h.last \in Nat
    BY <2>2, ForwardIs
  <2>4. p.port \in h.first..h.last /\ p.port \in f.first..f.last /\ p.protocol \in h.protocols \intersect f.protocols
    BY <1>1, <1>8, <2>1, <2>2 DEF Forwarded
  <2>5. p.port \in Nat /\ h.first <= p.port /\ p.port <= h.last /\ f.first <= p.port /\ p.port <= f.last
    BY <1>2, <2>3, <2>4
  <2>6. ~(h.last < f.first) /\ ~(f.last < h.first) /\ h.protocols \intersect f.protocols # {}
    BY <1>2, <2>3, <2>4, <2>5
  <2>7. i = j
    BY <1>1, <2>2, <2>6 DEF NatIsClear
  <2>8. QED
    BY <1>1, <2>1, <2>7
<1>11. p.port \in Nat /\ f.first <= p.port /\ p.port <= f.last
  BY <1>1, <1>2
<1>12. g.host = f.host /\ g.port = (IF f.first = f.last THEN f.internal ELSE NoPort)
  BY <1>10 DEF ForwardTarget
<1>13. q.dst = f.host /\ q.port = (p.port - f.first) + f.internal
  <2>1. CASE f.first = f.last
    <3>1. p.port = f.first /\ q.port = f.internal
      BY <1>2, <1>3, <1>11, <1>12, <2>1 DEF NoPort
    <3>2. QED
      BY <1>2, <1>3, <1>12, <3>1
  <2>2. CASE f.first # f.last
    BY <1>2, <1>3, <1>11, <1>12, <2>2
  <2>3. QED
    BY <2>1, <2>2
<1>14. q.port \in InternalPorts(f)
  BY <1>2, <1>11, <1>13 DEF InternalPorts
<1>15. q.dnat
  <2>1. f.host # p.dst
    BY <1>2, RulesetAssumption
  <2>2. QED
    BY <1>3, <1>12, <2>1
<1>16. ForwardedTo(k, q)
  BY <1>1, <1>3, <1>13, <1>14 DEF ForwardedTo
<1>17. PacketOK(q)
  BY <1>1, TranslatedOK
<1>18. ChainOf(q) = "forward"
  <2>1. q.dst \in Hosts /\ q.dst \notin Own
    BY <1>2, <1>13, RulesetAssumption DEF Hosts
  <2>2. q.out # "self"
    BY <1>3, <2>1, SideIs
  <2>3. QED
    BY <1>3, <2>2 DEF ChainOf
<1>19. ~Evades(k, q)
  BY <1>3, <1>7 DEF Evades
<1>20. Filtered(k, q) \/ Flooding(q) \/ BlockedSource(k, q) \/ BlockedDestination(k, q) \/ ShutQuic(k, q)
  BY <1>15, <1>16, <1>17, <1>18, <1>19, ForwardJudges
<1>21. QED
  BY <1>1, <1>3, <1>13, <1>18, <1>20 DEF Flooding, BlockedSource, BlockedDestination, ShutQuic, IsQuic

\* A mapped host is reached at its outside address, and seen by it.
LEMMA MappingDelivers ==
  ASSUME NEW k \in Configs, NatIsClear(k), NEW p \in Packets, NEW i \in DOMAIN k.mappings, k.wan
  PROVE  LET m == k.mappings[i]
             q == Translated(k, p)
         IN /\ p.in = "wan" /\ p.dst = m.external => q.dst = m.internal /\ q.port = p.port
            /\ p.src = m.internal /\ q.out = "wan" => Source(k, q) = m.external
<1>1. PICK m, q, g : m = k.mappings[i] /\ q = Translated(k, p) /\ g = Goal(k, p)
  OBVIOUS
<1>2. q.src = p.src /\ q.dst = g.host /\ q.port = (IF g.port = NoPort THEN p.port ELSE g.port) /\ PacketOK(q)
  BY <1>1, TranslatedIs, TranslatedOK
<1>3. k.mappings # <<>>
  BY ConfigIs
<1>4. HasNat(k)
  BY <1>3 DEF HasNat
<1>5. ASSUME p.in = "wan", p.dst = m.external PROVE q.dst = m.internal /\ q.port = p.port
  <2>1. k.dns \subseteq {"lan", "vpn"}
    BY ConfigIs
  <2>2. ~Redirected(k, p) /\ Mapped(m, p)
    BY <1>5, <2>1 DEF Redirected, Mapped, Enforced
  <2>3. \E j \in DOMAIN k.mappings :
          Mapped(k.mappings[j], p) /\ g = [host |-> k.mappings[j].internal, port |-> NoPort]
    BY <1>1, <1>4, <1>5, <2>2, GoalSays
  <2>4. PICK j \in DOMAIN k.mappings :
          Mapped(k.mappings[j], p) /\ g = [host |-> k.mappings[j].internal, port |-> NoPort]
    BY <2>3
  <2>5. i = j
    BY <1>1, <2>2, <2>4 DEF NatIsClear, Mapped
  <2>6. g = [host |-> m.internal, port |-> NoPort]
    BY <1>1, <2>4, <2>5
  <2>7. QED
    BY <1>2, <2>6
<1>6. ASSUME p.src = m.internal, q.out = "wan" PROVE Source(k, q) = m.external
  <2>1. \/ \E j \in DOMAIN k.mappings : q.src = k.mappings[j].internal /\ Source(k, q) = k.mappings[j].external
        \/ \A j \in DOMAIN k.mappings : q.src # k.mappings[j].internal
    BY <1>2, <1>4, <1>6, SourceSays
  <2>2. PICK j \in DOMAIN k.mappings : q.src = k.mappings[j].internal /\ Source(k, q) = k.mappings[j].external
    BY <1>1, <1>2, <1>6, <2>1
  <2>3. i = j
    BY <1>1, <1>2, <1>6, <2>2 DEF NatIsClear
  <2>4. QED
    BY <1>1, <2>2, <2>3
<1>7. QED
  BY <1>1, <1>5, <1>6

LEMMA OpenedIsDelivered ==
  ASSUME NEW k \in Configs, NatIsClear(k), k.wan, NEW p \in Packets
  PROVE  /\ \A i \in DOMAIN k.forwards : IsForwarded(k, Opened(k, p), k.forwards[i])
         /\ \A i \in DOMAIN k.mappings : IsMapped(Opened(k, p), k.mappings[i])
<1>1. PICK q, r : q = Translated(k, p) /\ r = Opened(k, p)
  OBVIOUS
<1>2. r.first = p /\ r.at = q /\ r.open = Filtered(k, q) /\ r.from = Source(k, q)
  BY <1>1, OpenedIs
<1>3. \A i \in DOMAIN k.forwards : IsForwarded(k, r, k.forwards[i])
  <2>1. TAKE i \in DOMAIN k.forwards
  <2>2. PICK f : f = k.forwards[i]
    OBVIOUS
  <2>3. SUFFICES ASSUME p.in = "wan", p.dst \in Own, \A j \in DOMAIN k.mappings : k.mappings[j].external # p.dst,
                        p.protocol \in f.protocols, p.port \in f.first..f.last
                 PROVE  /\ q.dst = f.host /\ q.port = (p.port - f.first) + f.internal
                        /\ \/ Filtered(k, q) \/ p.flood
                           \/ k.inbound /\ p.src \in Country(k)
                           \/ k.outbound /\ q.dst \in Country(k)
                           \/ QuicIsShut(k) /\ IsQuic(q)
    BY <1>2, <2>2 DEF IsForwarded
  <2>4. QED
    BY <1>1, <2>2, <2>3, ForwardDelivers DEF BlockedSource
<1>4. \A i \in DOMAIN k.mappings : IsMapped(r, k.mappings[i])
  <2>1. TAKE i \in DOMAIN k.mappings
  <2>2. /\ p.in = "wan" /\ p.dst = k.mappings[i].external => q.dst = k.mappings[i].internal /\ q.port = p.port
        /\ p.src = k.mappings[i].internal /\ q.out = "wan" => Source(k, q) = k.mappings[i].external
    BY <1>1, MappingDelivers
  <2>3. QED
    BY <1>2, <2>2 DEF IsMapped
<1>5. QED
  BY <1>1, <1>3, <1>4

\* NAT and filter agree: a port forward leads to its host and port, past any rule, unless it
\* leads to QUIC and that is shut; a mapped host is reached at its outside address and seen by
\* it.  For configurations in which no port is forwarded twice and no address mapped twice.
THEOREM NatDeliversHolds ==
  ASSUME \A k \in Configs : NatIsClear(k)
  PROVE  RulesetSpec => NatDelivers
<1>1. RulesetInv /\ [RulesetNext]_rulesetVars =>
        \A c \in Connections : Opens(c) /\ kernel.wan =>
          /\ \A i \in DOMAIN kernel.forwards : IsForwarded(kernel, conns'[c], kernel.forwards[i])
          /\ \A i \in DOMAIN kernel.mappings : IsMapped(conns'[c], kernel.mappings[i])
  <2>1. SUFFICES ASSUME RulesetInv, [RulesetNext]_rulesetVars, NEW c \in Connections, Opens(c), kernel.wan
                 PROVE  /\ \A i \in DOMAIN kernel.forwards : IsForwarded(kernel, conns'[c], kernel.forwards[i])
                        /\ \A i \in DOMAIN kernel.mappings : IsMapped(conns'[c], kernel.mappings[i])
    OBVIOUS
  <2>2. PICK x \in Packets : conns'[c] = Opened(kernel, x) /\ kernel \in Configs
    BY <2>1, OpenStep
  <2>3. NatIsClear(kernel)
    BY <2>2
  <2>4. QED
    BY <2>1, <2>2, <2>3, OpenedIsDelivered
<1>2. QED
  BY <1>1, RulesetInvHolds, PTL DEF RulesetSpec, NatDelivers
=============================================================================
