------------------------ MODULE WireguardCommitProofs ------------------------
(***************************************************************************)
(* Proofs about WireguardCommit, for any interfaces, addresses, networks   *)
(* and bounds.                                                             *)
(***************************************************************************)
EXTENDS WireguardCommit, TLAPS

\* The same interface with the same address: what apply_state can sync.
Same == target # Off /\ live # Off /\ target.iface = live.iface /\ target.addr = live.addr
Syncing == {"sync", "reroute", "unroute"}

\* What an operation can be at, and where it came from.
PlaceInv ==
  /\ at = "old" => live \in Tunnels /\ (target # Off => target.iface # live.iface)
  /\ at \in Commands \ {"old"} => target \in Tunnels
  /\ at \in Syncing => Same
  /\ at \in {"check", "backup", "save", "table", "resave"} => ~back
  /\ at \in {"backup", "save"} => op = "commit"
  /\ at \in {"table", "resave"} => op = "rollback"
  /\ at # "idle" /\ op = "boot" =>
       /\ target = current /\ target \in Tunnels /\ live = Off /\ ~back
       /\ at \in {"plan", "new", "cleanup", "applied"} \union Building
  /\ at # "idle" /\ op # "boot" => (IF back THEN target ELSE live) = Snapshot(current)

\* What is told and remembered of it.
HistoryInv ==
  /\ at # "idle" => outcome = "none"
  /\ at # "idle" /\ synced => Serves(before, Snapshot(current))
  /\ at = "save" => previous = Snapshot(current)
  /\ alone /\ (at # "idle" \/ outcome # "none") => orphan = NoCmd

\* How far the interface of the target is, step by step of bring_up and of the sync.
Keyed(link) == link.keyed /\ link.peers = target.nets
LinkInv ==
  LET link == kernel[target.iface]
  IN /\ at \in {"conf", "address", "up", "route"} => link # NoIface
     /\ at \in {"address", "up", "route", "reroute", "unroute"} => Keyed(link)
     /\ at \in {"up", "route"} => link.addr = target.addr
     /\ at = "route" => link.up
     /\ at \in {"route", "reroute"} => target.nets \ pending \subseteq link.routes
     /\ at = "unroute" => target.nets \subseteq link.routes /\ pending \intersect target.nets = {}
     /\ at = "applied" /\ op = "boot" => Matches(link, target)

\* Beside the interfaces of the two configurations there is no other.
Only(S) == \A i \in Ifaces \ S : kernel[i] = NoIface
Of(config) == IF config = Off THEN {} ELSE {config.iface}
InForce(link) == link # NoIface /\ link.addr = target.addr /\ link.up /\ link.keyed
SyncedInv ==
  /\ at \in {"check", "plan"} /\ ~back /\ op # "boot" => Serves(kernel, live)
  /\ at \in {"plan", "old"} => Only(Of(target) \union Of(live))
  /\ at = "plan" /\ Same => kernel[target.iface] = NoIface \/ InForce(kernel[target.iface])
  /\ at = "add" => Only({})
  /\ at \in Commands \ {"old", "add"} => Only({target.iface})
  /\ at \in Syncing => InForce(kernel[target.iface])
  /\ at \in {"old", "new", "cleanup"} \union Building /\ ~back => ~Same
  /\ at \in {"applied", "backup", "save", "table", "resave"} => Serves(kernel, target)

IInv ==
  /\ TypeOK /\ PlaceInv /\ HistoryInv
  /\ at # "idle" /\ alone => LinkInv /\ (synced => SyncedInv)
  /\ SuccessIsLive /\ FailureRestores /\ UndoReachesLive

LEMMA Values ==
  /\ NoIface \notin Links /\ Off \notin Tunnels /\ Absent # Torn /\ Absent \notin Configs /\ Torn \notin Configs
  /\ NoCmd \notin Cmds /\ MaxEdits \in Nat /\ MaxMishaps \in Nat
BY WireguardAssumption

LEMMA TunnelFields ==
  ASSUME NEW config \in Tunnels
  PROVE  config.iface \in Ifaces /\ config.addr \in Addrs /\ config.nets \subseteq Nets /\ config # Off
BY Values DEF Tunnels

\* Before an operation has returned, the properties of its end say nothing.
LEMMA NotDone ==
  /\ at # "idle" => SuccessIsLive /\ FailureRestores /\ UndoReachesLive
  /\ at' # "idle" => SuccessIsLive' /\ FailureRestores' /\ UndoReachesLive'
<1>1. at # "idle" => SuccessIsLive /\ FailureRestores /\ UndoReachesLive
  BY DEF SuccessIsLive, FailureRestores, UndoReachesLive, Done
<1>2. at' # "idle" => SuccessIsLive' /\ FailureRestores' /\ UndoReachesLive'
  BY DEF SuccessIsLive, FailureRestores, UndoReachesLive, Done
<1>3. QED
  BY <1>1, <1>2

\* Steps that change the database only.
LEMMA Elsewhere ==
  ASSUME IInv, TypeOK', UNCHANGED <<kernel, disk, place, locals, outcome, orphan, history>>
  PROVE  IInv'
<1>0. UNCHANGED <<kernel, current, previous, op, at, back, target, live, pending, outcome, orphan, before, synced, alone>>
  BY DEF disk, place, locals, history
<1>1. PlaceInv'
  BY <1>0 DEF IInv, PlaceInv, Same, Snapshot
<1>2. HistoryInv'
  BY <1>0 DEF IInv, HistoryInv, Snapshot, Serves, Matches
<1>3. at # "idle" /\ alone => LinkInv'
  BY <1>0 DEF IInv, LinkInv, Keyed, Matches
<1>4. at # "idle" /\ alone /\ synced => SyncedInv'
  BY <1>0 DEF IInv, SyncedInv, Same, Serves, Matches, Only, Of, InForce
<1>5. SuccessIsLive' /\ FailureRestores' /\ UndoReachesLive'
  BY <1>0 DEF IInv, SuccessIsLive, FailureRestores, UndoReachesLive, Done, Snapshot, Serves, Matches
<1>6. QED
  BY <1>0, <1>1, <1>2, <1>3, <1>4, <1>5 DEF IInv

\* What a command does to the interface it is for, and that the others stay or stay away.
LEMMA Effect ==
  ASSUME TypeOK, NEW c \in Cmds, Possible(c), Does(c)
  PROVE  /\ kernel' \in Kernels
         /\ \A i \in Ifaces : i # c.dev => (kernel'[i] = NoIface <=> kernel[i] = NoIface)
         /\ LET old == kernel[c.dev]
                link == kernel'[c.dev]
            IN /\ c.do = "delete" => link = NoIface
               /\ c.do # "delete" => link # NoIface
               /\ c.do \in {"conf", "address", "up", "route", "unroute"} => old # NoIface
               /\ c.do = "conf" => link.addr = old.addr /\ link.up = old.up /\ link.routes = old.routes
                                   /\ link.keyed /\ link.peers = c.arg
               /\ c.do = "address" => link.keyed = old.keyed /\ link.peers = old.peers /\ link.up = old.up
                                      /\ link.routes = old.routes /\ link.addr = c.arg
               /\ c.do = "up" => link.addr = old.addr /\ link.keyed = old.keyed /\ link.peers = old.peers
                                 /\ link.routes = old.routes /\ link.up
               /\ c.do \in {"route", "unroute"} => link.addr = old.addr /\ link.keyed = old.keyed
                                                   /\ link.peers = old.peers /\ link.up = old.up
               /\ c.do = "route" => link.routes = old.routes \union {c.arg}
               /\ c.do = "unroute" => link.routes = old.routes \ {c.arg}
<1>1. c.dev \in Ifaces /\ kernel \in [Ifaces -> Links \union {NoIface}] /\ kernel[c.dev] \in Links \union {NoIface}
  BY DEF TypeOK, Kernels, Cmds
<1>2. c.do \in {"delete", "add", "up", "conf", "address", "route", "unroute"}
  BY DEF Cmds
<1>3. CASE c.do = "delete"
  <2>1. kernel' = [kernel EXCEPT ![c.dev] = NoIface]
    BY <1>3 DEF Does
  <2>2. QED
    BY <1>1, <1>3, <2>1 DEF Kernels
<1>4. CASE c.do = "add"
  <2>1. kernel' = [kernel EXCEPT ![c.dev] = Bare] /\ Bare \in Links
    BY <1>4 DEF Does, Bare, Links
  <2>2. QED
    BY <1>1, <1>4, <2>1, Values DEF Kernels
<1>5. CASE c.do = "conf"
  <2>1. kernel[c.dev] \in Links /\ c.arg \in SUBSET Nets
    BY <1>1, <1>5 DEF Possible, Cmds
  <2>2. PICK link : link = [kernel[c.dev] EXCEPT !.keyed = TRUE, !.peers = c.arg]
    OBVIOUS
  <2>3. kernel' = [kernel EXCEPT ![c.dev] = link] /\ link \in Links
    BY <1>5, <2>1, <2>2 DEF Does, Links
  <2>4. QED
    BY <1>1, <1>5, <2>1, <2>2, <2>3, Values DEF Kernels, Links
<1>6. CASE c.do = "address"
  <2>1. kernel[c.dev] \in Links /\ c.arg \in Addrs
    BY <1>1, <1>6 DEF Possible, Cmds
  <2>2. PICK link : link = [kernel[c.dev] EXCEPT !.addr = c.arg]
    OBVIOUS
  <2>3. kernel' = [kernel EXCEPT ![c.dev] = link] /\ link \in Links
    BY <1>6, <2>1, <2>2 DEF Does, Links
  <2>4. QED
    BY <1>1, <1>6, <2>1, <2>2, <2>3, Values DEF Kernels, Links
<1>7. CASE c.do = "up"
  <2>1. kernel[c.dev] \in Links
    BY <1>1, <1>7 DEF Possible
  <2>2. PICK link : link = [kernel[c.dev] EXCEPT !.up = TRUE]
    OBVIOUS
  <2>3. kernel' = [kernel EXCEPT ![c.dev] = link] /\ link \in Links
    BY <1>7, <2>1, <2>2 DEF Does, Links
  <2>4. QED
    BY <1>1, <1>7, <2>1, <2>2, <2>3, Values DEF Kernels, Links
<1>8. CASE c.do = "unroute"
  <2>1. kernel[c.dev] \in Links
    BY <1>1, <1>8 DEF Possible
  <2>2. PICK link : link = [kernel[c.dev] EXCEPT !.routes = @ \ {c.arg}]
    OBVIOUS
  <2>3. kernel' = [kernel EXCEPT ![c.dev] = link] /\ link \in Links
    BY <1>8, <2>1, <2>2 DEF Does, Links
  <2>4. QED
    BY <1>1, <1>8, <2>1, <2>2, <2>3, Values DEF Kernels, Links
<1>9. CASE c.do = "route"
  <2>1. kernel[c.dev] \in Links /\ c.arg \in Nets
    BY <1>1, <1>9 DEF Possible, Cmds
  <2>2. kernel' = [i \in Ifaces |->
                     IF kernel[i] = NoIface THEN NoIface
                     ELSE [kernel[i] EXCEPT !.routes = IF i = c.dev THEN @ \union {c.arg} ELSE @ \ {c.arg}]]
    BY <1>9 DEF Does
  <2>3. ASSUME NEW i \in Ifaces
        PROVE  kernel'[i] \in Links \union {NoIface} /\ (kernel'[i] = NoIface <=> kernel[i] = NoIface)
    <3>1. kernel[i] \in Links => [kernel[i] EXCEPT !.routes = IF i = c.dev THEN @ \union {c.arg} ELSE @ \ {c.arg}] \in Links
      BY <2>1 DEF Links
    <3>2. QED
      BY <1>1, <2>2, <3>1, Values
  <2>4. kernel'[c.dev] = [kernel[c.dev] EXCEPT !.routes = @ \union {c.arg}]
    BY <1>1, <2>1, <2>2, Values
  <2>5. kernel' \in Kernels
    BY <2>2, <2>3 DEF Kernels
  <2>6. QED
    BY <1>1, <1>9, <2>1, <2>3, <2>4, <2>5, Values DEF Links
<1>10. QED
  BY <1>2, <1>3, <1>4, <1>5, <1>6, <1>7, <1>8, <1>9

\* Which command runs at which point.
LEMMA CommandAt ==
  ASSUME TypeOK, PlaceInv, NEW c \in Running
  PROVE  /\ at \in Commands /\ c \in Cmds
         /\ at = "old" => c.do = "delete" /\ c.dev = live.iface
         /\ at # "old" => c.dev = target.iface
         /\ at \in {"new", "cleanup"} => c.do = "delete"
         /\ at \in {"add", "up", "address"} => c.do = at
         /\ at \in {"conf", "sync"} => c.do = "conf" /\ c.arg = target.nets
         /\ at = "address" => c.arg = target.addr
         /\ at \in {"route", "reroute"} => c.do = "route" /\ c.arg \in pending
         /\ at = "unroute" => c.do = "unroute" /\ c.arg \in pending
<1>1. at \in Commands
  BY DEF Running
<1>2. PICK net \in IF at \in Routing THEN pending ELSE {0} : c = Cmd(net)
  BY DEF Running
<1>3. (at = "old" => live \in Tunnels) /\ (at # "old" => target \in Tunnels) /\ pending \subseteq Nets
  BY <1>1 DEF PlaceInv, TypeOK
<1>4. /\ at = "old" => live.iface \in Ifaces
      /\ at # "old" => target.iface \in Ifaces /\ target.addr \in Addrs /\ target.nets \subseteq Nets
  BY <1>3, TunnelFields
<1>5. CASE at \in Routing
  <2>1. c = [do |-> IF at = "unroute" THEN "unroute" ELSE "route", dev |-> target.iface, arg |-> net]
    BY <1>2, <1>5 DEF Cmd, Routing
  <2>2. net \in pending /\ target.iface \in Ifaces /\ net \in Nets
    BY <1>2, <1>3, <1>4, <1>5 DEF Routing
  <2>3. c \in Cmds
    BY <2>1, <2>2 DEF Cmds
  <2>4. QED
    BY <1>1, <1>5, <2>1, <2>2, <2>3 DEF Routing
<1>6. CASE at \in {"old", "new", "cleanup"}
  <2>1. c = [do |-> "delete", dev |-> IF at = "old" THEN live.iface ELSE target.iface, arg |-> 0]
    BY <1>2, <1>6 DEF Cmd
  <2>2. c \in Cmds
    BY <1>4, <1>6, <2>1 DEF Cmds
  <2>3. QED
    BY <1>1, <1>6, <2>1, <2>2
<1>7. CASE at \in {"add", "conf", "address", "up", "sync"}
  <2>1. /\ at \in {"add", "up"} => c = [do |-> at, dev |-> target.iface, arg |-> 0]
        /\ at \in {"conf", "sync"} => c = [do |-> "conf", dev |-> target.iface, arg |-> target.nets]
        /\ at = "address" => c = [do |-> "address", dev |-> target.iface, arg |-> target.addr]
    BY <1>2, <1>7 DEF Cmd
  <2>2. c \in Cmds
    BY <1>4, <1>7, <2>1 DEF Cmds
  <2>3. QED
    BY <1>1, <1>7, <2>1, <2>2
<1>8. QED
  BY <1>1, <1>5, <1>6, <1>7 DEF Commands, Building, Routing

\* A target that has its interface, complete, and no other, is in force.
LEMMA Complete ==
  ASSUME target \in Tunnels, Only({target.iface}), InForce(kernel[target.iface]), Keyed(kernel[target.iface]),
         target.nets \subseteq kernel[target.iface].routes
  PROVE  Matches(kernel[target.iface], target) /\ Serves(kernel, target)
BY Values DEF Only, InForce, Keyed, Matches, Serves

\* One lemma for each action: it keeps the inductive invariant.
LEMMA BeginKeeps ==
  ASSUME IInv, NEW o \in {"commit", "rollback"}, NEW new \in Configs, Begin(o, new)
  PROVE  IInv'
<1>1. Snapshot(current) \in Configs
  BY DEF IInv, TypeOK, Snapshot, Configs
<1>2. /\ at' = "check" /\ back' = FALSE /\ op' = o /\ target' = new /\ live' = Snapshot(current) /\ pending' = {}
      /\ before' = kernel /\ synced' = Serves(kernel, Snapshot(current)) /\ alone' = (orphan = NoCmd)
      /\ outcome' = "none" /\ UNCHANGED <<db, kernel, current, previous, orphan, edits, mishaps>>
  BY DEF Begin, disk, counts
<1>3. TypeOK'
  <2>1. synced' \in BOOLEAN /\ alone' \in BOOLEAN
    BY <1>2 DEF Serves
  <2>2. TypeOK
    BY DEF IInv
  <2>3. "check" \in Points /\ FALSE \in BOOLEAN /\ o \in {"commit", "rollback", "boot"} /\ {} \subseteq Nets
    BY DEF Points
  <2>4. QED
    BY <1>1, <1>2, <2>1, <2>2, <2>3 DEF TypeOK
<1>4. PlaceInv'
  BY <1>2 DEF PlaceInv, Commands, Building, Syncing, Snapshot
<1>5. HistoryInv'
  BY <1>2 DEF HistoryInv, Snapshot, Serves, Matches
<1>6. alone' => LinkInv'
  BY <1>2 DEF LinkInv
<1>7. synced' => SyncedInv'
  BY <1>2 DEF SyncedInv, Serves, Matches, Snapshot, Commands, Building, Syncing
<1>8. QED
  BY <1>2, <1>3, <1>4, <1>5, <1>6, <1>7, NotDone DEF IInv

LEMMA RefuseKeeps ==
  ASSUME IInv, Refuse
  PROVE  IInv'
<1>1. /\ at = "check" /\ at' = "idle" /\ back' = FALSE /\ outcome' = "unchanged"
      /\ target' = Off /\ live' = Off /\ pending' = {}
      /\ UNCHANGED <<op, db, kernel, current, previous, orphan, edits, mishaps, before, synced, alone>>
  BY DEF Refuse, Return, disk, counts, history
<1>2. TypeOK'
  <2>1. TypeOK /\ "idle" \in Points /\ Off \in Configs /\ FALSE \in BOOLEAN /\ {} \subseteq Nets
    BY DEF IInv, Points, Configs
  <2>2. QED
    BY <1>1, <2>1 DEF TypeOK
<1>3. PlaceInv'
  BY <1>1 DEF PlaceInv, Commands, Building, Syncing
<1>4. HistoryInv'
  BY <1>1 DEF IInv, HistoryInv
<1>5. SuccessIsLive' /\ UndoReachesLive'
  BY <1>1 DEF SuccessIsLive, UndoReachesLive, Done
<1>6. FailureRestores'
  <2>1. op # "boot" /\ live = Snapshot(current) /\ ~back
    BY <1>1 DEF IInv, PlaceInv, Building
  <2>2. alone /\ synced => Serves(kernel, live)
    BY <1>1, <2>1 DEF IInv, SyncedInv
  <2>3. QED
    BY <1>1, <2>1, <2>2 DEF FailureRestores, Serves, Matches, Snapshot
<1>7. QED
  BY <1>1, <1>2, <1>3, <1>4, <1>5, <1>6 DEF IInv

LEMMA CheckKeeps ==
  ASSUME IInv, Check
  PROVE  IInv'
<1>1. /\ at = "check" /\ at' = "plan"
      /\ UNCHANGED <<op, back, db, kernel, current, previous, target, live, pending, outcome, orphan, edits, mishaps, before, synced, alone>>
  BY DEF Check, Goto, disk, locals, counts, history
<1>2. TypeOK'
  BY <1>1 DEF IInv, TypeOK, Points
<1>3. ~back /\ op # "boot" /\ live = Snapshot(current)
  BY <1>1 DEF IInv, PlaceInv, Building
<1>4. PlaceInv'
  BY <1>1, <1>3 DEF PlaceInv, Commands, Building, Syncing, Snapshot
<1>5. HistoryInv'
  BY <1>1 DEF IInv, HistoryInv, Snapshot, Serves, Matches
<1>6. LinkInv'
  BY <1>1 DEF LinkInv
<1>7. ASSUME alone, synced PROVE SyncedInv'
  <2>1. Serves(kernel, live)
    BY <1>1, <1>3, <1>7 DEF IInv, SyncedInv
  <2>2. Only(Of(target) \union Of(live)) /\ (Same => InForce(kernel[target.iface]))
    <3>1. live # Off => live.iface \in Ifaces
      BY TunnelFields DEF IInv, TypeOK, Configs
    <3>2. QED
      BY <2>1, <3>1 DEF Serves, Matches, Only, Of, Same, InForce
  <2>3. QED
    BY <1>1, <2>1, <2>2 DEF SyncedInv, Serves, Matches, Only, Of, Same, InForce, Commands, Building, Syncing
<1>8. QED
  BY <1>1, <1>2, <1>4, <1>5, <1>6, <1>7, NotDone DEF IInv

\* What is not disabled is a tunnel.
LEMMA Kinds ==
  ASSUME TypeOK
  PROVE  /\ Snapshot(current) \in Configs
         /\ target # Off => target \in Tunnels /\ target.iface \in Ifaces /\ target.addr \in Addrs /\ target.nets \subseteq Nets
         /\ live # Off => live \in Tunnels /\ live.iface \in Ifaces /\ live.addr \in Addrs /\ live.nets \subseteq Nets
<1>1. Snapshot(current) \in Configs
  BY DEF TypeOK, Snapshot, Configs
<1>2. (target # Off => target \in Tunnels) /\ (live # Off => live \in Tunnels)
  BY DEF TypeOK, Configs
<1>3. QED
  BY <1>1, <1>2, TunnelFields

LEMMA PlanKeeps ==
  ASSUME IInv, Plan
  PROVE  IInv'
<1>1. /\ at = "plan"
      /\ \/ target = Off /\ live = Off /\ at' = "applied"
         \/ target = Off /\ live # Off /\ at' = "old"
         \/ target # Off /\ CanSync /\ at' = "sync"
         \/ target # Off /\ ~CanSync /\ live # Off /\ live.iface # target.iface /\ at' = "old"
         \/ target # Off /\ ~CanSync /\ (live = Off \/ live.iface = target.iface) /\ at' = "new"
  BY DEF Plan, Goto
<1>2. UNCHANGED <<op, back, db, kernel, current, previous, target, live, pending, outcome, orphan, edits, mishaps, before, synced, alone>>
  BY DEF Plan, Goto, disk, locals, counts, history
<1>3. /\ target # Off => target \in Tunnels /\ target.iface \in Ifaces
      /\ live # Off => live \in Tunnels /\ live.iface \in Ifaces
  BY Kinds DEF IInv
<1>4. op = "boot" => target \in Tunnels /\ target # Off /\ live = Off /\ at' = "new"
  BY <1>1, TunnelFields DEF IInv, PlaceInv, CanSync
<1>5. TypeOK'
  BY <1>1, <1>2 DEF IInv, TypeOK, Points, Commands, Building
<1>6. PlaceInv'
  BY <1>1, <1>2, <1>3, <1>4 DEF IInv, PlaceInv, Same, Syncing, CanSync, Commands, Building, Snapshot
<1>7. HistoryInv'
  BY <1>1, <1>2 DEF IInv, HistoryInv, Snapshot, Serves, Matches
<1>8. LinkInv'
  BY <1>1, <1>2, <1>4 DEF LinkInv
<1>9. ASSUME alone, synced PROVE SyncedInv'
  <2>1. /\ Only(Of(target) \union Of(live))
        /\ Same => kernel[target.iface] = NoIface \/ InForce(kernel[target.iface])
        /\ ~back /\ op # "boot" => Serves(kernel, live)
    BY <1>1, <1>9 DEF IInv, SyncedInv
  <2>2. (target = Off \/ live = Off \/ live.iface = target.iface) /\ target # Off => Only({target.iface}) \/ at' = "old"
    BY <1>1, <2>1 DEF Only, Of
  <2>3. at' = "sync" => InForce(kernel[target.iface])
    BY <1>1, <2>1 DEF CanSync, Same
  <2>4. at' \in {"old", "new"} /\ ~back => ~Same
    BY <1>1, <1>3, <1>4, <2>1 DEF CanSync, Same, Serves, Matches
  <2>5. at' = "applied" => Serves(kernel, target)
    BY <1>1, <2>1 DEF Only, Of, Serves
  <2>6. at' \in {"new", "sync"} => Only({target.iface})
    BY <1>1, <2>1 DEF Only, Of, CanSync
  <2>7. QED
    BY <1>1, <1>2, <2>1, <2>3, <2>4, <2>5, <2>6
       DEF SyncedInv, Only, Of, Same, InForce, Serves, Matches, Syncing, Commands, Building
<1>10. QED
  BY <1>1, <1>2, <1>5, <1>6, <1>7, <1>8, <1>9, NotDone DEF IInv

\* apply_state has failed: from here it goes back, or gives up.
LEMMA UndoKeeps ==
  ASSUME IInv, Undo, at \in {"old", "new", "cleanup"} \union Syncing,
         kernel' = kernel \/ (at = "cleanup" /\ kernel' = [kernel EXCEPT ![target.iface] = NoIface]),
         UNCHANGED <<db, disk, orphan, history>>, edits' \in 0..MaxEdits, mishaps' \in 0..MaxMishaps
  PROVE  IInv'
<1>1. UNCHANGED <<op, db, current, previous, orphan, before, synced, alone>> /\ pending' = {}
  BY DEF Undo, Return, disk, history
<1>2. \/ (back \/ op = "boot") /\ at' = "idle" /\ back' = FALSE /\ outcome' = "broken" /\ target' = Off /\ live' = Off
      \/ ~back /\ op # "boot" /\ at' = "plan" /\ back' = TRUE /\ outcome' = outcome /\ target' = live /\ live' = target
  BY DEF Undo, Return
<1>3. at # "idle" /\ (op # "boot" => (IF back THEN target ELSE live) = Snapshot(current)) /\ outcome = "none"
  BY DEF IInv, PlaceInv, HistoryInv, Syncing
<1>4. kernel' \in Kernels
  <2>1. kernel \in [Ifaces -> Links \union {NoIface}]
    BY DEF IInv, TypeOK, Kernels
  <2>2. QED
    BY <2>1 DEF Kernels
<1>5. TypeOK'
  <2>1. TypeOK /\ "idle" \in Points /\ "plan" \in Points /\ Off \in Configs /\ {} \subseteq Nets
    BY DEF IInv, Points, Configs
  <2>2. at' \in Points /\ back' \in BOOLEAN /\ target' \in Configs /\ live' \in Configs
        /\ outcome' \in {"none", "ok", "restored", "unchanged", "broken", "err"}
    BY <1>2, <2>1 DEF TypeOK
  <2>3. QED
    BY <1>1, <1>4, <2>1, <2>2 DEF TypeOK
<1>6. PlaceInv'
  BY <1>1, <1>2, <1>3 DEF PlaceInv, Commands, Building, Syncing, Snapshot
<1>7. HistoryInv'
  BY <1>1, <1>2, <1>3 DEF IInv, HistoryInv, Snapshot, Serves, Matches
<1>8. LinkInv' \/ at' = "idle"
  BY <1>2 DEF LinkInv
<1>9. ASSUME alone, synced, at' = "plan" PROVE SyncedInv'
  <2>1. Only(Of(target) \union Of(live))'
    <3>1. Only(Of(target) \union Of(live))
      <4>1. at = "old" => Only(Of(target) \union Of(live))
        BY <1>3, <1>9 DEF IInv, SyncedInv
      <4>2. at # "old" => Only({target.iface}) /\ target \in Tunnels
        BY <1>3, <1>9 DEF IInv, SyncedInv, PlaceInv, Syncing, Commands
      <4>3. QED
        BY <4>1, <4>2, TunnelFields DEF Only, Of
    <3>2. ASSUME NEW i \in Ifaces, kernel[i] = NoIface PROVE kernel'[i] = NoIface
      BY <3>2 DEF IInv, TypeOK, Kernels
    <3>3. QED
      BY <1>2, <1>9, <3>1, <3>2 DEF Only, Of
  <2>2. Same' => InForce(kernel[target.iface])'
    <3>1. Same' = Same /\ (Same => target'.iface = target.iface /\ target'.addr = target.addr)
      BY <1>2, <1>9 DEF Same
    <3>2. Same => at \in Syncing
      BY <1>2, <1>3, <1>9 DEF IInv, PlaceInv, SyncedInv, Same, Syncing
    <3>3. at \in Syncing => InForce(kernel[target.iface]) /\ kernel' = kernel
      BY <1>3, <1>9 DEF IInv, SyncedInv, Syncing
    <3>4. QED
      BY <3>1, <3>2, <3>3 DEF InForce
  <2>3. QED
    BY <1>2, <1>9, <2>1, <2>2 DEF SyncedInv, Syncing, Commands, Building
<1>10. SuccessIsLive' /\ FailureRestores' /\ UndoReachesLive'
  BY <1>2, NotDone DEF SuccessIsLive, FailureRestores, UndoReachesLive, Done
<1>11. QED
  BY <1>1, <1>2, <1>5, <1>6, <1>7, <1>8, <1>9, <1>10 DEF IInv

\* Where a command leads that has done what it is for.
LEMMA Forward ==
  ASSUME at \in Commands \ {"cleanup"}
  PROVE  /\ Following \in Commands \union {"applied"} /\ Following \notin {"old", "cleanup", "sync"}
         /\ at = "old" => Following = IF target = Off THEN "applied" ELSE "new"
         /\ at = "new" => Following = "add"
         /\ at = "add" => Following = "conf"
         /\ at = "conf" => Following = "address"
         /\ at = "address" => Following = "up"
         /\ at = "up" => Following = "route"
         /\ at = "sync" => Following = "reroute"
         /\ at = "reroute" => Following = "unroute"
         /\ at \in {"route", "unroute"} => Following = "applied"
         /\ Following = "route" <=> at = "up"
         /\ Following = "reroute" <=> at = "sync"
         /\ Following = "unroute" <=> at = "reroute"
BY DEF Following, Commands, Building

\* A step of apply_state that goes on keeps all that is not about the kernel.
Onward ==
  \/ Advance
  \/ at \in Routing /\ pending' \subseteq pending /\ UNCHANGED <<place, target, live, outcome>>
LEMMA OnwardKeeps ==
  ASSUME IInv, at \in Commands \ {"cleanup"}, Onward, kernel' \in Kernels,
         UNCHANGED <<db, disk, orphan, history>>, edits' \in 0..MaxEdits, mishaps' \in 0..MaxMishaps
  PROVE  /\ UNCHANGED <<op, back, db, current, previous, target, live, outcome, orphan, before, synced, alone>>
         /\ \/ at' = Following /\ pending' = PendingAt(Following)
            \/ at \in Routing /\ at' = at /\ pending' \subseteq pending
         /\ at' \in Commands \union {"applied"} /\ at' # "idle"
         /\ TypeOK' /\ PlaceInv' /\ HistoryInv'
<1>1. UNCHANGED <<op, back, db, current, previous, target, live, outcome, orphan, before, synced, alone>>
  BY DEF Onward, Advance, Goto, place, disk, history
<1>2. \/ at' = Following /\ pending' = PendingAt(Following)
      \/ at \in Routing /\ at' = at /\ pending' \subseteq pending
  BY DEF Onward, Advance, Goto, place
<1>3. at' \in Commands \union {"applied"} /\ at' # "idle" /\ at # "idle"
  BY <1>2, Forward DEF Commands, Building
<1>4. PlaceInv'
  <2>1. at = "old" => live \in Tunnels /\ (target # Off => target \in Tunnels)
    BY Kinds DEF IInv, PlaceInv
  <2>2. at # "old" => target \in Tunnels
    BY DEF IInv, PlaceInv
  <2>3. at' \in Syncing => Same
    BY <1>2, Forward DEF IInv, PlaceInv, Syncing, Routing
  <2>4. at' \in Commands => target \in Tunnels /\ at' # "old"
    BY <1>2, <2>1, <2>2, Forward DEF Routing, Commands, Building
  <2>5. op = "boot" => /\ target = current /\ target \in Tunnels /\ live = Off /\ ~back
                       /\ at \in {"new"} \union Building
    BY <1>3 DEF IInv, PlaceInv, Commands
  <2>6. op = "boot" => at' \in {"plan", "new", "cleanup", "applied"} \union Building
    BY <1>2, <2>5, Forward DEF Routing, Building
  <2>7. op # "boot" => (IF back THEN target ELSE live) = Snapshot(current)
    BY <1>3 DEF IInv, PlaceInv
  <2>8. at' \notin {"check", "backup", "save", "table", "resave", "old"}
    BY <1>3, <2>4 DEF Commands, Building
  <2>9. QED
    BY <1>1, <2>3, <2>4, <2>5, <2>6, <2>7, <2>8 DEF PlaceInv, Same, Snapshot
<1>5. TypeOK'
  <2>1. target # Off => target.nets \subseteq Nets
    BY Kinds DEF IInv
  <2>2. target = Off => Following = "applied"
    BY Values, Forward DEF IInv, PlaceInv
  <2>3. Following # "applied" => live.nets \ target.nets \subseteq Nets \/ Following # "unroute"
    BY Forward, Kinds DEF IInv, PlaceInv, Syncing, Same
  <2>4. PendingAt(Following) \subseteq Nets
    BY <2>1, <2>2, <2>3 DEF PendingAt
  <2>5. pending' \subseteq Nets
    BY <1>2, <2>4 DEF IInv, TypeOK
  <2>6. at' \in Points
    BY <1>3 DEF Points
  <2>7. QED
    BY <1>1, <2>5, <2>6 DEF IInv, TypeOK
<1>6. HistoryInv'
  BY <1>1, <1>3 DEF IInv, HistoryInv, Snapshot, Serves, Matches, Commands, Building
<1>7. QED
  BY <1>1, <1>2, <1>3, <1>4, <1>5, <1>6

\* An interface has gone, or was not there.
LEMMA Cleared ==
  ASSUME IInv, at \in {"old", "new"}, kernel' \in Kernels, at' = Following, alone, synced,
         UNCHANGED <<target, live, op, back>>,
         NEW dev, dev = IF at = "old" THEN live.iface ELSE target.iface,
         kernel'[dev] = NoIface,
         \A i \in Ifaces : i # dev => (kernel'[i] = NoIface <=> kernel[i] = NoIface)
  PROVE  SyncedInv'
<1>1. /\ at = "old" => Only(Of(target) \union Of(live)) /\ live # Off
      /\ at = "new" => Only({target.iface}) /\ target # Off
      /\ ~back => ~Same
  BY TunnelFields DEF IInv, PlaceInv, SyncedInv, Commands, Syncing
<1>2. CASE at = "old" /\ target = Off
  <2>1. at' = "applied"
    BY <1>2, Forward DEF Commands
  <2>2. Serves(kernel, target)'
    BY <1>1, <1>2 DEF Serves, Only, Of
  <2>3. QED
    BY <2>1, <2>2 DEF SyncedInv, Commands, Building, Syncing
<1>3. CASE at = "old" /\ target # Off
  <2>1. at' = "new"
    BY <1>3, Forward DEF Commands
  <2>2. Only({target.iface})'
    BY <1>1, <1>3 DEF Only, Of
  <2>3. ~back => ~Same'
    BY <1>1 DEF Same
  <2>4. QED
    BY <2>1, <2>2, <2>3 DEF SyncedInv, Commands, Building, Syncing
<1>4. CASE at = "new"
  <2>1. at' = "add"
    BY <1>4, Forward DEF Commands
  <2>2. Only({})'
    BY <1>1, <1>4 DEF Only
  <2>3. ~back => ~Same'
    BY <1>1 DEF Same
  <2>4. QED
    BY <2>1, <2>2, <2>3 DEF SyncedInv, Commands, Building, Syncing
<1>5. QED
  BY <1>2, <1>3, <1>4

LEMMA RunCommandKeeps ==
  ASSUME IInv, NEW c \in Running, RunCommand(c)
  PROVE  IInv'
<1>1. TypeOK /\ PlaceInv /\ Possible(c) /\ Does(c) /\ at # "cleanup"
  BY DEF IInv, RunCommand
<1>2. c \in Cmds /\ at \in Commands \ {"cleanup"}
  BY <1>1, CommandAt
<1>3. Onward /\ (at \in Routing => at' = at /\ pending' = pending \ {c.arg}) /\ (at \notin Routing => Advance)
  BY DEF RunCommand, Onward, place
<1>4. edits' \in 0..MaxEdits /\ mishaps' \in 0..MaxMishaps
  BY <1>1 DEF RunCommand, counts, TypeOK
<1>5. kernel' \in Kernels /\ \A i \in Ifaces : i # c.dev => (kernel'[i] = NoIface <=> kernel[i] = NoIface)
  BY <1>1, <1>2, Effect
<1>6. /\ UNCHANGED <<op, back, db, current, previous, target, live, outcome, orphan, before, synced, alone>>
      /\ at' \in Commands \union {"applied"} /\ at' # "idle"
      /\ TypeOK' /\ PlaceInv' /\ HistoryInv'
  BY <1>2, <1>3, <1>4, <1>5, OnwardKeeps DEF RunCommand
<1>7. at \notin Routing => at' = Following /\ pending' = PendingAt(Following)
  BY <1>3 DEF Advance, Goto
<1>8. at # "old" => target \in Tunnels /\ target.iface \in Ifaces /\ c.dev = target.iface
  BY <1>1, <1>2, CommandAt, TunnelFields DEF PlaceInv
<1>9. /\ at = "add" => at' = "conf" /\ kernel'[target.iface] # NoIface
      /\ at = "conf" => at' = "address" /\ kernel'[target.iface] # NoIface /\ Keyed(kernel[target.iface])'
      /\ at = "address" => /\ at' = "up" /\ kernel'[target.iface] # NoIface
                           /\ kernel'[target.iface].addr = target.addr
                           /\ Keyed(kernel[target.iface]) => Keyed(kernel[target.iface])'
      /\ at = "up" => /\ at' = "route" /\ kernel'[target.iface] # NoIface /\ kernel'[target.iface].up
                      /\ kernel'[target.iface].addr = kernel[target.iface].addr
                      /\ Keyed(kernel[target.iface]) => Keyed(kernel[target.iface])'
                      /\ pending' = target.nets
      /\ at = "sync" => /\ at' = "reroute" /\ kernel'[target.iface] # NoIface /\ Keyed(kernel[target.iface])'
                        /\ kernel'[target.iface].addr = kernel[target.iface].addr
                        /\ kernel'[target.iface].up = kernel[target.iface].up
                        /\ pending' = target.nets
      /\ at \in Routing => /\ at' = at /\ kernel'[target.iface] # NoIface
                           /\ kernel'[target.iface].addr = kernel[target.iface].addr
                           /\ kernel'[target.iface].up = kernel[target.iface].up
                           /\ kernel'[target.iface].keyed = kernel[target.iface].keyed
                           /\ Keyed(kernel[target.iface]) => Keyed(kernel[target.iface])'
                           /\ pending' = pending \ {c.arg} /\ c.arg \in pending
                           /\ kernel'[target.iface].routes =
                                IF at = "unroute" THEN kernel[target.iface].routes \ {c.arg}
                                ELSE kernel[target.iface].routes \union {c.arg}
  <2>1. CASE at = "add"
    BY <1>1, <1>2, <1>7, <1>8, <2>1, CommandAt, Effect, Forward DEF Routing
  <2>2. CASE at = "conf"
    BY <1>1, <1>2, <1>6, <1>7, <1>8, <2>2, CommandAt, Effect, Forward DEF Routing, Keyed
  <2>3. CASE at = "address"
    BY <1>1, <1>2, <1>6, <1>7, <1>8, <2>3, CommandAt, Effect, Forward DEF Routing, Keyed
  <2>4. CASE at = "up"
    BY <1>1, <1>2, <1>6, <1>7, <1>8, <2>4, CommandAt, Effect, Forward DEF Routing, Keyed, PendingAt
  <2>5. CASE at = "sync"
    BY <1>1, <1>2, <1>6, <1>7, <1>8, <2>5, CommandAt, Effect, Forward DEF Routing, Keyed, PendingAt
  <2>6. CASE at \in Routing
    <3>1. c.do = (IF at = "unroute" THEN "unroute" ELSE "route") /\ c.arg \in pending
      BY <1>1, <2>6, CommandAt DEF Routing
    <3>2. /\ kernel'[target.iface] # NoIface
          /\ kernel'[target.iface].addr = kernel[target.iface].addr
          /\ kernel'[target.iface].up = kernel[target.iface].up
          /\ kernel'[target.iface].keyed = kernel[target.iface].keyed
          /\ kernel'[target.iface].peers = kernel[target.iface].peers
          /\ kernel'[target.iface].routes =
               IF at = "unroute" THEN kernel[target.iface].routes \ {c.arg}
               ELSE kernel[target.iface].routes \union {c.arg}
      BY <1>1, <1>2, <1>8, <2>6, <3>1, Effect DEF Routing
    <3>3. QED
      BY <1>3, <1>6, <2>6, <3>1, <3>2 DEF Routing, Keyed
  <2>7. QED
    BY <2>1, <2>2, <2>3, <2>4, <2>5, <2>6 DEF Routing
<1>10. at \in {"old", "new"} => at' \in {"new", "add", "applied"} /\ op' = op /\ (op = "boot" => at = "new")
  BY <1>1, <1>6, <1>7, Forward DEF Routing, Commands, PlaceInv, Building
<1>11. ASSUME alone PROVE LinkInv'
  <2>1. LinkInv
    BY <1>2, <1>11 DEF IInv, Commands, Building
  <2>2. CASE at \in {"old", "new"}
    BY <1>7, <1>10, <2>2, Forward DEF LinkInv, Routing, Commands
  <2>3. CASE at \in {"add", "conf", "address", "up", "sync"}
    BY <1>6, <1>9, <2>1, <2>3 DEF LinkInv
  <2>4. CASE at \in Routing
    BY <1>6, <1>9, <2>1, <2>4 DEF LinkInv, Routing
  <2>5. QED
    BY <1>2, <2>2, <2>3, <2>4 DEF Commands, Building, Routing
<1>12. ASSUME alone, synced PROVE SyncedInv'
  <2>1. SyncedInv
    BY <1>2, <1>12 DEF IInv, Commands, Building
  <2>2. CASE at \in {"old", "new"}
    <3>1. c.dev = (IF at = "old" THEN live.iface ELSE target.iface) /\ kernel'[c.dev] = NoIface
      BY <1>1, <1>2, <2>2, CommandAt, Effect
    <3>2. QED
      BY <1>5, <1>6, <1>7, <1>12, <2>2, <3>1, Cleared DEF Routing
  <2>3. CASE at \notin {"old", "new"}
    <3>1. Only({target.iface})
      BY <1>2, <2>1, <2>3 DEF SyncedInv, Only
    <3>2. Only({target.iface})'
      BY <1>5, <1>6, <1>8, <2>3, <3>1 DEF Only
    <3>3. at' \in Commands \ {"old", "add", "new", "cleanup"} /\ (at' \in Building <=> at \in Building)
          /\ (at' \in Syncing <=> at \in Syncing)
      BY <1>2, <1>9, <2>3 DEF Commands, Building, Routing, Syncing
    <3>4. at \in Syncing => InForce(kernel[target.iface])'
      BY <1>6, <1>9, <2>1 DEF SyncedInv, InForce, Syncing, Routing, Keyed
    <3>5. at \in Building /\ ~back => ~Same'
      BY <1>6, <2>1 DEF SyncedInv, Same
    <3>6. QED
      BY <1>6, <3>2, <3>3, <3>4, <3>5 DEF SyncedInv, Commands, Building, Syncing
  <2>4. QED
    BY <2>2, <2>3
<1>13. QED
  BY <1>6, <1>11, <1>12, NotDone DEF IInv

\* When no command is left to run, there is nothing to remove, or no route is pending.
LEMMA NothingRuns ==
  ASSUME at \in Commands, Running = {}
  PROVE  /\ at = "old" => kernel[live.iface] = NoIface
         /\ at = "new" => kernel[target.iface] = NoIface
         /\ at \in Routing => pending = {}
<1>1. \A net \in IF at \in Routing THEN pending ELSE {0} :
        ~(Cmd(net).do = "delete" => kernel[Cmd(net).dev] # NoIface)
  BY DEF Running
<1>2. CASE at \in {"old", "new"}
  <2>1. Cmd(0) = [do |-> "delete", dev |-> IF at = "old" THEN live.iface ELSE target.iface, arg |-> 0]
    BY <1>2 DEF Cmd
  <2>2. kernel[Cmd(0).dev] = NoIface
    BY <1>1, <1>2 DEF Routing
  <2>3. QED
    BY <1>2, <2>1, <2>2 DEF Routing
<1>3. CASE at \in Routing
  <2>1. ASSUME NEW net PROVE Cmd(net).do # "delete"
    BY <1>3 DEF Cmd, Routing
  <2>2. QED
    BY <1>1, <1>3, <2>1 DEF Routing
<1>4. QED
  BY <1>2, <1>3

LEMMA SkipKeeps ==
  ASSUME IInv, Skip
  PROVE  IInv'
<1>1. at \in {"old", "new"} \union Routing /\ at \in Commands \ {"cleanup"} /\ Running = {} /\ Advance /\ Onward /\ kernel' = kernel
  BY DEF Skip, Onward, Commands, Building, Routing
<1>2. kernel' \in Kernels /\ edits' \in 0..MaxEdits /\ mishaps' \in 0..MaxMishaps
  BY DEF IInv, TypeOK, Skip, counts
<1>3. /\ UNCHANGED <<op, back, db, current, previous, target, live, outcome, orphan, before, synced, alone>>
      /\ at' # "idle" /\ TypeOK' /\ PlaceInv' /\ HistoryInv'
  BY <1>1, <1>2, OnwardKeeps DEF Skip
<1>4. at' = Following /\ pending' = PendingAt(Following)
  BY <1>1 DEF Advance, Goto
<1>5. /\ at = "old" => kernel[live.iface] = NoIface
      /\ at = "new" => kernel[target.iface] = NoIface
      /\ at \in Routing => pending = {} /\ target \in Tunnels
  BY <1>1, NothingRuns DEF IInv, PlaceInv, Routing
<1>6. at \in Routing => /\ target.iface \in Ifaces
                        /\ at = "reroute" => at' = "unroute" /\ pending' = live.nets \ target.nets
                        /\ at # "reroute" => at' = "applied"
  BY <1>1, <1>4, <1>5, TunnelFields, Forward DEF Routing, PendingAt
<1>7. at \in {"old", "new"} => at' \in {"new", "add", "applied"} /\ (op = "boot" => at = "new")
  BY <1>1, <1>4, Forward DEF IInv, PlaceInv, Building
<1>8. ASSUME alone, at \in Routing
      PROVE  /\ Keyed(kernel[target.iface]) /\ target.nets \subseteq kernel[target.iface].routes
             /\ at = "route" => InForce(kernel[target.iface])
  BY <1>5, <1>8 DEF IInv, LinkInv, Routing, InForce, Keyed
<1>9. ASSUME alone PROVE LinkInv'
  <2>1. CASE at \in {"old", "new"}
    BY <1>1, <1>3, <1>4, <1>7, <2>1, Forward DEF LinkInv
  <2>2. CASE at = "reroute"
    <3>1. Keyed(kernel[target.iface])' /\ target'.nets \subseteq kernel'[target'.iface].routes
      BY <1>1, <1>3, <1>8, <1>9, <2>2 DEF Keyed, Routing
    <3>2. pending' \intersect target'.nets = {}
      BY <1>3, <1>6, <2>2 DEF Routing
    <3>3. QED
      BY <1>6, <2>2, <3>1, <3>2 DEF LinkInv, Routing
  <2>3. CASE at \in {"route", "unroute"}
    <3>1. op = "boot" => at = "route"
      BY <2>3 DEF IInv, PlaceInv, Building
    <3>2. at = "route" => Matches(kernel[target.iface], target)
      BY <1>8, <1>9, <2>3 DEF Routing, InForce, Keyed, Matches
    <3>3. QED
      BY <1>1, <1>3, <1>6, <2>3, <3>1, <3>2 DEF LinkInv, Routing, Matches
  <2>4. QED
    BY <1>1, <2>1, <2>2, <2>3 DEF Routing
<1>10. ASSUME alone, synced PROVE SyncedInv'
  <2>1. CASE at \in {"old", "new"}
    <3> DEFINE dev == IF at = "old" THEN live.iface ELSE target.iface
    <3>1. kernel'[dev] = NoIface
      BY <1>1, <1>5, <2>1
    <3>2. QED
      BY <1>1, <1>2, <1>3, <1>4, <1>10, <2>1, <3>1, Cleared
  <2>2. CASE at \in Routing
    <3>1. Only({target.iface}) /\ InForce(kernel[target.iface])
      BY <1>8, <1>10, <2>2 DEF IInv, SyncedInv, Routing, Commands, Building, Syncing
    <3>2. CASE at = "reroute"
      BY <1>1, <1>3, <1>6, <2>2, <3>1, <3>2 DEF SyncedInv, Only, InForce, Commands, Building, Syncing
    <3>3. CASE at # "reroute"
      <4>1. Serves(kernel, target)
        BY <1>5, <1>8, <1>10, <2>2, <3>1, Complete
      <4>2. Serves(kernel, target)'
        BY <1>1, <1>3, <4>1 DEF Serves, Matches
      <4>3. QED
        BY <1>6, <2>2, <3>3, <4>2 DEF SyncedInv, Commands, Building, Syncing
    <3>4. QED
      BY <3>2, <3>3
  <2>3. QED
    BY <1>1, <2>1, <2>2
<1>11. QED
  BY <1>3, <1>9, <1>10, NotDone DEF IInv

LEMMA CommandFailsKeeps ==
  ASSUME IInv, NEW c \in Running, CommandFails(c)
  PROVE  IInv'
<1>1. /\ at \in Commands \ {"cleanup"}
      /\ UNCHANGED <<db, kernel, disk, orphan, history>>
      /\ at \in Building => Goto("cleanup") /\ pending' = {} /\ UNCHANGED <<target, live, outcome>>
      /\ at = "unroute" => pending' = pending \ {c.arg} /\ UNCHANGED <<place, target, live, outcome>>
      /\ at \notin Building \union {"unroute"} => Undo
  <2>1. at \in Commands /\ at # "cleanup"
    BY CommandAt DEF IInv, CommandFails
  <2>2. CASE at \in Building
    BY <2>1, <2>2, Zenon DEF CommandFails, Building
  <2>3. CASE at = "unroute"
    <3>1. at \notin Building
      BY <2>3 DEF Building
    <3>2. QED
      BY <2>1, <2>3, <3>1, Zenon DEF CommandFails
  <2>4. CASE at \notin Building \union {"unroute"}
    BY <2>1, <2>4, Zenon DEF CommandFails
  <2>5. QED
    BY <2>1, <2>2, <2>3, <2>4
<1>2. edits' \in 0..MaxEdits /\ mishaps' \in 0..MaxMishaps
  BY Values DEF IInv, TypeOK, CommandFails, Mishap, counts
<1>3. CASE at \in Building
  <2>1. /\ at' = "cleanup" /\ pending' = {}
        /\ UNCHANGED <<op, back, db, kernel, current, previous, target, live, outcome, orphan, before, synced, alone>>
    BY <1>1, <1>3 DEF Goto, disk, history
  <2>2. TypeOK'
    BY <1>2, <2>1 DEF IInv, TypeOK, Points, Commands
  <2>3. PlaceInv'
    BY <1>1, <1>3, <2>1 DEF IInv, PlaceInv, Same, Syncing, Commands, Building, Snapshot
  <2>4. HistoryInv'
    BY <1>3, <2>1 DEF IInv, HistoryInv, Snapshot, Serves, Matches, Building
  <2>5. LinkInv'
    BY <2>1 DEF LinkInv
  <2>6. ASSUME alone, synced PROVE SyncedInv'
    <3>1. Only({target.iface}) /\ (~back => ~Same)
      BY <1>3, <2>6 DEF IInv, SyncedInv, Only, Building, Commands
    <3>2. QED
      BY <2>1, <3>1 DEF SyncedInv, Only, Same, Commands, Building, Syncing
  <2>7. QED
    BY <2>1, <2>2, <2>3, <2>4, <2>5, <2>6, NotDone DEF IInv
<1>4. CASE at = "unroute"
  <2>1. /\ at' = at /\ pending' = pending \ {c.arg}
        /\ UNCHANGED <<op, back, db, kernel, current, previous, target, live, outcome, orphan, before, synced, alone>>
    BY <1>1, <1>4 DEF place, disk, history
  <2>2. TypeOK'
    BY <1>2, <2>1 DEF IInv, TypeOK
  <2>3. PlaceInv'
    BY <2>1 DEF IInv, PlaceInv, Same, Snapshot
  <2>4. HistoryInv'
    BY <2>1 DEF IInv, HistoryInv, Snapshot, Serves, Matches
  <2>5. alone => LinkInv'
    BY <1>4, <2>1 DEF IInv, LinkInv, Keyed, Matches
  <2>6. alone /\ synced => SyncedInv'
    BY <1>4, <2>1 DEF IInv, SyncedInv, Same, Serves, Matches, Only, Of, InForce
  <2>7. QED
    BY <1>4, <2>1, <2>2, <2>3, <2>4, <2>5, <2>6, NotDone DEF IInv
<1>5. CASE at \notin Building \union {"unroute"}
  <2>1. at \in {"old", "new", "cleanup"} \union Syncing
    BY <1>1, <1>5 DEF Commands, Syncing
  <2>2. Undo /\ kernel' = kernel /\ UNCHANGED <<db, disk, orphan, history>>
    BY <1>1, <1>5
  <2>3. QED
    BY <1>2, <2>1, <2>2, UndoKeeps
<1>6. QED
  BY <1>3, <1>4, <1>5

LEMMA CleanupKeeps ==
  ASSUME IInv, Cleanup
  PROVE  IInv'
<1>1. edits' \in 0..MaxEdits /\ mishaps' \in 0..MaxMishaps
  BY Values DEF IInv, TypeOK, Cleanup, Mishap, counts
<1>2. /\ at \in {"old", "new", "cleanup"} \union Syncing /\ Undo /\ UNCHANGED <<db, disk, orphan, history>>
      /\ kernel' = kernel \/ (at = "cleanup" /\ kernel' = [kernel EXCEPT ![target.iface] = NoIface])
  BY DEF Cleanup
<1>3. QED
  BY <1>1, <1>2, UndoKeeps

\* An operation returns: what is left of the invariant is what its result promises.
LEMMA ReturnKeeps ==
  ASSUME IInv, NEW result \in {"none", "ok", "restored", "unchanged", "broken", "err"}, Return(result),
         UNCHANGED <<before, synced, alone>>, alone' /\ result # "none" => orphan' = NoCmd,
         db' \in Configs, kernel' \in Kernels, current' \in Configs \union {Absent},
         previous' \in Configs \union {Absent, Torn}, orphan' \in Cmds \union {NoCmd},
         edits' \in 0..MaxEdits, mishaps' \in 0..MaxMishaps,
         SuccessIsLive', FailureRestores', UndoReachesLive'
  PROVE  IInv'
<1>1. at' = "idle" /\ back' = FALSE /\ op' = op /\ outcome' = result /\ target' = Off /\ live' = Off /\ pending' = {}
  BY DEF Return
<1>2. TypeOK /\ "idle" \in Points /\ Off \in Configs /\ FALSE \in BOOLEAN /\ {} \subseteq Nets
  BY DEF IInv, Points, Configs
<1>3. TypeOK'
  BY <1>1, <1>2 DEF TypeOK
<1>4. PlaceInv'
  BY <1>1 DEF PlaceInv, Commands, Building, Syncing
<1>5. HistoryInv'
  BY <1>1 DEF HistoryInv
<1>6. QED
  BY <1>1, <1>3, <1>4, <1>5 DEF IInv

\* While an operation runs that began without an orphan, there is none.
LEMMA NoOrphan ==
  ASSUME IInv
  PROVE  at # "idle" /\ alone => orphan = NoCmd
BY DEF IInv, HistoryInv

LEMMA AppliedKeeps ==
  ASSUME IInv, Applied
  PROVE  IInv'
<1>1. at = "applied" /\ UNCHANGED <<db, kernel, current, previous, orphan, edits, mishaps, before, synced, alone>>
  BY DEF Applied, disk, counts, history
<1>2. TypeOK /\ (op # "boot" => (IF back THEN target ELSE live) = Snapshot(current))
      /\ (op = "boot" => target = current /\ target \in Tunnels /\ ~back)
  BY <1>1 DEF IInv, PlaceInv
<1>3. alone /\ synced => Serves(kernel, target)
  BY <1>1 DEF IInv, SyncedInv
<1>4. CASE back
  <2>1. Return("restored") /\ outcome' = "restored"
    BY <1>1, <1>4, Zenon DEF Applied, Return
  <2>2. FailureRestores'
    BY <1>1, <1>2, <1>3, <1>4, <2>1 DEF FailureRestores, Serves, Matches, Snapshot
  <2>3. SuccessIsLive' /\ UndoReachesLive'
    BY <2>1 DEF SuccessIsLive, UndoReachesLive, Done
  <2>4. QED
    BY <1>1, <1>2, <2>1, <2>2, <2>3, NoOrphan, ReturnKeeps DEF TypeOK
<1>5. CASE ~back /\ op = "boot"
  <2>1. Return("ok") /\ outcome' = "ok" /\ op' = op
    BY <1>1, <1>5, Zenon DEF Applied, Return
  <2>2. alone => Matches(kernel[target.iface], target)
    BY <1>1, <1>5 DEF IInv, LinkInv
  <2>3. current # Absent
    BY <1>2, <1>5, Values DEF Configs
  <2>4. SuccessIsLive'
    BY <1>1, <1>2, <1>3, <1>5, <2>1, <2>2, <2>3 DEF SuccessIsLive, Done, Snapshot, Serves, Matches
  <2>5. FailureRestores' /\ UndoReachesLive'
    BY <1>5, <2>1 DEF FailureRestores, UndoReachesLive, Done
  <2>6. QED
    BY <1>1, <1>2, <2>1, <2>4, <2>5, NoOrphan, ReturnKeeps DEF TypeOK
<1>6. CASE ~back /\ op # "boot"
  <2>1. Goto(IF op = "commit" THEN "backup" ELSE "table") /\ UNCHANGED <<locals, outcome>>
    BY <1>1, <1>6, Zenon DEF Applied
  <2>2. /\ at' = IF op = "commit" THEN "backup" ELSE "table"
        /\ UNCHANGED <<op, back, target, live, pending, outcome>>
    BY <2>1 DEF Goto, locals
  <2>3. TypeOK'
    BY <1>1, <1>2, <2>2 DEF TypeOK, Points
  <2>4. PlaceInv'
    BY <1>1, <1>2, <1>6, <2>2 DEF TypeOK, PlaceInv, Commands, Building, Syncing, Snapshot
  <2>5. HistoryInv'
    BY <1>1, <2>2 DEF IInv, HistoryInv, Snapshot, Serves, Matches
  <2>6. LinkInv'
    BY <2>2 DEF LinkInv
  <2>7. alone /\ synced => SyncedInv'
    BY <1>1, <1>3, <2>2 DEF SyncedInv, Serves, Matches, Commands, Building, Syncing
  <2>8. QED
    BY <1>1, <2>2, <2>3, <2>4, <2>5, <2>6, <2>7, NotDone DEF IInv
<1>7. QED
  BY <1>4, <1>5, <1>6

LEMMA BackupKeeps ==
  ASSUME IInv, Backup
  PROVE  IInv'
<1>1. /\ at = "backup" /\ at' = "save" /\ previous' = Snapshot(current)
      /\ UNCHANGED <<op, back, db, kernel, current, target, live, pending, outcome, orphan, edits, mishaps, before, synced, alone>>
  BY DEF Backup, Goto, locals, counts, history
<1>2. TypeOK'
  BY <1>1, Kinds DEF IInv, TypeOK, Points
<1>3. PlaceInv'
  BY <1>1 DEF IInv, PlaceInv, Commands, Building, Syncing, Snapshot
<1>4. HistoryInv'
  BY <1>1 DEF IInv, HistoryInv, Snapshot, Serves, Matches
<1>5. LinkInv'
  BY <1>1 DEF LinkInv
<1>6. alone /\ synced => SyncedInv'
  BY <1>1 DEF IInv, SyncedInv, Serves, Matches, Commands, Building, Syncing
<1>7. QED
  BY <1>1, <1>2, <1>3, <1>4, <1>5, <1>6, NotDone DEF IInv

LEMMA TableKeeps ==
  ASSUME IInv, Table
  PROVE  IInv'
<1>1. /\ at = "table" /\ at' = "resave" /\ db' = target
      /\ UNCHANGED <<op, back, kernel, current, previous, target, live, pending, outcome, orphan, edits, mishaps, before, synced, alone>>
  BY DEF Table, Goto, disk, locals, counts, history
<1>2. TypeOK'
  BY <1>1 DEF IInv, TypeOK, Points
<1>3. PlaceInv'
  BY <1>1 DEF IInv, PlaceInv, Commands, Building, Syncing, Snapshot
<1>4. HistoryInv'
  BY <1>1 DEF IInv, HistoryInv, Snapshot, Serves, Matches
<1>5. LinkInv'
  BY <1>1 DEF LinkInv
<1>6. alone /\ synced => SyncedInv'
  BY <1>1 DEF IInv, SyncedInv, Serves, Matches, Commands, Building, Syncing
<1>7. QED
  BY <1>1, <1>2, <1>3, <1>4, <1>5, <1>6, NotDone DEF IInv

LEMMA SaveKeeps ==
  ASSUME IInv, Save
  PROVE  IInv'
<1>1. /\ at \in {"save", "resave"} /\ current' = target /\ Return("ok") /\ outcome' = "ok" /\ op' = op
      /\ UNCHANGED <<db, kernel, previous, orphan, edits, mishaps, before, synced, alone>>
  BY DEF Save, Return, counts, history
<1>2. TypeOK /\ target # Absent /\ op # "boot"
  BY <1>1, Values DEF IInv, PlaceInv, TypeOK, Building
<1>3. SuccessIsLive'
  <2>1. alone /\ synced => Serves(kernel, target)
    BY <1>1 DEF IInv, SyncedInv
  <2>2. QED
    BY <1>1, <1>2, <2>1 DEF SuccessIsLive, Done, Snapshot, Serves, Matches
<1>4. UndoReachesLive'
  <2>1. op = "commit" => at = "save"
    BY <1>1 DEF IInv, PlaceInv
  <2>2. at = "save" /\ synced => previous = Snapshot(current) /\ Serves(before, Snapshot(current)) /\ previous \in Configs
    BY <1>1, <1>2, Kinds DEF IInv, HistoryInv
  <2>3. QED
    BY <1>1, <2>1, <2>2 DEF UndoReachesLive, Done, Serves, Matches
<1>5. FailureRestores'
  BY <1>1 DEF FailureRestores, Done
<1>6. QED
  BY <1>1, <1>2, <1>3, <1>4, <1>5, NoOrphan, ReturnKeeps DEF TypeOK

\* What is left of the files when writing one of them is cut short.
LEMMA InterruptedFiles ==
  ASSUME TypeOK, Interrupted
  PROVE  current' = current /\ previous' \in Configs \union {Absent, Torn}
<1>1. CASE at = "backup" /\ current # Absent
  BY <1>1 DEF Interrupted, TypeOK
<1>2. CASE ~(at = "backup" /\ current # Absent)
  BY <1>2 DEF Interrupted, TypeOK, disk
<1>3. QED
  BY <1>1, <1>2

LEMMA StoreFailsKeeps ==
  ASSUME IInv, StoreFails
  PROVE  IInv'
<1>1. /\ at # "idle" /\ Return("err") /\ outcome' = "err"
      /\ UNCHANGED <<db, kernel, orphan, before, synced, alone>>
  BY DEF StoreFails, Return, history
<1>2. TypeOK /\ current' = current /\ previous' \in Configs \union {Absent, Torn}
  BY InterruptedFiles DEF IInv, StoreFails
<1>3. edits' \in 0..MaxEdits /\ mishaps' \in 0..MaxMishaps
  BY <1>2, Values DEF TypeOK, StoreFails, Mishap
<1>4. SuccessIsLive' /\ FailureRestores' /\ UndoReachesLive'
  BY <1>1 DEF SuccessIsLive, FailureRestores, UndoReachesLive, Done
<1>5. QED
  BY <1>1, <1>2, <1>3, <1>4, NoOrphan, ReturnKeeps DEF TypeOK

LEMMA CancelKeeps ==
  ASSUME IInv, Cancel
  PROVE  IInv'
<1>1. /\ Return("none") /\ outcome' = "none"
      /\ UNCHANGED <<db, kernel, current, previous, before, synced, alone>>
      /\ orphan' = orphan \/ orphan' \in Running
  BY DEF Cancel, Return, disk, history
<1>2. TypeOK /\ PlaceInv
  BY DEF IInv
<1>3. orphan' \in Cmds \union {NoCmd}
  BY <1>1, <1>2, CommandAt DEF TypeOK
<1>4. edits' \in 0..MaxEdits /\ mishaps' \in 0..MaxMishaps
  BY <1>2, Values DEF TypeOK, Cancel, Mishap
<1>5. SuccessIsLive' /\ FailureRestores' /\ UndoReachesLive'
  BY <1>1 DEF SuccessIsLive, FailureRestores, UndoReachesLive, Done
<1>6. QED
  BY <1>1, <1>2, <1>3, <1>4, <1>5, ReturnKeeps DEF TypeOK

LEMMA OrphanEndsKeeps ==
  ASSUME IInv, OrphanEnds
  PROVE  IInv'
<1>1. /\ orphan # NoCmd /\ orphan' = NoCmd
      /\ UNCHANGED <<op, at, back, db, current, previous, target, live, pending, outcome, edits, mishaps, before, synced, alone>>
  BY DEF OrphanEnds, place, disk, locals, counts, history
<1>2. TypeOK /\ orphan \in Cmds
  BY <1>1 DEF IInv, TypeOK
<1>3. kernel' \in Kernels
  BY <1>2, Effect DEF OrphanEnds, TypeOK
<1>4. ~alone \/ (at = "idle" /\ outcome = "none")
  BY <1>1 DEF IInv, HistoryInv
<1>5. TypeOK'
  BY <1>1, <1>2, <1>3 DEF TypeOK
<1>6. PlaceInv'
  BY <1>1 DEF IInv, PlaceInv, Same, Snapshot
<1>7. HistoryInv'
  BY <1>1 DEF IInv, HistoryInv, Snapshot, Serves, Matches
<1>8. SuccessIsLive' /\ FailureRestores'
  BY <1>1, <1>4 DEF SuccessIsLive, FailureRestores, Done
<1>9. UndoReachesLive'
  BY <1>1 DEF IInv, UndoReachesLive, Done, Serves, Matches
<1>10. QED
  BY <1>1, <1>4, <1>5, <1>6, <1>7, <1>8, <1>9 DEF IInv

LEMMA CrashKeeps ==
  ASSUME IInv, Crash
  PROVE  IInv'
<1>1. /\ kernel' \in {kernel, Nothing} /\ op' = "boot" /\ back' = FALSE
      /\ at' = (IF Snapshot(current) = Off THEN "idle" ELSE "plan")
      /\ target' = Snapshot(current) /\ live' = Off /\ pending' = {} /\ orphan' = NoCmd
      /\ before' = kernel' /\ synced' = Serves(kernel', Snapshot(current)) /\ alone' = TRUE
      /\ outcome' = "none" /\ db' = db
  BY DEF Crash
<1>2. TypeOK /\ current' = current /\ previous' \in Configs \union {Absent, Torn} /\ Snapshot(current) \in Configs
  BY InterruptedFiles, Kinds DEF IInv, Crash
<1>3. TypeOK'
  <2>1. edits' \in 0..MaxEdits /\ mishaps' \in 0..MaxMishaps
    BY <1>2, Values DEF TypeOK, Crash, Mishap
  <2>2. kernel' \in Kernels
    BY <1>1, <1>2 DEF TypeOK, Kernels, Nothing
  <2>3. synced' \in BOOLEAN
    BY <1>1 DEF Serves
  <2>4. at' \in Points /\ Off \in Configs /\ FALSE \in BOOLEAN /\ TRUE \in BOOLEAN /\ {} \subseteq Nets
    BY <1>1 DEF Points, Configs
  <2>5. QED
    BY <1>1, <1>2, <2>1, <2>2, <2>3, <2>4 DEF TypeOK
<1>4. at' # "idle" => target' = current' /\ target' \in Tunnels
  BY <1>1, <1>2 DEF Snapshot, Configs
<1>5. PlaceInv'
  BY <1>1, <1>4 DEF PlaceInv, Commands, Building, Syncing
<1>6. HistoryInv'
  BY <1>1, <1>2 DEF HistoryInv, Snapshot, Serves, Matches
<1>7. LinkInv'
  BY <1>1 DEF LinkInv
<1>8. synced' /\ at' # "idle" => SyncedInv'
  <2>1. synced' => Only(Of(target))'
    BY <1>1 DEF Only, Of, Serves
  <2>2. ~Same'
    BY <1>1 DEF Same
  <2>3. QED
    BY <1>1, <2>1, <2>2 DEF SyncedInv, Only, Of, Commands, Building, Syncing
<1>9. SuccessIsLive' /\ FailureRestores' /\ UndoReachesLive'
  BY <1>1 DEF SuccessIsLive, FailureRestores, UndoReachesLive, Done
<1>10. QED
  BY <1>3, <1>5, <1>6, <1>7, <1>8, <1>9 DEF IInv

LEMMA EditKeeps ==
  ASSUME IInv, NEW config \in Configs, Edit(config)
  PROVE  IInv'
<1>1. TypeOK'
  BY Values DEF IInv, TypeOK, Edit, disk, place, locals, history
<1>2. QED
  BY <1>1, Elsewhere DEF Edit

LEMMA InvKept == IInv /\ [Next]_vars => IInv'
<1> SUFFICES ASSUME IInv, [Next]_vars PROVE IInv'
  OBVIOUS
<1>1. ASSUME NEW config \in Configs, Edit(config) PROVE IInv'
  BY <1>1, EditKeeps
<1>2. CASE BeginCommit
  BY <1>2, BeginKeeps DEF IInv, TypeOK, BeginCommit
<1>3. CASE BeginRollback
  BY <1>3, BeginKeeps DEF BeginRollback
<1>4. CASE Refuse \/ Check \/ Plan
  BY <1>4, RefuseKeeps, CheckKeeps, PlanKeeps
<1>5. ASSUME NEW c \in Running, RunCommand(c) \/ CommandFails(c) PROVE IInv'
  BY <1>5, RunCommandKeeps, CommandFailsKeeps
<1>6. CASE Skip \/ Cleanup \/ Applied
  BY <1>6, SkipKeeps, CleanupKeeps, AppliedKeeps
<1>7. CASE Backup \/ Save \/ Table \/ StoreFails
  BY <1>7, BackupKeeps, SaveKeeps, TableKeeps, StoreFailsKeeps
<1>8. CASE Cancel \/ OrphanEnds \/ Crash
  BY <1>8, CancelKeeps, OrphanEndsKeeps, CrashKeeps
<1>9. CASE UNCHANGED vars
  <2>1. TypeOK' /\ UNCHANGED <<kernel, disk, place, locals, outcome, orphan, history>>
    BY <1>9 DEF IInv, TypeOK, vars, disk, place, locals, counts, history
  <2>2. QED
    BY <2>1, Elsewhere
<1>10. QED
  BY <1>1, <1>2, <1>3, <1>4, <1>5, <1>6, <1>7, <1>8, <1>9 DEF Next

LEMMA InvHolds == Spec => []IInv
<1>1. Init => IInv
  <2> SUFFICES ASSUME Init PROVE IInv
    OBVIOUS
  <2>1. TypeOK
    <3>1. Nothing \in Kernels /\ Off \in Configs /\ "idle" \in Points /\ {} \subseteq Nets
      BY DEF Nothing, Kernels, Configs, Points
    <3>2. 0 \in 0..MaxEdits /\ 0 \in 0..MaxMishaps
      BY Values
    <3>3. QED
      BY <3>1, <3>2 DEF Init, TypeOK
  <2>2. PlaceInv /\ HistoryInv /\ at = "idle"
    BY DEF Init, PlaceInv, HistoryInv, Commands, Building, Syncing
  <2>3. SuccessIsLive /\ FailureRestores /\ UndoReachesLive
    BY DEF Init, SuccessIsLive, FailureRestores, UndoReachesLive, Done
  <2>4. QED
    BY <2>1, <2>2, <2>3 DEF IInv
<1>2. QED
  BY <1>1, InvKept, PTL DEF Spec

\* Every variable has its type, for every value of the constants.
THEOREM TypeCorrect == Spec => []TypeOK
<1>1. IInv => TypeOK
  BY DEF IInv
<1>2. QED
  BY <1>1, InvHolds, PTL

\* What succeeded is in the kernel as current.* has it, with nothing left of what was there
\* before it (wireguard/commit.rs, apply_state and restore_on_boot).
THEOREM SuccessIsLiveHolds == Spec => []SuccessIsLive
<1>1. IInv => SuccessIsLive
  BY DEF IInv
<1>2. QED
  BY <1>1, InvHolds, PTL

\* "previous configuration restored" is so, whichever of its commands had failed.
THEOREM FailureRestoresHolds == Spec => []FailureRestores
<1>1. IInv => FailureRestores
  BY DEF IInv
<1>2. QED
  BY <1>1, InvHolds, PTL

\* A rollback after a commit leads to the tunnel that was there before it.
THEOREM UndoReachesLiveHolds == Spec => []UndoReachesLive
<1>1. IInv => UndoReachesLive
  BY DEF IInv
<1>2. QED
  BY <1>1, InvHolds, PTL
===============================================================================
