--------------------------- MODULE WireguardCommit ---------------------------
(***************************************************************************)
(* The commit, rollback and boot of the WireGuard tunnel                   *)
(* (wireguard/commit.rs).  apply_state turns the kernel from what a file   *)
(* says is live into a target, one `ip' or `wg' command at a time; when a  *)
(* command fails it is called once more, from the target back to the file. *)
(*                                                                         *)
(* A configuration is Off or an interface, its address (with its MTU) and  *)
(* the networks of the peers that WireguardGenerator renders.  A network   *)
(* stands for a peer and for its route.                                    *)
(*                                                                         *)
(* commit_lock lets one operation run at a time: `op' is at `at'.  A       *)
(* handler that is dropped releases it, its last command runs on: the      *)
(* orphan.                                                                 *)
(***************************************************************************)
EXTENDS Naturals

CONSTANTS
  Ifaces,       \* names of interfaces
  Addrs,        \* tunnel addresses, each with an MTU
  Nets,         \* allowed networks of the peers
  NoAddr,       \* an interface without an address
  NoIface,      \* no interface of that name
  Off,          \* WireGuard is disabled
  Absent,       \* no such file
  Torn,         \* a file cut short
  NoCmd,        \* no command
  MaxEdits,     \* bound: edits of the database
  MaxMishaps    \* bound: failing commands and writes, clients that disconnect, crashes

Tunnels == [iface : Ifaces, addr : Addrs, nets : SUBSET Nets]
Configs == Tunnels \union {Off}
\* An interface; keyed once it has its keys and peers.
Links ==
  [addr : Addrs \union {NoAddr}, up : BOOLEAN, keyed : BOOLEAN, peers : SUBSET Nets, routes : SUBSET Nets]
Kernels == [Ifaces -> Links \union {NoIface}]

\* A command, the interface it is for, and what it sets.
Cmds ==
  [do : {"delete", "add", "up"}, dev : Ifaces, arg : {0}]
    \union [do : {"conf"}, dev : Ifaces, arg : SUBSET Nets]
    \union [do : {"address"}, dev : Ifaces, arg : Addrs]
    \union [do : {"route", "unroute"}, dev : Ifaces, arg : Nets]

ASSUME WireguardAssumption ==
  /\ NoAddr \notin Addrs /\ NoIface \notin Links
  /\ Off \notin Tunnels /\ Absent # Torn /\ {Absent, Torn} \cap Configs = {}
  /\ NoCmd \notin Cmds
  /\ {MaxEdits, MaxMishaps} \subseteq Nat

VARIABLES
  db,                 \* wireguard_config and wireguard_peers
  kernel,             \* the WireGuard interfaces
  current, previous,  \* current.wireguard.json, previous.wireguard.json
  op, at, back,       \* the operation, its place, and whether it is undoing
  target, live,       \* arguments of apply_state
  pending,            \* networks whose route is still to be set or removed
  outcome,            \* what the operation returned
  orphan,             \* the command of a dropped handler
  edits, mishaps,
  before, synced,     \* history: the kernel when the operation began, and whether current.* described it
  alone               \* history: there was no orphan then

disk == <<current, previous>>
place == <<op, at, back>>
locals == <<target, live, pending>>
counts == <<edits, mishaps>>
history == <<before, synced, alone>>
vars == <<db, kernel, disk, place, locals, outcome, orphan, counts, history>>

Building == {"add", "conf", "address", "up", "route"}
Commands == Building \union {"old", "new", "sync", "reroute", "unroute", "cleanup"}
Points == Commands \union {"idle", "check", "plan", "applied", "backup", "save", "table", "resave"}

TypeOK ==
  /\ db \in Configs /\ kernel \in Kernels
  /\ current \in Configs \union {Absent} /\ previous \in Configs \union {Absent, Torn}
  /\ op \in {"commit", "rollback", "boot"} /\ at \in Points /\ back \in BOOLEAN
  /\ target \in Configs /\ live \in Configs /\ pending \subseteq Nets
  /\ outcome \in {"none", "ok", "restored", "unchanged", "broken", "err"}
  /\ orphan \in Cmds \union {NoCmd}
  /\ edits \in 0..MaxEdits /\ mishaps \in 0..MaxMishaps
  /\ before \in Kernels /\ synced \in BOOLEAN /\ alone \in BOOLEAN

Nothing == [i \in Ifaces |-> NoIface]
Bare == [addr |-> NoAddr, up |-> FALSE, keyed |-> FALSE, peers |-> {}, routes |-> {}]

Init ==
  /\ db = Off /\ kernel = Nothing
  /\ current = Absent /\ previous = Absent
  /\ op = "commit" /\ at = "idle" /\ back = FALSE
  /\ target = Off /\ live = Off /\ pending = {}
  /\ outcome = "none" /\ orphan = NoCmd
  /\ edits = 0 /\ mishaps = 0
  /\ before = Nothing /\ synced = TRUE /\ alone = TRUE

\* read_snapshot.  No file and a disabled snapshot are the same to apply_state, and
\* empty_disabled is what both fall back to.
Snapshot(file) == IF file = Absent THEN Off ELSE file

\* The kernel has the tunnel of a configuration and no other; routes that could not be
\* removed may be left.
Matches(link, config) ==
  /\ link # NoIface
  /\ link.addr = config.addr /\ link.up /\ link.keyed /\ link.peers = config.nets /\ config.nets \subseteq link.routes
Serves(k, config) ==
  \A i \in Ifaces : IF config # Off /\ i = config.iface THEN Matches(k[i], config) ELSE k[i] = NoIface

Mishap == mishaps < MaxMishaps /\ mishaps' = mishaps + 1 /\ UNCHANGED edits
Goto(p) == at' = p /\ UNCHANGED <<op, back>>
Return(result) ==
  /\ at' = "idle" /\ back' = FALSE /\ UNCHANGED op
  /\ outcome' = result
  /\ target' = Off /\ live' = Off /\ pending' = {}

Edit(config) ==
  /\ edits < MaxEdits /\ edits' = edits + 1
  /\ config # db /\ db' = config
  /\ UNCHANGED <<kernel, disk, place, locals, outcome, orphan, mishaps, history>>

-----------------------------------------------------------------------------
(* An operation begins: it takes commit_lock and reads its two configurations. *)

Begin(o, new) ==
  /\ at = "idle" /\ at' = "check" /\ back' = FALSE /\ op' = o
  /\ target' = new /\ live' = Snapshot(current) /\ pending' = {}
  /\ before' = kernel /\ synced' = Serves(kernel, Snapshot(current)) /\ alone' = (orphan = NoCmd)
  /\ outcome' = "none"
  /\ UNCHANGED <<db, kernel, disk, orphan, counts>>

BeginCommit == Begin("commit", db)

\* Mutant of BeginRollback: the snapshot is not parsed.
BeginRollbackAnyFile == Begin("rollback", previous)

\* previous.wireguard.json is there and readable.
BeginRollback == previous \in Configs /\ Begin("rollback", previous)

\* A refused name, an interface that is something else, a snapshot that cannot be read, an
\* error of the database, and, in a commit, a trial_load that fails.
Refuse ==
  /\ at = "check"
  /\ Return("unchanged")
  /\ UNCHANGED <<db, kernel, disk, orphan, counts, history>>

Check ==
  /\ at = "check"
  /\ Goto("plan")
  /\ UNCHANGED <<db, kernel, disk, locals, outcome, orphan, counts, history>>

-----------------------------------------------------------------------------
(* apply_state(target, live). *)

\* Mutant of CanSync: another address is synced, too.
CanSyncAnyAddress ==
  live # Off /\ live.iface = target.iface /\ kernel[target.iface] # NoIface

\* Same interface, address and MTU, and the interface is there.
CanSync ==
  live # Off /\ live.iface = target.iface /\ live.addr = target.addr /\ kernel[target.iface] # NoIface

\* What apply_state does first.
Plan ==
  /\ at = "plan"
  /\ Goto(CASE target = Off -> IF live = Off THEN "applied" ELSE "old"
            [] target # Off /\ CanSync -> "sync"
            [] OTHER -> IF live # Off /\ live.iface # target.iface THEN "old" ELSE "new")
  /\ UNCHANGED <<db, kernel, disk, locals, outcome, orphan, counts, history>>

\* The command the operation is at; at the routes there is one for every pending network.
Cmd(net) ==
  CASE at = "old" -> [do |-> "delete", dev |-> live.iface, arg |-> 0]
    [] at \in {"new", "cleanup"} -> [do |-> "delete", dev |-> target.iface, arg |-> 0]
    [] at \in {"add", "up"} -> [do |-> at, dev |-> target.iface, arg |-> 0]
    [] at \in {"conf", "sync"} -> [do |-> "conf", dev |-> target.iface, arg |-> target.nets]
    [] at = "address" -> [do |-> "address", dev |-> target.iface, arg |-> target.addr]
    [] at \in {"route", "reroute"} -> [do |-> "route", dev |-> target.iface, arg |-> net]
    [] at = "unroute" -> [do |-> "unroute", dev |-> target.iface, arg |-> net]

\* The commands the operation may be waiting for now; remove_interface finds out first
\* whether there is one to remove.
Routing == {"route", "reroute", "unroute"}
Running ==
  IF at \notin Commands THEN {}
  ELSE {c \in {Cmd(net) : net \in IF at \in Routing THEN pending ELSE {0}} :
          c.do = "delete" => kernel[c.dev] # NoIface}

\* Whether the kernel lets a command do what it is for.
Possible(c) ==
  CASE c.do = "add" -> kernel[c.dev] = NoIface
    [] c.do = "address" -> kernel[c.dev] # NoIface /\ kernel[c.dev].addr = NoAddr
    [] c.do = "route" -> kernel[c.dev] # NoIface /\ kernel[c.dev].up
    [] c.do = "unroute" -> kernel[c.dev] # NoIface /\ c.arg \in kernel[c.dev].routes
    [] OTHER -> kernel[c.dev] # NoIface

\* `route replace' takes the route from another interface.
Does(c) ==
  kernel' =
    CASE c.do = "delete" -> [kernel EXCEPT ![c.dev] = NoIface]
      [] c.do = "add" -> [kernel EXCEPT ![c.dev] = Bare]
      [] c.do = "conf" -> [kernel EXCEPT ![c.dev].keyed = TRUE, ![c.dev].peers = c.arg]
      [] c.do = "address" -> [kernel EXCEPT ![c.dev].addr = c.arg]
      [] c.do = "up" -> [kernel EXCEPT ![c.dev].up = TRUE]
      [] c.do = "route" ->
           [i \in Ifaces |->
              IF kernel[i] = NoIface THEN NoIface
              ELSE [kernel[i] EXCEPT !.routes = IF i = c.dev THEN @ \union {c.arg} ELSE @ \ {c.arg}]]
      [] c.do = "unroute" -> [kernel EXCEPT ![c.dev].routes = @ \ {c.arg}]

\* Where a list of routes ends: nothing more to set, then those of the old configuration
\* that the new one has not.
Following ==
  CASE at = "old" -> IF target = Off THEN "applied" ELSE "new"
    [] at = "new" -> "add" [] at = "add" -> "conf" [] at = "conf" -> "address"
    [] at = "address" -> "up" [] at = "up" -> "route" [] at = "sync" -> "reroute"
    [] at = "reroute" -> "unroute" [] at \in {"route", "unroute"} -> "applied"

\* What is pending at the point p.
PendingAt(p) ==
  CASE p \in {"route", "reroute"} -> target.nets
    [] p = "unroute" -> live.nets \ target.nets
    [] OTHER -> {}

Advance == Goto(Following) /\ pending' = PendingAt(Following) /\ UNCHANGED <<target, live, outcome>>

RunCommand(c) ==
  /\ at # "cleanup"
  /\ Possible(c) /\ Does(c)
  /\ IF at \in Routing
     THEN pending' = pending \ {c.arg} /\ UNCHANGED <<place, target, live, outcome>>
     ELSE Advance
  /\ UNCHANGED <<db, disk, orphan, counts, history>>

\* Nothing to remove, or no more routes.
Skip ==
  /\ at \in {"old", "new"} \union Routing /\ Running = {}
  /\ Advance
  /\ UNCHANGED <<db, kernel, disk, orphan, counts, history>>

\* Mutant of Undo: the way back starts from the old configuration again.
UndoFromLive ==
  IF back \/ op = "boot" THEN Return("broken")
  ELSE /\ at' = "plan" /\ back' = TRUE /\ UNCHANGED op
       /\ target' = live /\ live' = live /\ pending' = {} /\ UNCHANGED outcome

\* apply_state returned an error: it is called once more, the other way round.
Undo ==
  IF back \/ op = "boot" THEN Return("broken")
  ELSE /\ at' = "plan" /\ back' = TRUE /\ UNCHANGED op
       /\ target' = live /\ live' = target /\ pending' = {} /\ UNCHANGED outcome

\* A command fails.  bring_up cleans up first; a route that cannot be removed is ignored.
CommandFails(c) ==
  /\ at # "cleanup"
  /\ IF Possible(c) THEN Mishap ELSE UNCHANGED counts
  /\ CASE at \in Building -> Goto("cleanup") /\ pending' = {} /\ UNCHANGED <<target, live, outcome>>
       [] at = "unroute" -> pending' = pending \ {c.arg} /\ UNCHANGED <<place, target, live, outcome>>
       [] OTHER -> Undo
  /\ UNCHANGED <<db, kernel, disk, orphan, history>>

\* The half-built interface is removed, if that works, and the error returned.
Cleanup ==
  /\ at = "cleanup"
  /\ \/ kernel' = [kernel EXCEPT ![target.iface] = NoIface] /\ UNCHANGED counts
     \/ UNCHANGED kernel /\ Mishap
  /\ Undo
  /\ UNCHANGED <<db, disk, orphan, history>>

Applied ==
  /\ at = "applied"
  /\ CASE back -> Return("restored")
       [] ~back /\ op = "boot" -> Return("ok")
       [] OTHER -> Goto(IF op = "commit" THEN "backup" ELSE "table") /\ UNCHANGED <<locals, outcome>>
  /\ UNCHANGED <<db, kernel, disk, orphan, counts, history>>

-----------------------------------------------------------------------------
(* The files and the database. *)

\* Mutant of Backup: the new configuration is what is kept.
BackupTarget ==
  /\ at = "backup"
  /\ previous' = target
  /\ Goto("save")
  /\ UNCHANGED <<db, kernel, current, locals, outcome, orphan, counts, history>>

\* current.* to previous.*, or a disabled configuration.
Backup ==
  /\ at = "backup"
  /\ previous' = Snapshot(current)
  /\ Goto("save")
  /\ UNCHANGED <<db, kernel, current, locals, outcome, orphan, counts, history>>

Save ==
  /\ at \in {"save", "resave"}
  /\ current' = target
  /\ Return("ok")
  /\ UNCHANGED <<db, kernel, previous, orphan, counts, history>>

\* WireguardRepository::replace_all, one transaction.
Table ==
  /\ at = "table"
  /\ db' = target
  /\ Goto("resave")
  /\ UNCHANGED <<kernel, disk, locals, outcome, orphan, counts, history>>

\* previous.* is copied in place, and may be cut short or, when its permissions cannot be
\* set, complete; current.* is renamed.
Interrupted ==
  IF at = "backup" /\ current # Absent
  THEN previous' \in {previous, Torn, current} /\ UNCHANGED current
  ELSE UNCHANGED disk

StoreFails ==
  /\ at \in {"backup", "save", "table", "resave"}
  /\ Mishap
  /\ Interrupted
  /\ Return("err")
  /\ UNCHANGED <<db, kernel, orphan, history>>

-----------------------------------------------------------------------------
(* Dropped handlers, crashes and boot. *)

\* The client goes away while the handler waits: for the database, for a command, which
\* goes on, or with the transaction just done.
Cancel ==
  /\ Mishap
  /\ op # "boot" /\ at # "idle"
  /\ \/ (at = "check" => op = "commit") /\ at \in {"check", "table", "resave"} /\ UNCHANGED orphan
     \/ orphan = NoCmd /\ orphan' \in Running   \* one orphan at a time
  /\ Return("none")
  /\ UNCHANGED <<db, kernel, disk, history>>

OrphanEnds ==
  /\ orphan # NoCmd /\ orphan' = NoCmd
  /\ (Possible(orphan) /\ Does(orphan)) \/ UNCHANGED kernel
  /\ UNCHANGED <<db, disk, place, locals, outcome, counts, history>>

\* A crash of the service and its commands, or of the machine, whose kernel then starts
\* without interfaces; then restore_on_boot, which takes nothing for live.
Crash ==
  /\ Mishap
  /\ kernel' \in {kernel, Nothing}
  /\ Interrupted
  /\ op' = "boot" /\ back' = FALSE
  /\ at' = IF Snapshot(current) = Off THEN "idle" ELSE "plan"
  /\ target' = Snapshot(current) /\ live' = Off /\ pending' = {}
  /\ orphan' = NoCmd
  /\ before' = kernel' /\ synced' = Serves(kernel', Snapshot(current)) /\ alone' = TRUE
  /\ outcome' = "none"
  /\ UNCHANGED db

Next ==
  \/ \E config \in Configs : Edit(config)
  \/ BeginCommit \/ BeginRollback \/ Refuse \/ Check \/ Plan
  \/ \E c \in Running : RunCommand(c) \/ CommandFails(c)
  \/ Skip \/ Cleanup \/ Applied
  \/ Backup \/ Save \/ Table \/ StoreFails
  \/ Cancel \/ OrphanEnds \/ Crash

Spec == Init /\ [][Next]_vars
-----------------------------------------------------------------------------
(* Properties *)

Done(results) == at = "idle" /\ outcome \in results

\* "WireGuard updated: interface {} is up": if current.* described the kernel when an
\* operation began, it does so after its success, with no interface of an earlier
\* configuration left; after boot the saved interface is complete in any case.
SuccessIsLive ==
  Done({"ok"}) /\ alone =>
    /\ synced => Serves(kernel, Snapshot(current))
    /\ op = "boot" => Matches(kernel[current.iface], current)

\* "previous configuration restored": whichever command failed, and whatever the target
\* was, undoing ends at the tunnel that was there.
FailureRestores ==
  Done({"restored", "unchanged"}) /\ synced /\ alone => Serves(kernel, Snapshot(current))

\* A commit's rollback goes back to the tunnel that was there before it.
UndoReachesLive ==
  Done({"ok"}) /\ op = "commit" /\ synced => previous \in Configs /\ Serves(before, previous)

\* "interface {} is up with {} peer(s)", whatever was there before.
SuccessMeansUp ==
  Done({"ok"}) /\ alone /\ current \in Tunnels => Matches(kernel[current.iface], current)
=============================================================================
