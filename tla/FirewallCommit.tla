---------------------------- MODULE FirewallCommit ----------------------------
(***************************************************************************)
(* FirewallCommit (src/iqsoft-firewall/src/firewall/commit.rs) file by     *)
(* file: how a commit turns database tables into a kernel ruleset and into *)
(* the four files of config-history/current.*, how a rollback goes back to *)
(* config-history/previous.*, and what edits, cancelled requests, file     *)
(* errors, crashes and restarts do in between.                             *)
(*                                                                         *)
(* commit_lock lets one operation run at a time: `at' and `n' say where it *)
(* is. Edits of the tables do not take that lock and happen at any point.  *)
(***************************************************************************)
EXTENDS Naturals, Sequences

CONSTANTS
  Values,       \* contents a table may have
  EmptyList,    \* the one that is written "[]"
  Absent,       \* no such file, an empty kernel, or a local not read yet
  Torn,         \* a file cut short
  MaxEdits,     \* bound: edits of the tables
  MaxFaults,    \* bound: file and nft errors after validation
  MaxRestarts   \* bound: crashes

\* The tables a snapshot is taken of. "addresses" stands for every other table
\* the generator reads: it has no snapshot.
Tables == {"rules", "portForwards", "oneToOne"}
Inputs == Tables \union {"addresses"}
Files == {"nft"} \union Tables
Config == [Inputs -> Values]

ASSUME FirewallAssumption ==
  /\ EmptyList \in Values
  /\ Absent # Torn /\ {Absent, Torn} \cap (Values \union Config) = {}
  /\ {MaxEdits, MaxFaults, MaxRestarts} \subseteq Nat

ReadOrder == <<"rules", "portForwards", "oneToOne", "addresses">>
TableOrder == <<"rules", "portForwards", "oneToOne">>
FileOrder == <<"nft", "rules", "portForwards", "oneToOne">>

VARIABLES
  db,         \* [Inputs -> Values]
  kernel,     \* the loaded ruleset, named by the table contents it was generated from
  current, previous,   \* the four files of each set
  at, n,      \* program point of the operation that holds commit_lock, and its index there
  gen, snap,  \* its locals: what the ruleset was generated from, the JSON snapshots
  outcome,    \* what the last operation returned
  edits, faults, restarts,
  dirty,      \* history: inputs edited since a commit read or a rollback wrote them
  mixed       \* history: some history file may belong to another ruleset than its neighbours

files == <<current, previous>>
locals == <<gen, snap>>
counts == <<edits, faults, restarts>>
history == <<dirty, mixed>>
vars == <<db, kernel, files, at, n, locals, outcome, counts, history>>

Ruleset == Config \union {Absent, Torn}
Content == Values \union {Absent, Torn}
Points == {"idle", "generate", "snapshot", "check", "backup", "apply", "save", "forward",
           "validate", "parse", "sync", "resave", "boot"}
Writing == {"backup", "save", "resave"}

\* One set of history files: `nft' is a ruleset, the others are JSON snapshots.
IsFileSet(h) ==
  /\ h \in [Files -> Ruleset \union Values]
  /\ h["nft"] \in Ruleset
  /\ \A t \in Tables : h[t] \in Content

NoFiles == [f \in Files |-> Absent]
Unread == [i \in Inputs |-> Absent]
NoSnapshot == [t \in Tables |-> Absent]

\* A rollback, and a commit's backup, read a snapshot that was never written as "[]".
Snapshot(h, t) == IF h[t] = Absent THEN EmptyList ELSE h[t]

TypeOK ==
  /\ db \in Config
  /\ kernel \in Ruleset
  /\ IsFileSet(current) /\ IsFileSet(previous)
  /\ at \in Points /\ n \in 1..4
  /\ gen \in [Inputs -> Values \union {Absent}]
  /\ snap \in [Tables -> Values \union {Absent}]
  /\ outcome \in {"none", "ok", "err"}
  /\ edits \in 0..MaxEdits /\ faults \in 0..MaxFaults /\ restarts \in 0..MaxRestarts
  /\ dirty \subseteq Inputs /\ mixed \in BOOLEAN

\* A fresh machine, or one whose current.* files were written before port forwards
\* and 1:1 NAT existed, and which therefore has none of either.
LegacyFiles(c) == [f \in Files |-> CASE f = "nft" -> c [] f = "rules" -> c["rules"] [] OTHER -> Absent]

Init ==
  /\ db = [i \in Inputs |-> EmptyList]
  /\ \/ kernel = Absent /\ current = NoFiles
     \/ kernel = db /\ current = LegacyFiles(db)
  /\ previous = NoFiles
  /\ at = "idle" /\ n = 1
  /\ gen = Unread /\ snap = NoSnapshot
  /\ outcome = "none"
  /\ edits = 0 /\ faults = 0 /\ restarts = 0
  /\ dirty = {} /\ mixed = FALSE

Goto(p) == at' = p /\ n' = 1

\* The next iteration of an unrolled sequence of calls, or the point after it.
Advance(order, p) == IF n < Len(order) THEN at' = at /\ n' = n + 1 ELSE Goto(p)
\* The operation's locals go with it.
Return(result) == Goto("idle") /\ outcome' = result /\ gen' = Unread /\ snap' = NoSnapshot
Fault == faults < MaxFaults /\ faults' = faults + 1 /\ UNCHANGED <<edits, restarts>>

-----------------------------------------------------------------------------
(* The tables, from the handlers of /api/rules, /api/portforwards and the rest. *)

Edit(i, v) ==
  /\ edits < MaxEdits /\ at # "boot" /\ db[i] # v
  /\ db' = [db EXCEPT ![i] = v]
  /\ dirty' = dirty \union {i}
  /\ edits' = edits + 1
  /\ UNCHANGED <<kernel, files, at, n, locals, outcome, faults, restarts, mixed>>

-----------------------------------------------------------------------------
(* commit *)

StartCommit ==
  /\ at = "idle"
  /\ Goto("generate")
  /\ UNCHANGED <<db, kernel, files, locals, outcome, counts, history>>

\* FirewallGenerator::generate reads table after table.
ReadInput ==
  /\ at = "generate"
  /\ gen' = [gen EXCEPT ![ReadOrder[n]] = db[ReadOrder[n]]]
  /\ dirty' = dirty \ {ReadOrder[n]}
  /\ Advance(ReadOrder, "snapshot")
  /\ UNCHANGED <<db, kernel, files, snap, outcome, counts, mixed>>

\* Then commit reads the three tables again, for the JSON snapshots.
ReadSnapshot ==
  /\ at = "snapshot"
  /\ snap' = [snap EXCEPT ![TableOrder[n]] = db[TableOrder[n]]]
  /\ mixed' = (mixed \/ TableOrder[n] \in dirty)
  /\ Advance(TableOrder, "check")
  /\ UNCHANGED <<db, kernel, files, gen, outcome, counts, dirty>>

CheckPasses ==
  /\ at = "check"
  /\ Goto("backup")
  /\ UNCHANGED <<db, kernel, files, locals, outcome, counts, history>>

\* A missing interface, a database error, an unreadable address set, a failed check.
Refuse ==
  /\ at \in {"generate", "snapshot", "check"}
  /\ Return("err")
  /\ UNCHANGED <<db, kernel, files, counts, history>>

\* current.* is copied to previous.*, before the new ruleset is applied.
WritesEmptyList(f) == f \in {"portForwards", "oneToOne"} /\ current["nft"] # Absent

\* Mutant of Backup: only the two files of the first release are copied.
BackupOfTwoFiles(f) == IF f \in {"nft", "rules"} /\ current[f] # Absent THEN current[f] ELSE previous[f]

Backup(f) ==
  IF current[f] # Absent THEN current[f] ELSE IF WritesEmptyList(f) THEN EmptyList ELSE previous[f]

BackupFile ==
  /\ at = "backup"
  /\ previous' = [previous EXCEPT ![FileOrder[n]] = Backup(FileOrder[n])]
  /\ Advance(FileOrder, "apply")
  /\ UNCHANGED <<db, kernel, current, locals, outcome, counts, history>>

Apply ==
  /\ at = "apply"
  /\ kernel' = gen
  /\ Goto("save")
  /\ UNCHANGED <<db, files, locals, outcome, counts, history>>

ApplyFails ==
  /\ at = "apply"
  /\ Fault
  /\ Return("err")
  /\ UNCHANGED <<db, kernel, files, history>>

SaveFile ==
  /\ at = "save"
  /\ current' = [current EXCEPT ![FileOrder[n]] = IF n = 1 THEN gen ELSE snap[FileOrder[n]]]
  /\ Advance(FileOrder, "forward")
  /\ UNCHANGED <<db, kernel, previous, locals, outcome, counts, history>>

\* Writing ip_forward; persisting it in sysctl.d can fail too, but only warns.
SetForwarding ==
  /\ at = "forward"
  /\ Return("ok")
  /\ UNCHANGED <<db, kernel, files, counts, history>>

ForwardingFails ==
  /\ at = "forward"
  /\ Fault
  /\ Return("err")
  /\ UNCHANGED <<db, kernel, files, history>>

-----------------------------------------------------------------------------
(* rollback *)

CanRollBack == previous["nft"] # Absent /\ previous["rules"] # Absent

StartRollback ==
  /\ at = "idle" /\ CanRollBack
  /\ Goto("validate")
  /\ UNCHANGED <<db, kernel, files, locals, outcome, counts, history>>

RefuseRollback ==
  /\ \/ at = "idle" /\ ~CanRollBack
     \/ at = "validate"
  /\ Return("err")
  /\ UNCHANGED <<db, kernel, files, counts, history>>

\* A file cut short is an empty script, which changes nothing, or part of a ruleset.
Loaded(file) == IF file = Torn THEN {kernel, Torn} ELSE {file}

\* Mutant of RestoreKernel: the wrong file is loaded.
RestoreKernelFromCurrent ==
  /\ at = "validate"
  /\ kernel' \in Loaded(current["nft"])
  /\ Goto("parse")
  /\ UNCHANGED <<db, files, locals, outcome, counts, history>>

RestoreKernel ==
  /\ at = "validate"
  /\ kernel' \in Loaded(previous["nft"])
  /\ Goto("parse")
  /\ UNCHANGED <<db, files, locals, outcome, counts, history>>

Parse ==
  /\ at = "parse"
  /\ IF \E t \in Tables : previous[t] = Torn
     THEN Return("err")
     ELSE Goto("sync") /\ gen' = gen /\ snap' = [t \in Tables |-> Snapshot(previous, t)] /\ outcome' = outcome
  /\ UNCHANGED <<db, kernel, files, counts, history>>

\* Mutant of SyncTable: 1:1 NAT is left as it is.
SyncTwoTables ==
  /\ at = "sync"
  /\ db' = IF n = 3 THEN db ELSE [db EXCEPT ![TableOrder[n]] = snap[TableOrder[n]]]
  /\ dirty' = dirty \ {TableOrder[n]}
  /\ Advance(TableOrder, "resave")
  /\ UNCHANGED <<kernel, files, locals, outcome, counts, mixed>>

\* replace_all_rules of one table: one transaction, three of them in a row.
SyncTable ==
  /\ at = "sync"
  /\ db' = [db EXCEPT ![TableOrder[n]] = snap[TableOrder[n]]]
  /\ dirty' = dirty \ {TableOrder[n]}
  /\ Advance(TableOrder, "resave")
  /\ UNCHANGED <<kernel, files, locals, outcome, counts, mixed>>

SyncFails ==
  /\ at = "sync"
  /\ Fault
  /\ Return("err")
  /\ UNCHANGED <<db, kernel, files, history>>

\* Mutant of ResaveFile: current.nft keeps the ruleset that was rolled back.
ResaveSnapshotsOnly ==
  /\ at = "resave"
  /\ current' = IF n = 1 THEN current ELSE [current EXCEPT ![FileOrder[n]] = snap[FileOrder[n]]]
  /\ IF n < Len(FileOrder) THEN at' = at /\ n' = n + 1 /\ UNCHANGED <<locals, outcome>> ELSE Return("ok")
  /\ UNCHANGED <<db, kernel, previous, counts, history>>

ResaveFile ==
  /\ at = "resave"
  /\ current' = [current EXCEPT ![FileOrder[n]] = IF n = 1 THEN previous["nft"] ELSE snap[FileOrder[n]]]
  /\ IF n < Len(FileOrder) THEN at' = at /\ n' = n + 1 /\ UNCHANGED <<locals, outcome>> ELSE Return("ok")
  /\ UNCHANGED <<db, kernel, previous, counts, history>>

-----------------------------------------------------------------------------
(* Failures and restarts *)

\* The file the operation is writing right now is untouched or cut short.
Damage(f) ==
  \/ UNCHANGED files
  \/ /\ at = "backup" /\ (current[f] # Absent \/ WritesEmptyList(f))
     /\ previous' = [previous EXCEPT ![f] = Torn] /\ UNCHANGED current
  \/ at \in {"save", "resave"} /\ current' = [current EXCEPT ![f] = Torn] /\ UNCHANGED previous

WriteFails ==
  /\ at \in Writing
  /\ Fault
  /\ Damage(FileOrder[n])
  /\ mixed' = (mixed \/ n > 1)
  /\ Return("err")
  /\ UNCHANGED <<db, kernel, dirty>>

\* The client goes away: axum drops the handler at the database call it waits for, or
\* when that call, the last transaction of a rollback, was on its way.
Cancel ==
  /\ at \in {"generate", "snapshot", "sync"} \/ (at = "resave" /\ n = 1)
  /\ Return("none")
  /\ UNCHANGED <<db, kernel, files, counts, history>>

Crash ==
  /\ restarts < MaxRestarts
  /\ restarts' = restarts + 1
  /\ IF at \in Writing THEN Damage(FileOrder[n]) /\ mixed' = (mixed \/ n > 1) ELSE UNCHANGED <<files, mixed>>
  /\ Goto("boot")
  /\ outcome' = "none" /\ gen' = Unread /\ snap' = NoSnapshot
  /\ UNCHANGED <<db, kernel, edits, faults, dirty>>

\* The machine went down with the service: the kernel comes up without a ruleset.
PowerLoss ==
  /\ at = "boot" /\ kernel # Absent
  /\ kernel' = Absent
  /\ UNCHANGED <<db, files, at, n, locals, outcome, counts, history>>

\* restore_on_boot; an error there is logged and the service starts all the same.
BootRestore ==
  /\ at = "boot" /\ current["nft"] # Absent
  /\ kernel' \in Loaded(current["nft"])
  /\ Goto("idle")
  /\ UNCHANGED <<db, files, locals, outcome, counts, history>>

BootWithoutRestore ==
  /\ at = "boot"
  /\ IF current["nft"] \in {Absent, Torn} THEN UNCHANGED counts ELSE Fault
  /\ Goto("idle")
  /\ UNCHANGED <<db, kernel, files, locals, outcome, history>>

CommitNext ==
  \/ StartCommit \/ ReadInput \/ ReadSnapshot \/ CheckPasses \/ Refuse
  \/ BackupFile \/ Apply \/ ApplyFails \/ SaveFile \/ SetForwarding \/ ForwardingFails

RollbackNext ==
  \/ StartRollback \/ RefuseRollback \/ RestoreKernel \/ Parse
  \/ SyncTable \/ SyncFails \/ ResaveFile

EnvironmentNext ==
  \/ \E i \in Inputs, v \in Values : Edit(i, v)
  \/ WriteFails \/ Cancel \/ Crash \/ PowerLoss \/ BootRestore \/ BootWithoutRestore

Next == CommitNext \/ RollbackNext \/ EnvironmentNext

Spec == Init /\ [][Next]_vars
-----------------------------------------------------------------------------
(* Properties *)

Succeeded == at = "idle" /\ outcome = "ok"

\* An operation that reported success left the ruleset it loaded in current.nft, for
\* the next boot, and whole snapshots beside it, whatever failed or crashed before it.
\* (The exception is a rollback to a previous.nft that a crash cut short.)
SuccessIsSaved ==
  Succeeded => /\ kernel = current["nft"] \/ previous["nft"] = Torn
               /\ \A t \in Tables : current[t] \in Values

Coherent(h) == h["nft"] \in Config => \A t \in Tables : Snapshot(h, t) = h["nft"][t]

\* Unless an edit landed between the two reads of a commit, or an operation stopped
\* half way through a set of files, the snapshots of both sets describe the ruleset
\* they are stored with: a rollback puts back the tables its ruleset came from.
HistoryCoherent == ~mixed /\ at \notin Writing => Coherent(current) /\ Coherent(previous)

\* After a success every table that nobody edited since holds what the kernel runs,
\* so that the next commit does not undo or redo somebody else's change.
TablesFollowKernel ==
  Succeeded /\ ~mixed /\ kernel = current["nft"] /\ kernel \in Config => \A t \in Tables \ dirty : db[t] = kernel[t]

\* A commit overwrites current.* only when previous.* holds all of it: whatever
\* happens from there on, a rollback leads back to the ruleset that was saved.
UndoTarget ==
  [][at = "save" /\ n = 1 /\ current["nft"] # Absent /\ current' # current =>
       /\ previous["nft"] = current["nft"]
       /\ \A t \in {"portForwards", "oneToOne"} : previous[t] = Snapshot(current, t)
       /\ current["rules"] # Absent => previous["rules"] = current["rules"]]_vars

\* The three rulesets go through the steps of ConfigHistory and no others.
Phase ==
  CASE at = "apply" \/ (at = "backup" /\ n > 1) -> "backedUp"
    [] at = "save" /\ n = 1 -> "applied"
    [] at = "forward" \/ (at = "save" /\ n > 1) -> "saved"
    [] at \in {"parse", "sync"} \/ (at = "resave" /\ n = 1) -> "restored"
    [] at = "resave" /\ n > 1 -> "resaved"
    [] OTHER -> "idle"

H == INSTANCE ConfigHistory WITH Configs <- Config, NoConfig <- Absent,
       live <- kernel, saved <- current["nft"], previous <- previous["nft"], phase <- Phase

ImplementsHistory == H!HistorySpec

-----------------------------------------------------------------------------
(* What messages and comments of the code say, and the code does not do. *)

\* commit.rs says "Rolled back to previous configuration successfully", and warns of a
\* database out of sync only when it fails: after a success tables and kernel agree.
RollbackSyncsTables == Succeeded /\ kernel \in Config => \A t \in Tables \ dirty : db[t] = kernel[t]

\* address_repository.rs says of replace_all: "Used to restore a snapshot on rollback".
RollbackRestoresAddresses ==
  Succeeded /\ kernel \in Config /\ "addresses" \notin dirty => db["addresses"] = kernel["addresses"]
=============================================================================
