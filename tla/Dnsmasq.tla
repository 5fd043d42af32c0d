------------------------------- MODULE Dnsmasq -------------------------------
(***************************************************************************)
(* The commits and rollbacks of the DNS server (dns/commit.rs) and of the  *)
(* DHCP server (dhcp/commit.rs).  Each has a configuration in the          *)
(* database, a file in dnsmasq.d, and a current and a previous pair of     *)
(* rendered file and JSON snapshot; both are served by one dnsmasq, which  *)
(* reads both files when it is restarted.                                  *)
(*                                                                         *)
(* commit_lock lets one operation run at a time: `op' of `server' is at    *)
(* `at'.  A handler that is dropped releases it, but its systemctl, an     *)
(* orphan, runs on and acts at any time.  A file is named by the           *)
(* configuration it was rendered from; what DNS adds from filter lists and *)
(* DHCP reservations is left out.                                          *)
(***************************************************************************)
EXTENDS Naturals

CONSTANTS
  Enabled,      \* configurations with enabled = true
  Disabled,     \* the configuration with enabled = false
  Absent,       \* no such file
  Torn,         \* a file cut short
  Stopped,      \* dnsmasq does not run
  MaxEdits,     \* bound: edits of the database
  MaxMishaps    \* bound: errors of files, of the database and of a service that ran before,
                \* clients that disconnect, crashes

Servers == {"dns", "dhcp"}
Configs == Enabled \union {Disabled}
Content == Configs \union {Absent, Torn}
Live == [Servers -> Content]

ASSUME DnsmasqAssumption ==
  /\ Disabled \notin Enabled
  /\ Absent # Torn /\ {Absent, Torn} \cap Configs = {} /\ Stopped \notin Live
  /\ {MaxEdits, MaxMishaps} \subseteq Nat

VARIABLES
  db,         \* [Servers -> Configs]
  conf,       \* the files in dnsmasq.d
  loaded,     \* what dnsmasq read when it started, or Stopped
  current, previous,      \* [Servers -> the two files]
  server, op, at, n,      \* the operation that holds commit_lock, or the last one, and its place
  target, snap, backup,   \* its locals: text to install, snapshot with it, text that it replaces
  outcome,                \* what it returned
  orphans,                \* how many systemctl of dropped handlers run
  edits, mishaps,
  before, served, alone,  \* history: conf[server] and loaded when it began, and that no orphan ran
  mixed                   \* history: it may have left two files of different age side by side

sets == <<current, previous>>
locals == <<target, snap, backup>>
place == <<server, op, at, n>>
counts == <<edits, mishaps>>
history == <<before, served, alone, mixed>>
vars == <<db, conf, loaded, sets, place, locals, outcome, counts, orphans, history>>

Kinds == {"conf", "json"}
FileSet == [Kinds -> Content]
Commands == {"restart", "stop"}
NoOrphans == [c \in Commands |-> 0]
Points == {"idle", "check", "apply", "verify", "restore", "restart", "save", "sync", "resave"}

TypeOK ==
  /\ db \in [Servers -> Configs]
  /\ conf \in Live /\ loaded \in Live \union {Stopped}
  /\ current \in [Servers -> FileSet] /\ previous \in [Servers -> FileSet]
  /\ server \in Servers /\ op \in {"commit", "rollback"} /\ at \in Points /\ n \in 1..4
  /\ target \in Content /\ snap \in Content /\ backup \in Content
  /\ outcome \in {"none", "ok", "failed", "err"} /\ orphans \in [Commands -> Nat]
  /\ edits \in 0..MaxEdits /\ mishaps \in 0..MaxMishaps
  /\ before \in Content /\ served \in Live \union {Stopped} /\ alone \in BOOLEAN /\ mixed \in BOOLEAN

\* Nothing was ever committed; dnsmasq may have been started by systemd.
Init ==
  /\ db = [s \in Servers |-> Disabled]
  /\ conf = [s \in Servers |-> Absent]
  /\ loaded \in {Stopped, conf}
  /\ current = [s \in Servers |-> [k \in Kinds |-> Absent]] /\ previous = current
  /\ server = "dns" /\ op = "commit" /\ at = "idle" /\ n = 1
  /\ target = Absent /\ snap = Absent /\ backup = Absent
  /\ outcome = "none" /\ orphans = NoOrphans
  /\ edits = 0 /\ mishaps = 0
  /\ before = Absent /\ served = loaded /\ alone = TRUE /\ mixed = FALSE

Goto(p) == at' = p /\ n' = 1 /\ UNCHANGED <<server, op>>
Return(result) == Goto("idle") /\ outcome' = result /\ target' = Absent /\ snap' = Absent /\ backup' = Absent
Mishap == mishaps < MaxMishaps /\ mishaps' = mishaps + 1 /\ UNCHANGED edits

Edit(s, c) ==
  /\ edits < MaxEdits /\ edits' = edits + 1
  /\ db[s] # c /\ db' = [db EXCEPT ![s] = c]
  /\ UNCHANGED <<conf, loaded, sets, place, locals, outcome, mishaps, orphans, history>>

-----------------------------------------------------------------------------
(* An operation begins: it takes commit_lock and reads what it will install. *)

Begin(s, o, text, snapshot) ==
  /\ at = "idle" /\ at' = "check" /\ n' = 1
  /\ server' = s /\ op' = o
  /\ target' = text /\ snap' = snapshot /\ backup' = Absent
  /\ before' = conf[s] /\ served' = loaded /\ alone' = (orphans = NoOrphans)
  /\ outcome' = "none"
  /\ UNCHANGED <<db, conf, loaded, sets, counts, orphans, mixed>>

\* The snapshot is taken of what was rendered and not read a second time.
BeginCommit(s) == Begin(s, "commit", db[s], db[s])

BeginRollback(s) ==
  /\ previous[s]["conf"] # Absent /\ previous[s]["json"] \in Configs
  /\ Begin(s, "rollback", previous[s]["conf"], previous[s]["json"])

\* A missing interface, the WAN interface, an error of the database, an unreadable DHCP
\* snapshot, or dnsmasq --test says no.
Refuse ==
  /\ at = "check"
  /\ Return("err")
  /\ UNCHANGED <<db, conf, loaded, sets, counts, orphans, history>>

\* The old text is read, if it can be, and the live file overwritten in place.
WriteLive ==
  /\ at = "check"
  /\ \/ backup' = (IF op = "commit" THEN conf[server] ELSE Absent) /\ UNCHANGED counts
     \/ op = "commit" /\ backup' = Absent /\ Mishap
  /\ conf' = [conf EXCEPT ![server] = target]
  /\ Goto("apply")
  /\ UNCHANGED <<db, loaded, sets, target, snap, outcome, orphans, history>>

\* An error there is returned at once, whatever it did to the file.
WriteLiveFails ==
  /\ at = "check"
  /\ Mishap
  /\ conf' \in {conf, [conf EXCEPT ![server] = Torn]}
  /\ Return("err")
  /\ UNCHANGED <<db, loaded, sets, orphans, history>>

-----------------------------------------------------------------------------
(* apply_service: DNS always restarts dnsmasq, DHCP stops it when it is disabled. *)

Restarts(c) == server = "dns" \/ c \in Enabled
Stops(c) == server = "dhcp" /\ c \notin Enabled

Systemctl ==
  /\ at = "apply"
  /\ IF Restarts(snap)
     THEN loaded' = conf /\ Goto("verify")
     ELSE loaded' = Stopped /\ Goto(IF op = "commit" THEN "save" ELSE "sync")
  /\ UNCHANGED <<db, conf, sets, locals, outcome, counts, orphans, history>>

\* 700 ms later dnsmasq is still active.
StaysActive ==
  /\ at = "verify" /\ loaded # Stopped
  /\ Goto(IF op = "commit" THEN "save" ELSE "sync")
  /\ UNCHANGED <<db, conf, loaded, sets, locals, outcome, counts, orphans, history>>

\* A commit looks after a service that did not start, a rollback only reports it.
ApplyFailed ==
  IF op = "commit" THEN Goto("restore") /\ UNCHANGED <<locals, outcome>> ELSE Return("err")

\* dnsmasq rejects the two files together, or dies: a new configuration may always do that.
\* Or an orphan has stopped it.
ServiceFails ==
  /\ at \in {"apply", "verify"} /\ Restarts(snap)
  /\ loaded' = Stopped
  /\ IF op = "commit" \/ (at = "verify" /\ loaded = Stopped) THEN UNCHANGED counts ELSE Mishap
  /\ ApplyFailed
  /\ UNCHANGED <<db, conf, sets, orphans, history>>

\* systemctl does not run, or cannot stop the service; or an orphan is just restarting it.
SystemctlFails ==
  /\ at \in {"apply", "verify"}
  /\ Mishap \/ (at = "verify" /\ orphans # NoOrphans /\ UNCHANGED counts)
  /\ ApplyFailed
  /\ UNCHANGED <<db, conf, loaded, sets, orphans, history>>

\* The text that was replaced comes back, if there was one; errors are ignored.
Restore ==
  /\ at = "restore"
  /\ \/ /\ backup = Absent
        /\ Return("failed")
        /\ UNCHANGED <<conf, counts>>
     \/ /\ backup # Absent
        /\ \/ conf' = [conf EXCEPT ![server] = backup] /\ UNCHANGED counts
           \/ conf' \in {conf, [conf EXCEPT ![server] = Torn]} /\ Mishap
        /\ Goto("restart")
        /\ UNCHANGED <<locals, outcome>>
  /\ UNCHANGED <<db, loaded, sets, orphans, history>>

\* What a systemctl leaves, and which one the second apply_service runs: a file cut short may
\* or may not have a dhcp-range.
Served(command) == IF command = "restart" THEN conf ELSE Stopped
Reapplied ==
  (IF Restarts(backup) \/ backup = Torn THEN {"restart"} ELSE {}) \union (IF Stops(backup) THEN {"stop"} ELSE {})

\* Mutant of Restart: dnsmasq is not started again.
RestartNothing ==
  /\ at = "restart"
  /\ Return("failed")
  /\ UNCHANGED <<db, conf, loaded, sets, counts, orphans, history>>

Restart ==
  /\ at = "restart"
  /\ \/ (\E c \in Reapplied : loaded' = Served(c)) /\ UNCHANGED counts
     \/ loaded' \in {loaded, Stopped} /\ Mishap
  /\ Return("failed")
  /\ UNCHANGED <<db, conf, sets, orphans, history>>

-----------------------------------------------------------------------------
(* The files of config-history, after the service was applied. *)

Copy(from, to, kind) ==
  IF from[server][kind] = Absent THEN to ELSE [to EXCEPT ![server][kind] = from[server][kind]]

Put(to, kind, text) == [to EXCEPT ![server][kind] = text]

\* Mutant of SaveFile: current.* comes first.
SaveCurrentFirst ==
  /\ at = "save"
  /\ current' = (CASE n = 1 -> Put(current, "conf", target) [] n = 2 -> Put(current, "json", snap) [] OTHER -> current)
  /\ previous' = (CASE n = 3 -> Copy(current, previous, "conf") [] n = 4 -> Copy(current, previous, "json")
                    [] OTHER -> previous)
  /\ IF n < 4 THEN at' = at /\ n' = n + 1 /\ UNCHANGED <<server, op, locals, outcome>> ELSE Return("ok")
  /\ UNCHANGED <<db, conf, loaded, counts, orphans, history>>

\* A commit: current.* to previous.*, then the new text and snapshot to current.*.
SaveFile ==
  /\ at = "save"
  /\ previous' = (CASE n = 1 -> Copy(current, previous, "conf") [] n = 2 -> Copy(current, previous, "json")
                    [] OTHER -> previous)
  /\ current' = (CASE n = 3 -> Put(current, "conf", target) [] n = 4 -> Put(current, "json", snap) [] OTHER -> current)
  /\ IF n < 4 THEN at' = at /\ n' = n + 1 /\ UNCHANGED <<server, op, locals, outcome>> ELSE Return("ok")
  /\ UNCHANGED <<db, conf, loaded, counts, orphans, history>>

\* A rollback: replace_all, one transaction.
Sync ==
  /\ at = "sync"
  /\ db' = [db EXCEPT ![server] = snap]
  /\ Goto("resave")
  /\ UNCHANGED <<conf, loaded, sets, locals, outcome, counts, orphans, history>>

SyncFails ==
  /\ at = "sync"
  /\ Mishap
  /\ Return("err")
  /\ UNCHANGED <<db, conf, loaded, sets, orphans, history>>

\* Mutant of ResaveFile: the rendered file stays.
ResaveSnapshot ==
  /\ at = "resave"
  /\ current' = (IF n = 1 THEN current ELSE Copy(previous, current, "json"))
  /\ IF n < 2 THEN at' = at /\ n' = n + 1 /\ UNCHANGED <<server, op, locals, outcome>> ELSE Return("ok")
  /\ UNCHANGED <<db, conf, loaded, previous, counts, orphans, history>>

\* And previous.* to current.*.
ResaveFile ==
  /\ at = "resave"
  /\ current' = Copy(previous, current, IF n = 1 THEN "conf" ELSE "json")
  /\ IF n < 2 THEN at' = at /\ n' = n + 1 /\ UNCHANGED <<server, op, locals, outcome>> ELSE Return("ok")
  /\ UNCHANGED <<db, conf, loaded, previous, counts, orphans, history>>

-----------------------------------------------------------------------------
(* Failures *)

Kind == IF n \in {1, 3} THEN "conf" ELSE "json"

\* The file being written is untouched or cut short.
Damage ==
  \/ UNCHANGED sets
  \/ at = "save" /\ n \in {1, 2} /\ current[server][Kind] # Absent
     /\ previous' = Put(previous, Kind, Torn) /\ UNCHANGED current
  \/ (at = "resave" \/ n \in {3, 4}) /\ current' = Put(current, Kind, Torn) /\ UNCHANGED previous

Interrupted ==
  IF at \in {"save", "resave"} THEN Damage /\ mixed' = (mixed \/ n \in {2, 4}) ELSE UNCHANGED <<sets, mixed>>

WriteFails ==
  /\ at \in {"save", "resave"}
  /\ Mishap
  /\ Interrupted
  /\ Return("err")
  /\ UNCHANGED <<db, conf, loaded, orphans, before, served, alone>>

\* systemctl goes on without the handler that waited for it.
Running ==
  CASE at = "apply" -> IF Restarts(snap) THEN {"restart"} ELSE {"stop"}
    [] at = "restart" -> Reapplied
    [] OTHER -> {}
Orphaned ==
  \/ Running = {} /\ UNCHANGED orphans
  \/ \E c \in Running : orphans' = [orphans EXCEPT ![c] = @ + 1]

\* The client goes away: the handler is dropped where it waits for the database or for a
\* command, or after the transaction it waited for.
Cancel ==
  /\ Mishap
  /\ at \in {"check", "apply", "verify", "restart", "sync"} \/ (at = "resave" /\ n = 1)
  /\ Orphaned
  /\ Return("none")
  /\ UNCHANGED <<db, conf, loaded, sets, history>>

\* An orphan acts, during whatever runs by then: dnsmasq reads the files of that time.  Or it
\* fails, or dnsmasq does.
OrphanEnds(c) ==
  /\ orphans[c] > 0 /\ orphans' = [orphans EXCEPT ![c] = @ - 1]
  /\ loaded' \in {Served(c), loaded, Stopped}
  /\ UNCHANGED <<db, conf, sets, place, locals, outcome, counts, history>>

\* A crash of the service, or of the machine, after which systemd may start dnsmasq.
Crash ==
  /\ Mishap
  /\ Interrupted
  /\ conf' \in (IF at \in {"check", "restore"} THEN {conf, [conf EXCEPT ![server] = Torn]} ELSE {conf})
  /\ \/ Orphaned /\ UNCHANGED loaded
     \/ orphans' = NoOrphans /\ loaded' \in {Stopped, conf'}
  /\ Return("none")
  /\ UNCHANGED <<db, before, served, alone>>

Next ==
  \/ \E s \in Servers, c \in Configs : Edit(s, c)
  \/ \E s \in Servers : BeginCommit(s) \/ BeginRollback(s)
  \/ Refuse \/ WriteLive \/ WriteLiveFails
  \/ Systemctl \/ StaysActive \/ ServiceFails \/ SystemctlFails \/ Restore \/ Restart
  \/ SaveFile \/ Sync \/ SyncFails \/ ResaveFile
  \/ WriteFails \/ Cancel \/ (\E c \in Commands : OrphanEnds(c)) \/ Crash

Spec == Init /\ [][Next]_vars
-----------------------------------------------------------------------------
(* Properties *)

Undisturbed == mishaps = 0
Done(result) == at = "idle" /\ outcome = result

\* An operation that reported success left the file that is on disk in current.*, with the
\* snapshot of an enabled or disabled configuration beside it, and dnsmasq in the state that
\* configuration asks for.  An orphan may have stopped or started dnsmasq behind its back,
\* but never on an older file.
SuccessIsLive ==
  Done("ok") =>
    /\ current[server]["conf"] = conf[server] /\ current[server]["json"] \in Configs
    /\ loaded \in {conf, Stopped}
    /\ alone => loaded = IF Restarts(current[server]["json"]) THEN conf ELSE Stopped

\* The rendered file and the snapshot of each pair are of the same configuration, unless
\* an error or a crash fell between the two: a rollback restores both or neither.
Coherent(h) == h["conf"] \in Configs => h["json"] = h["conf"]
HistoryCoherent ==
  ~mixed => \A s \in Servers :
    /\ s # server \/ <<at, n>> # <<"save", 2>> => Coherent(previous[s])
    /\ s # server \/ <<at, n>> \notin {<<"save", 4>>, <<"resave", 2>>} => Coherent(current[s])

\* After a successful commit a rollback leads to what was live when it began, also if
\* commits failed and were undone in between.
UndoReachesLive ==
  Done("ok") /\ op = "commit" /\ Undisturbed /\ previous[server]["conf"] # Absent =>
    previous[server] = [k \in Kinds |-> before]

\* A commit that failed to start dnsmasq put the file back, if there was one, and DNS
\* runs on it again: the message "previous configuration restored" is true.
FailureRestores ==
  Done("failed") /\ Undisturbed /\ before # Absent =>
    conf[server] = before /\ (server = "dns" => loaded = conf)

\* As long as nothing but configurations fails, the live file of a server is the one
\* that current.* has (after the first success), and dnsmasq runs on the live files.
LiveIsCurrent ==
  at = "idle" /\ Undisturbed =>
    /\ \A s \in Servers : current[s]["conf"] \in {Absent, conf[s]}
    /\ loaded \in {Stopped, conf}

\* "Applying DHCP configuration failed, previous configuration restored": DNS, which
\* dnsmasq served before the attempt, is served again.
DhcpFailureKeepsDns ==
  Done("failed") /\ server = "dhcp" /\ Undisturbed /\ before # Absent =>
    (served # Stopped /\ served["dns"] \in Enabled => loaded = served)
=============================================================================
