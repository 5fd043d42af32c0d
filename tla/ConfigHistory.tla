---------------------------- MODULE ConfigHistory ----------------------------
(***************************************************************************)
(* What src/iqsoft-firewall/src/firewall/commit.rs promises about three    *)
(* rulesets, whatever files and tables it keeps beside them:               *)
(*   live      the ruleset loaded in the kernel                            *)
(*   saved     config-history/current.nft, loaded again on boot            *)
(*   previous  config-history/previous.nft, the target of a rollback       *)
(* phase is how far the one operation that holds commit_lock has come.     *)
(* FirewallCommit implements this module; SafeCommit is built on it.       *)
(***************************************************************************)
CONSTANTS
  Configs,   \* the complete rulesets the generator can produce
  NoConfig,  \* no such file, or an empty kernel ruleset
  Torn       \* a ruleset file that a crash or a full disk cut short

ASSUME ValuesAssumption == NoConfig \notin Configs /\ Torn \notin Configs /\ NoConfig # Torn

VARIABLES live, saved, previous, phase

historyVars == <<live, saved, previous, phase>>

Files == Configs \union {NoConfig, Torn}
Phases == {"idle", "backedUp", "applied", "saved", "restored", "resaved"}

HistoryTypeOK ==
  /\ live \in Files
  /\ saved \in Files
  /\ previous \in Files
  /\ phase \in Phases

\* A machine that never committed, or one whose last operation succeeded.
HistoryInit ==
  /\ saved \in Configs \union {NoConfig}
  /\ live = saved
  /\ previous \in IF saved = NoConfig THEN {NoConfig} ELSE Configs \union {NoConfig}
  /\ phase = "idle"

\* What nft -f leaves in the kernel: a file cut short is an empty script, which
\* changes nothing, or the first part of a ruleset.
Loaded(file) == IF file = Torn THEN {live, Torn} ELSE {file}

Step(from, to) == phase = from /\ phase' = to

\* FirewallCommit::commit. The check passed: current.nft, if there is one, is copied away.
Backup ==
  /\ Step("idle", "backedUp")
  /\ previous' = IF saved = NoConfig THEN previous ELSE saved
  /\ UNCHANGED <<live, saved>>

Apply(c) ==
  /\ Step("backedUp", "applied")
  /\ live' = c
  /\ UNCHANGED <<saved, previous>>

Save ==
  /\ Step("applied", "saved")
  /\ saved' = live
  /\ UNCHANGED <<live, previous>>

\* FirewallCommit::rollback: first the kernel, then (after the database) the files.
Restore ==
  /\ Step("idle", "restored")
  /\ previous # NoConfig
  /\ live' \in Loaded(previous)
  /\ UNCHANGED <<saved, previous>>

Resave ==
  /\ Step("restored", "resaved")
  /\ saved' = previous
  /\ UNCHANGED <<live, previous>>

\* The operation returns Ok.
Finish ==
  /\ phase \in {"saved", "resaved"}
  /\ phase' = "idle"
  /\ UNCHANGED <<live, saved, previous>>

\* The operation returns Err, is dropped with its request, or the service dies.
GiveUp ==
  /\ phase' = "idle"
  /\ UNCHANGED <<live, saved, previous>>

\* The same, in the middle of writing one of the two ruleset files.
TearBackup ==
  /\ phase = "idle"
  /\ saved # NoConfig
  /\ previous' = Torn
  /\ UNCHANGED <<live, saved, phase>>

TearSave ==
  /\ phase \in {"applied", "restored"}
  /\ phase' = "idle"
  /\ saved' = Torn
  /\ UNCHANGED <<live, previous>>

PowerLoss ==
  /\ live' = NoConfig
  /\ phase' = "idle"
  /\ UNCHANGED <<saved, previous>>

\* FirewallCommit::restore_on_boot, when nft accepts the saved file.
BootRestore ==
  /\ phase = "idle"
  /\ saved # NoConfig
  /\ live' \in Loaded(saved)
  /\ UNCHANGED <<saved, previous, phase>>

HistoryNext ==
  \/ Backup
  \/ \E c \in Configs : Apply(c)
  \/ Save
  \/ Restore
  \/ Resave
  \/ Finish
  \/ GiveUp
  \/ TearBackup
  \/ TearSave
  \/ PowerLoss
  \/ BootRestore

HistorySpec == HistoryInit /\ [][HistoryNext]_historyVars
=============================================================================
