---------------------------- MODULE ConfirmWindow ----------------------------
(***************************************************************************)
(* What POST /api/commit?confirm_within=N promises the administrator, with *)
(* no tasks, locks, timers or files: while the window is open no operation *)
(* touches a ruleset, so the rollback target stays the one the window was  *)
(* opened over; only a confirmation or the beginning of a rollback closes  *)
(* it; and it is still open after a restart of the service or the machine. *)
(* SafeCommit implements this module.                                      *)
(***************************************************************************)
EXTENDS ConfigHistory

VARIABLE window   \* "closed", "open", or "ending" while a rollback is under way

windowVars == <<historyVars, window>>

Stays(w) == window = w /\ window' = w
Turns(from, to) == window = from /\ window' = to

Boots == PowerLoss \/ BootRestore

\* Commits, and whatever interrupts them.
Working ==
  /\ Stays("closed")
  /\ \/ Backup \/ (\E c \in Configs : Apply(c)) \/ Save \/ (phase = "saved" /\ Finish)
     \/ GiveUp \/ TearBackup \/ TearSave
     \/ Boots

Open == Turns("closed", "open") /\ phase = "idle" /\ UNCHANGED historyVars

Waiting == Stays("open") /\ phase = "idle" /\ Boots

Confirm == Turns("open", "closed") /\ UNCHANGED historyVars

\* The time is over, or the administrator asks for a rollback, with or without a window.
End == (Turns("open", "ending") \/ Turns("closed", "ending")) /\ UNCHANGED historyVars

RollingBack == Stays("ending") /\ (Restore \/ Resave)

\* The rollback is complete, failed, or was cut short by a crash or a cancelled request.
Ended == Turns("ending", "closed") /\ ((phase = "resaved" /\ Finish) \/ GiveUp \/ TearSave)

WindowNext == Working \/ Open \/ Waiting \/ Confirm \/ End \/ RollingBack \/ Ended

WindowSpec ==
  /\ HistoryInit /\ window = "closed"
  /\ [][WindowNext]_windowVars
=============================================================================
