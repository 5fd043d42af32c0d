------------------------------ MODULE SafeCommit ------------------------------
(***************************************************************************)
(* The confirmation window of src/iqsoft-firewall/src/firewall/            *)
(* safe_commit.rs: a commit with confirm_within is rolled back unless it   *)
(* is confirmed in time, across restarts.                                  *)
(*                                                                         *)
(* Tasks are the HTTP handlers (Requests), the expire task that won the    *)
(* race for its window (Timer) and main before it serves (Boot).  They     *)
(* share two tokio mutexes, SafeCommit.pending and AppState.commit_lock;   *)
(* what FirewallCommit does under them is ConfigHistory, one step per      *)
(* write of a ruleset.  Time is abstracted: a timer may fire at any time,  *)
(* and a restart may find any part of the window left.                     *)
(***************************************************************************)
EXTENDS ConfigHistory, Naturals

CONSTANTS
  Requests,    \* HTTP requests that can be in flight together
  Timer, Boot, \* the other two tasks
  Other,       \* a DNS, DHCP, route or WireGuard commit: takes commit_lock only
  NoTask,
  MaxWindows,  \* bound: guarded commits between two restarts
  MaxFaults,   \* bound: failures of nft, of the database or of a file operation
  MaxDrops,    \* bound: clients that disconnect
  MaxRestarts  \* bound: crashes

ASSUME TasksAssumption ==
  /\ Timer # Boot /\ Other # NoTask
  /\ {Timer, Boot} \cap Requests = {} /\ {Other, NoTask} \cap (Requests \union {Timer, Boot}) = {}
ASSUME BoundsAssumption == {MaxWindows, MaxFaults, MaxDrops, MaxRestarts} \subseteq Nat

VARIABLES
  pc,           \* [Tasks -> Points]
  guarded,      \* [Requests -> BOOLEAN], the commit of this request has confirm_within
  pendingLock,  \* holder of SafeCommit.pending
  commitLock,   \* holder of AppState.commit_lock
  pending,      \* id of the pending window, 0 for None
  counter,      \* SafeCommit.counter
  armed,        \* ids of the expire tasks that sleep or wait for the mutex
  pendingFile,  \* config-history/pending-confirm.txt exists
  faults, drops, restarts,
  base,         \* history: what was live before the last commit, if current.nft had it
  promise,      \* history: what the administrator was last told of that commit
  interrupted   \* history: a crash or a disconnect cut a rollback short since then

locks == <<pendingLock, commitLock>>
windowVars == <<pending, counter, armed, pendingFile>>
counts == <<faults, drops, restarts>>
history == <<base, promise, interrupted>>
vars == <<historyVars, pc, guarded, locks, windowVars, counts, history>>

Tasks == Requests \union {Timer, Boot}
Points == {"idle", "commit", "commitWait", "commitRun", "open", "arm", "confirm", "confirmClear",
           "rollback", "clear", "rollbackWait", "rollbackRun", "restore", "recover"}

TypeOK ==
  /\ HistoryTypeOK
  /\ pc \in [Tasks -> Points] /\ guarded \in [Requests -> BOOLEAN]
  /\ pendingLock \in Tasks \union {NoTask} /\ commitLock \in Tasks \union {Other, NoTask}
  /\ pending \in Nat /\ counter \in Nat /\ armed \subseteq Nat /\ pendingFile \in BOOLEAN
  /\ faults \in 0..MaxFaults /\ drops \in 0..MaxDrops /\ restarts \in 0..MaxRestarts
  /\ base \in Files /\ promise \in {"none", "rollback", "confirmed"} /\ interrupted \in BOOLEAN

\* SafeCommit::new on a machine without an unconfirmed commit.
Init ==
  /\ HistoryInit
  /\ pc = [t \in Tasks |-> "idle"] /\ guarded = [r \in Requests |-> FALSE]
  /\ pendingLock = NoTask /\ commitLock = NoTask
  /\ pending = 0 /\ counter = 0 /\ armed = {} /\ pendingFile = FALSE
  /\ faults = 0 /\ drops = 0 /\ restarts = 0
  /\ base = live /\ promise = "none" /\ interrupted = FALSE

Up == pc[Boot] = "idle"
At(t, p) == pc[t] = p
Goto(t, p) == pc' = [pc EXCEPT ![t] = p]
Move(t, p, q) == At(t, p) /\ Goto(t, q)
Fault == faults < MaxFaults /\ faults' = faults + 1 /\ UNCHANGED <<drops, restarts>>

RollingBack(t) == pc[t] \in {"clear", "rollbackWait", "rollbackRun"}

\* A task returns: its guards are dropped with it.
Leave(t) ==
  /\ Goto(t, "idle")
  /\ guarded' = [r \in Requests |-> r # t /\ guarded[r]]
  /\ pendingLock' = IF pendingLock = t THEN NoTask ELSE pendingLock
  /\ commitLock' = IF commitLock = t THEN NoTask ELSE commitLock

-----------------------------------------------------------------------------
(* Requests arrive. confirm_within outside 10..600 is refused at once. *)

Request(r, p) ==
  /\ Up /\ Move(r, "idle", p)
  /\ UNCHANGED <<historyVars, locks, windowVars, counts, history>>

RequestCommit(r, g) ==
  /\ g => counter < MaxWindows
  /\ Request(r, "commit")
  /\ guarded' = [guarded EXCEPT ![r] = g]

RequestConfirm(r) == Request(r, "confirm") /\ UNCHANGED guarded
RequestRollback(r) == Request(r, "rollback") /\ UNCHANGED guarded

-----------------------------------------------------------------------------
(* SafeCommit::commit *)

CommitEnter(r) ==
  /\ At(r, "commit") /\ pendingLock = NoTask
  /\ pending = 0
  /\ Goto(r, "commitWait") /\ pendingLock' = r
  /\ UNCHANGED <<historyVars, guarded, commitLock, windowVars, counts, history>>

CommitRefused(r) ==
  /\ At(r, "commit") /\ pendingLock = NoTask
  /\ pending # 0
  /\ Leave(r)
  /\ UNCHANGED <<historyVars, windowVars, counts, history>>

\* FirewallCommit::commit or rollback gets commit_lock.
CommitLock(t, p, q) ==
  /\ Move(t, p, q)
  /\ commitLock = NoTask /\ commitLock' = t
  /\ UNCHANGED <<historyVars, guarded, pendingLock, windowVars, counts, history>>

\* Mutant of CommitBackup: previous.nft is not written.
CommitWithoutBackup(r) ==
  /\ At(r, "commitRun") /\ Step("idle", "backedUp")
  /\ UNCHANGED <<live, saved, previous, pc, guarded, locks, windowVars, counts, history>>

CommitBackup(r) ==
  /\ At(r, "commitRun") /\ Backup
  /\ UNCHANGED <<pc, guarded, locks, windowVars, counts, history>>

CommitApply(r) ==
  /\ At(r, "commitRun") /\ \E c \in Configs : Apply(c)
  /\ base' = (IF saved = live THEN live ELSE NoConfig) /\ promise' = "none"
  /\ UNCHANGED <<pc, guarded, locks, windowVars, counts, interrupted>>

CommitSave(r) ==
  /\ At(r, "commitRun") /\ Save
  /\ UNCHANGED <<pc, guarded, locks, windowVars, counts, history>>

\* Ok without a window, or on to the window with commit_lock released.
CommitDone(r) ==
  /\ At(r, "commitRun") /\ phase = "saved" /\ Finish
  /\ IF guarded[r]
     THEN Goto(r, "open") /\ commitLock' = NoTask /\ counter' = counter + 1
          /\ UNCHANGED <<guarded, pendingLock>>
     ELSE Leave(r) /\ UNCHANGED counter
  /\ UNCHANGED <<pending, armed, pendingFile, counts, history>>

\* Mutant of CommitFails: the early return leaves SafeCommit.pending locked.
CommitFailsLocked(r) ==
  /\ At(r, "commitRun")
  /\ \/ GiveUp /\ (IF phase = "idle" THEN UNCHANGED counts ELSE Fault)
     \/ (TearBackup \/ TearSave) /\ Fault
  /\ Goto(r, "idle") /\ commitLock' = NoTask
  /\ UNCHANGED <<guarded, pendingLock, windowVars, history>>

\* Err before anything is written needs no fault: the new ruleset may be invalid.
CommitFails(r) ==
  /\ At(r, "commitRun")
  /\ \/ GiveUp /\ (IF phase = "idle" THEN UNCHANGED counts ELSE Fault)
     \/ (TearBackup \/ TearSave) /\ Fault
  /\ Leave(r)
  /\ UNCHANGED <<windowVars, history>>

\* write_pending_file: temporary file and rename; an error is only a warning.
WritePendingFile(r) ==
  /\ Move(r, "open", "arm")
  /\ \/ pendingFile' = TRUE /\ UNCHANGED counts
     \/ Fault /\ UNCHANGED pendingFile
  /\ UNCHANGED <<historyVars, guarded, locks, pending, counter, armed, history>>

\* The window is set, the mutex released, the expire task spawned and the client told.
Arm(r) ==
  /\ At(r, "arm")
  /\ pending' = counter /\ armed' = armed \union {counter}
  /\ promise' = "rollback" /\ interrupted' = FALSE
  /\ Leave(r)
  /\ UNCHANGED <<historyVars, counter, pendingFile, counts, base>>

-----------------------------------------------------------------------------
(* SafeCommit::confirm *)

ConfirmEnter(r) ==
  /\ At(r, "confirm") /\ pendingLock = NoTask
  /\ IF pending = 0
     THEN Leave(r) /\ UNCHANGED pending
     ELSE Goto(r, "confirmClear") /\ pendingLock' = r /\ pending' = 0 /\ UNCHANGED <<guarded, commitLock>>
  /\ UNCHANGED <<historyVars, counter, armed, pendingFile, counts, history>>

\* clear_pending_file: an error is only logged.
RemovePendingFile ==
  \/ pendingFile' = FALSE /\ UNCHANGED counts
  \/ pendingFile /\ Fault /\ UNCHANGED pendingFile

\* Mutant of ConfirmClear: pending-confirm.txt stays.
ConfirmKeepsFile(r) ==
  /\ At(r, "confirmClear")
  /\ promise' = "confirmed"
  /\ Leave(r)
  /\ UNCHANGED <<historyVars, windowVars, counts, base, interrupted>>

ConfirmClear(r) ==
  /\ At(r, "confirmClear")
  /\ RemovePendingFile
  /\ promise' = "confirmed"
  /\ Leave(r)
  /\ UNCHANGED <<historyVars, pending, counter, armed, base, interrupted>>

-----------------------------------------------------------------------------
(* SafeCommit::rollback, and expire, which ends the same way *)

RollbackEnter(r) ==
  /\ Move(r, "rollback", "clear")
  /\ pendingLock = NoTask /\ pendingLock' = r
  /\ pending' = 0
  /\ UNCHANGED <<historyVars, guarded, commitLock, counter, armed, pendingFile, counts, history>>

\* Mutant of Expire: is_current is not looked at.
ExpireAlways(id) ==
  /\ id \in armed /\ pendingLock = NoTask
  /\ armed' = armed \ {id}
  /\ Move(Timer, "idle", "clear") /\ pendingLock' = Timer /\ pending' = 0
  /\ UNCHANGED <<historyVars, guarded, commitLock, counter, pendingFile, counts, history>>

\* A timer whose window was confirmed, rolled back or replaced does nothing.
Expire(id) ==
  /\ id \in armed /\ pendingLock = NoTask
  /\ armed' = armed \ {id}
  /\ IF pending = id
     THEN Move(Timer, "idle", "clear") /\ pendingLock' = Timer /\ pending' = 0
     ELSE UNCHANGED <<pc, pendingLock, pending>>
  /\ UNCHANGED <<historyVars, guarded, commitLock, counter, pendingFile, counts, history>>

\* Mutant of Clear: pending-confirm.txt stays.
ClearKeepsFile(t) ==
  /\ Move(t, "clear", "rollbackWait")
  /\ UNCHANGED <<historyVars, guarded, locks, windowVars, counts, history>>

Clear(t) ==
  /\ Move(t, "clear", "rollbackWait")
  /\ RemovePendingFile
  /\ UNCHANGED <<historyVars, guarded, locks, pending, counter, armed, history>>

RollbackRestore(t) ==
  /\ At(t, "rollbackRun") /\ Restore
  /\ UNCHANGED <<pc, guarded, locks, windowVars, counts, history>>

RollbackResave(t) ==
  /\ At(t, "rollbackRun") /\ Resave
  /\ UNCHANGED <<pc, guarded, locks, windowVars, counts, history>>

\* The administrator who asked for a rollback knows how it ended; of an automatic
\* one there is only a line in the log.
Told(t) == promise' = (IF t \in Requests THEN "none" ELSE promise) /\ UNCHANGED <<base, interrupted>>

RollbackDone(t) ==
  /\ At(t, "rollbackRun") /\ phase = "resaved" /\ Finish
  /\ Leave(t) /\ Told(t)
  /\ UNCHANGED <<windowVars, counts>>

RollbackFails(t) ==
  /\ At(t, "rollbackRun")
  /\ \/ GiveUp /\ (IF phase = "idle" /\ previous \in {NoConfig, Torn} THEN UNCHANGED counts ELSE Fault)
     \/ TearSave /\ Fault
  /\ Leave(t) /\ Told(t)
  /\ UNCHANGED windowVars

-----------------------------------------------------------------------------
(* The rest of the system *)

\* axum drops the handler of a client that went away, at the await it has reached.
Disconnect(r) ==
  /\ drops < MaxDrops /\ drops' = drops + 1
  /\ \/ pc[r] \in {"commit", "commitWait", "confirm", "rollback", "rollbackWait"}
     \/ At(r, "commitRun") /\ phase = "idle"
     \/ At(r, "rollbackRun") /\ phase = "restored"
  /\ IF commitLock = r THEN GiveUp ELSE UNCHANGED historyVars
  /\ Leave(r)
  /\ interrupted' = (interrupted \/ RollingBack(r))
  /\ UNCHANGED <<windowVars, faults, restarts, base, promise>>

OtherLock ==
  /\ Up /\ commitLock = NoTask /\ commitLock' = Other
  /\ UNCHANGED <<historyVars, pc, guarded, pendingLock, windowVars, counts, history>>

OtherUnlock ==
  /\ commitLock = Other /\ commitLock' = NoTask
  /\ UNCHANGED <<historyVars, pc, guarded, pendingLock, windowVars, counts, history>>

\* The process dies, possibly in the middle of writing a ruleset file.
Crash ==
  /\ restarts < MaxRestarts /\ restarts' = restarts + 1
  /\ GiveUp \/ TearSave \/ (TearBackup /\ \E r \in Requests : At(r, "commitRun"))
  /\ pc' = [t \in Tasks |-> IF t = Boot THEN "restore" ELSE "idle"]
  /\ guarded' = [r \in Requests |-> FALSE]
  /\ pendingLock' = NoTask /\ commitLock' = NoTask
  /\ pending' = 0 /\ counter' = 0 /\ armed' = {}
  /\ interrupted' = (interrupted \/ \E t \in Tasks : RollingBack(t))
  /\ UNCHANGED <<pendingFile, faults, drops, base, promise>>

\* The whole machine went down, not only the service.
PowerCycle ==
  /\ At(Boot, "restore") /\ PowerLoss
  /\ UNCHANGED <<pc, guarded, locks, windowVars, counts, history>>

\* main: FirewallCommit::restore_on_boot, whose failure is only logged.
RestoreOnBoot ==
  /\ Move(Boot, "restore", "recover")
  /\ \/ BootRestore /\ UNCHANGED counts
     \/ UNCHANGED historyVars /\ (IF saved \in {NoConfig, Torn} THEN UNCHANGED counts ELSE Fault)
  /\ UNCHANGED <<guarded, locks, windowVars, history>>

\* main: SafeCommit::recover_on_boot, before the first request is served.
RecoverNothing ==
  /\ Move(Boot, "recover", "idle") /\ ~pendingFile
  /\ UNCHANGED <<historyVars, guarded, locks, windowVars, counts, history>>

RecoverExpired ==
  /\ Move(Boot, "recover", "clear") /\ pendingFile
  /\ UNCHANGED <<historyVars, guarded, locks, windowVars, counts, history>>

\* Mutant of RecoverWindow: no expire task.
RecoverWithoutTimer ==
  /\ Move(Boot, "recover", "idle") /\ pendingFile
  /\ counter' = counter + 1 /\ pending' = counter'
  /\ UNCHANGED <<historyVars, guarded, locks, armed, pendingFile, counts, history>>

RecoverWindow ==
  /\ Move(Boot, "recover", "idle") /\ pendingFile
  /\ counter' = counter + 1 /\ pending' = counter' /\ armed' = armed \union {counter'}
  /\ UNCHANGED <<historyVars, guarded, locks, pendingFile, counts, history>>

-----------------------------------------------------------------------------

CommitStep(r) ==
  \/ CommitBackup(r) \/ CommitApply(r) \/ CommitSave(r) \/ CommitDone(r)
  \/ WritePendingFile(r) \/ Arm(r) \/ ConfirmClear(r)
RollbackStep(t) == Clear(t) \/ RollbackRestore(t) \/ RollbackResave(t) \/ RollbackDone(t) \/ RollbackFails(t)
BootStep == RestoreOnBoot \/ RecoverNothing \/ RecoverExpired \/ RecoverWindow
Enter(r) == CommitEnter(r) \/ CommitRefused(r) \/ ConfirmEnter(r) \/ RollbackEnter(r)
WaitCommit(r) == CommitLock(r, "commitWait", "commitRun")
WaitRollback(t) == CommitLock(t, "rollbackWait", "rollbackRun")

Next ==
  \/ \E r \in Requests :
       \/ \E g \in BOOLEAN : RequestCommit(r, g)
       \/ RequestConfirm(r) \/ RequestRollback(r)
       \/ Enter(r) \/ WaitCommit(r) \/ CommitStep(r) \/ CommitFails(r) \/ Disconnect(r)
  \/ \E t \in Tasks : WaitRollback(t) \/ RollbackStep(t)
  \/ \E id \in armed : Expire(id)
  \/ OtherLock \/ OtherUnlock
  \/ Crash \/ PowerCycle \/ BootStep

Spec == Init /\ [][Next]_vars

\* Threads run, timers fire, nft and sqlite answer (weak fairness); tokio's mutexes are
\* first come, first served, so a task that waits for one gets it (strong fairness).
\* Nobody has to send a request, and no error has to happen.
Fairness ==
  /\ \A r \in Requests : /\ SF_vars(Enter(r) \/ WaitCommit(r) \/ WaitRollback(r))
                         /\ WF_vars(CommitStep(r) \/ RollbackStep(r))
  /\ SF_vars(\E id \in armed : Expire(id))
  /\ \A t \in {Timer, Boot} : SF_vars(WaitRollback(t))
  /\ WF_vars(RollbackStep(Timer)) /\ WF_vars(RollbackStep(Boot) \/ BootStep)
  /\ WF_vars(OtherUnlock)

FairSpec == Spec /\ Fairness
-----------------------------------------------------------------------------
(* Properties *)

\* A pending window always has its own expire task: otherwise nothing would ever
\* close it, and every commit would be refused from then on.
TimerOwnsPending == pending # 0 => pending \in armed /\ pending = counter

\* Memory and disk agree on whether a window is open whenever nobody is in the middle
\* of changing it (as long as no file operation failed): a restart neither forgets an
\* unconfirmed commit nor rolls back a confirmed one.
PendingDurable == faults = 0 /\ Up /\ pendingLock = NoTask => (pending # 0 <=> pendingFile)

\* While a window is open nothing touches a ruleset: the rollback goes back to what
\* was live before this commit and not to something a later operation left there.
WindowFrozen == [][pending # 0 /\ pending' # 0 => UNCHANGED historyVars]_vars

\* A commit whose confirmation was answered is never rolled back automatically, not
\* by a timer that fired late and not by a restart, as long as no file operation failed.
ConfirmedSticks == promise = "confirmed" /\ faults = 0 => \A t \in {Timer, Boot} : ~RollingBack(t)

\* A commit that was answered with "Automatic rollback in N seconds unless confirmed"
\* is confirmed, or its window is open, or it is being rolled back, or what was live
\* before it is live again. Restarts do not change that, except one that cuts the
\* rollback itself short, or one that had torn current.nft before the commit began.
Honoured == pending # 0 \/ pendingFile \/ ~Up \/ (\E t \in Tasks : RollingBack(t)) \/ live = base
Promised == promise = "rollback" /\ base \in Configs
PromiseKept == Promised /\ ~interrupted /\ faults = 0 => Honoured

\* Every window ends, and the promise of the one before it with it.
WindowCloses == pendingFile ~> ~pendingFile
PromiseResolved == Promised ~> promise # "rollback" \/ live = base \/ interrupted

\* No request waits for a mutex for ever.
Answered == \A r \in Requests : pc[r] # "idle" ~> pc[r] = "idle"

\* The window of the abstract specification, from the file and the tasks.
Window ==
  IF pendingFile \/ pending # 0 THEN "open"
  ELSE IF \E t \in Tasks : pc[t] \in {"rollbackWait", "rollbackRun"} THEN "ending" ELSE "closed"

W == INSTANCE ConfirmWindow WITH window <- Window

ImplementsWindow == W!WindowSpec

-----------------------------------------------------------------------------
(* What the code tells the administrator, and does not always do. *)

\* "Automatic rollback in {} seconds unless confirmed", even if the rollback is cut short.
PromiseSurvives == Promised => Honoured

\* The same, even if there was nothing to go back to.
FirstPromiseKept == promise = "rollback" => Honoured
=============================================================================
