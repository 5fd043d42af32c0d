--------------------------- MODULE SafeCommitProofs ---------------------------
(***************************************************************************)
(* Proofs about SafeCommit, for any number of requests and any bounds.     *)
(***************************************************************************)
EXTENDS SafeCommit, TLAPS

CommitPoints == {"commitWait", "commitRun", "open", "arm"}
RollbackPoints == {"clear", "rollbackWait", "rollbackRun"}

\* Which points each task can be at.
PointsInv ==
  /\ \A r \in Requests : pc[r] \notin {"restore", "recover"}
  /\ pc[Timer] \in {"idle"} \union RollbackPoints
  /\ pc[Boot] \in {"idle", "restore", "recover"} \union RollbackPoints
  /\ ~Up => \A t \in Tasks \ {Boot} : pc[t] = "idle"

\* Who holds which mutex. Boot rolls back without SafeCommit.pending.
LockInv ==
  /\ \A t \in Tasks \ {Boot} :
       pc[t] \in CommitPoints \union RollbackPoints \union {"confirmClear"} <=> pendingLock = t
  /\ pendingLock # Boot
  /\ \A t \in Tasks : pc[t] \in {"commitRun", "rollbackRun"} <=> commitLock = t

\* A pending window means that nobody is inside SafeCommit, and that its timer lives.
WindowInv ==
  /\ pending # 0 => pendingLock = NoTask /\ Up /\ pending \in armed /\ pending = counter
  /\ ~Up => pending = 0
  /\ \A r \in Requests : pc[r] \in {"open", "arm"} => counter # 0
  /\ 0 \notin armed

\* Where the file is, task by task, as long as no file operation failed.
FileInv ==
  faults = 0 =>
    /\ Up /\ pendingLock = NoTask => (pending # 0 <=> pendingFile)
    /\ \A r \in Requests : pc[r] \in {"commitWait", "commitRun", "open"} => ~pendingFile
    /\ \A r \in Requests : pc[r] \in {"arm", "confirmClear"} => pendingFile
    /\ \A t \in Tasks : pc[t] \in {"rollbackWait", "rollbackRun"} => ~pendingFile

\* The phase of the ruleset files belongs to the holder of commit_lock.
PhaseInv ==
  /\ commitLock \notin Tasks => phase = "idle"
  /\ \A r \in Requests : pc[r] = "commitRun" => phase \in {"idle", "backedUp", "applied", "saved"}
  /\ \A t \in Tasks : pc[t] = "rollbackRun" => phase \in {"idle", "restored", "resaved"}

\* A confirmation stands until the next commit is applied.
PromiseInv ==
  /\ \A r \in Requests : pc[r] = "commitRun" /\ phase \in {"applied", "saved"} => promise = "none"
  /\ \A r \in Requests : pc[r] \in {"open", "arm"} => promise = "none"
  /\ promise = "confirmed" /\ faults = 0 =>
       /\ pending = 0 /\ ~pendingFile
       /\ pc[Timer] = "idle" /\ pc[Boot] \notin RollbackPoints

\* previous.nft is what the promise needs for as long as the promise can be called in;
\* when the rollback is over, it is in the kernel and in current.nft.
TargetInv ==
  faults = 0 =>
    /\ \A r \in Requests : pc[r] = "commitRun" /\ phase = "backedUp" => saved = NoConfig \/ previous = saved
    /\ \A r \in Requests : pc[r] = "commitRun" /\ phase \in {"applied", "saved"} /\ base \in Configs => previous = base
    /\ \A r \in Requests : pc[r] \in {"open", "arm"} /\ base \in Configs => previous = base
    /\ Promised /\ ~interrupted =>
         /\ pendingFile \/ pending # 0 => previous = base
         /\ \A t \in {Timer, Boot} : RollingBack(t) => previous = base
         /\ \A t \in {Timer, Boot} : pc[t] = "rollbackRun" /\ phase \in {"restored", "resaved"} => live = base
         /\ \A t \in {Timer, Boot} : pc[t] = "rollbackRun" /\ phase = "resaved" => saved = base
         /\ ~pendingFile /\ pending = 0 /\ (\A t \in Tasks : ~RollingBack(t)) =>
              saved = base /\ (live = base \/ pc[Boot] = "restore")

Protocol == PointsInv /\ LockInv /\ WindowInv /\ FileInv /\ PhaseInv /\ PromiseInv

\* The inductive invariant.
IInv == TypeOK /\ Protocol /\ TargetInv

-----------------------------------------------------------------------------
\* Every initial state satisfies the invariant.
LEMMA InitIInv == Init => IInv
  <1> SUFFICES ASSUME Init PROVE IInv
    OBVIOUS
  <1> USE TasksAssumption, BoundsAssumption, ValuesAssumption DEF Init, HistoryInit
  <1>1. TypeOK
    <2>1. HistoryTypeOK /\ base \in Files
      BY DEF HistoryTypeOK, Files, Phases
    <2>2. guarded \in [Requests -> BOOLEAN] /\ pendingFile \in BOOLEAN /\ interrupted \in BOOLEAN
      OBVIOUS
    <2>3. QED
      BY <2>1, <2>2 DEF TypeOK, Tasks, Points
  <1>2. PointsInv /\ LockInv /\ WindowInv
    BY DEF PointsInv, LockInv, WindowInv, Tasks, Up, CommitPoints, RollbackPoints
  <1>3. FileInv /\ PhaseInv /\ PromiseInv
    BY DEF FileInv, PhaseInv, PromiseInv, Tasks, Up, RollbackPoints
  <1>4. TargetInv
    BY DEF TargetInv, Promised, Tasks
  <1>5. QED
    BY <1>1, <1>2, <1>3, <1>4 DEF IInv, Protocol

\* Every step keeps every variable in its type.
LEMMA TypeStep == TypeOK /\ [Next]_vars => TypeOK'
  <1> SUFFICES ASSUME TypeOK, [Next]_vars PROVE TypeOK'
    OBVIOUS
  <1> USE TasksAssumption, BoundsAssumption, ValuesAssumption DEF TypeOK, HistoryTypeOK, Files, Phases, Tasks, Points, vars, historyVars, locks, windowVars, counts, history
  <1>1. ASSUME NEW r \in Requests, NEW g \in BOOLEAN, RequestCommit(r, g) PROVE TypeOK'
    BY <1>1 DEF RequestCommit, Request, Move, At, Goto
  <1>2. ASSUME NEW r \in Requests, RequestConfirm(r) PROVE TypeOK'
    BY <1>2 DEF RequestConfirm, Request, Move, At, Goto
  <1>3. ASSUME NEW r \in Requests, RequestRollback(r) PROVE TypeOK'
    BY <1>3 DEF RequestRollback, Request, Move, At, Goto
  <1>4. ASSUME NEW r \in Requests, CommitEnter(r) PROVE TypeOK'
    BY <1>4 DEF CommitEnter, At, Goto
  <1>5. ASSUME NEW r \in Requests, CommitRefused(r) PROVE TypeOK'
    BY <1>5 DEF CommitRefused, At, Leave, Goto
  <1>6. ASSUME NEW r \in Requests, ConfirmEnter(r) PROVE TypeOK'
    <2> USE <1>6 DEF ConfirmEnter, At, Leave, Goto
    <2>1. HistoryTypeOK' /\ (base \in Files /\ promise \in {"none", "rollback", "confirmed"})'
      OBVIOUS
    <2>2. (pc \in [Tasks -> Points] /\ guarded \in [Requests -> BOOLEAN])'
      OBVIOUS
    <2>3. (pendingLock \in Tasks \union {NoTask} /\ commitLock \in Tasks \union {Other, NoTask})'
      OBVIOUS
    <2>4. (pending \in Nat /\ counter \in Nat /\ armed \subseteq Nat)'
      OBVIOUS
    <2>5. (pendingFile \in BOOLEAN)'
      OBVIOUS
    <2>6. (interrupted \in BOOLEAN)'
      OBVIOUS
    <2>7. (faults \in 0..MaxFaults /\ drops \in 0..MaxDrops /\ restarts \in 0..MaxRestarts)'
      OBVIOUS
    <2>8. QED
      BY <2>1, <2>2, <2>3, <2>4, <2>5, <2>6, <2>7 DEF TypeOK
  <1>7. ASSUME NEW r \in Requests, RollbackEnter(r) PROVE TypeOK'
    BY <1>7 DEF RollbackEnter, Move, At, Goto
  <1>8. ASSUME NEW r \in Requests, WaitCommit(r) PROVE TypeOK'
    BY <1>8 DEF WaitCommit, CommitLock, Move, At, Goto
  <1>9. ASSUME NEW r \in Requests, CommitBackup(r) PROVE TypeOK'
    BY <1>9 DEF CommitBackup, At, Backup, Step
  <1>10. ASSUME NEW r \in Requests, CommitApply(r) PROVE TypeOK'
    BY <1>10 DEF CommitApply, At, Apply, Step
  <1>11. ASSUME NEW r \in Requests, CommitSave(r) PROVE TypeOK'
    BY <1>11 DEF CommitSave, At, Save, Step
  <1>12. ASSUME NEW r \in Requests, CommitDone(r) PROVE TypeOK'
    BY <1>12 DEF CommitDone, At, Finish, Leave, Goto
  <1>13. ASSUME NEW r \in Requests, WritePendingFile(r) PROVE TypeOK'
    <2> USE <1>13 DEF WritePendingFile, Move, At, Goto, Fault
    <2>1. HistoryTypeOK' /\ (base \in Files /\ promise \in {"none", "rollback", "confirmed"})'
      OBVIOUS
    <2>2. (pc \in [Tasks -> Points] /\ guarded \in [Requests -> BOOLEAN])'
      OBVIOUS
    <2>3. (pendingLock \in Tasks \union {NoTask} /\ commitLock \in Tasks \union {Other, NoTask})'
      OBVIOUS
    <2>4. (pending \in Nat /\ counter \in Nat /\ armed \subseteq Nat)'
      OBVIOUS
    <2>5. (pendingFile \in BOOLEAN)'
      OBVIOUS
    <2>6. (interrupted \in BOOLEAN)'
      OBVIOUS
    <2>7. (faults \in 0..MaxFaults /\ drops \in 0..MaxDrops /\ restarts \in 0..MaxRestarts)'
      OBVIOUS
    <2>8. QED
      BY <2>1, <2>2, <2>3, <2>4, <2>5, <2>6, <2>7 DEF TypeOK
  <1>14. ASSUME NEW r \in Requests, Arm(r) PROVE TypeOK'
    BY <1>14 DEF Arm, At, Leave, Goto
  <1>15. ASSUME NEW r \in Requests, ConfirmClear(r) PROVE TypeOK'
    <2> USE <1>15 DEF ConfirmClear, At, RemovePendingFile, Fault, Leave, Goto
    <2>1. HistoryTypeOK' /\ (base \in Files /\ promise \in {"none", "rollback", "confirmed"})'
      OBVIOUS
    <2>2. (pc \in [Tasks -> Points] /\ guarded \in [Requests -> BOOLEAN])'
      OBVIOUS
    <2>3. (pendingLock \in Tasks \union {NoTask} /\ commitLock \in Tasks \union {Other, NoTask})'
      OBVIOUS
    <2>4. (pending \in Nat /\ counter \in Nat /\ armed \subseteq Nat)'
      OBVIOUS
    <2>5. (pendingFile \in BOOLEAN)'
      OBVIOUS
    <2>6. (interrupted \in BOOLEAN)'
      OBVIOUS
    <2>7. (faults \in 0..MaxFaults /\ drops \in 0..MaxDrops /\ restarts \in 0..MaxRestarts)'
      OBVIOUS
    <2>8. QED
      BY <2>1, <2>2, <2>3, <2>4, <2>5, <2>6, <2>7 DEF TypeOK
  <1>16. ASSUME NEW r \in Requests, CommitFails(r) PROVE TypeOK'
    BY <1>16 DEF CommitFails, At, GiveUp, TearBackup, TearSave, Fault, Leave, Goto
  <1>17. ASSUME NEW r \in Requests, Disconnect(r) PROVE TypeOK'
    BY <1>17 DEF Disconnect, At, GiveUp, Leave, Goto
  <1>18. ASSUME NEW t \in Tasks, WaitRollback(t) PROVE TypeOK'
    BY <1>18 DEF WaitRollback, CommitLock, Move, At, Goto
  <1>19. ASSUME NEW t \in Tasks, Clear(t) PROVE TypeOK'
    <2> USE <1>19 DEF Clear, Move, At, Goto, RemovePendingFile, Fault
    <2>1. HistoryTypeOK' /\ (base \in Files /\ promise \in {"none", "rollback", "confirmed"})'
      OBVIOUS
    <2>2. (pc \in [Tasks -> Points] /\ guarded \in [Requests -> BOOLEAN])'
      OBVIOUS
    <2>3. (pendingLock \in Tasks \union {NoTask} /\ commitLock \in Tasks \union {Other, NoTask})'
      OBVIOUS
    <2>4. (pending \in Nat /\ counter \in Nat /\ armed \subseteq Nat)'
      OBVIOUS
    <2>5. (pendingFile \in BOOLEAN)'
      OBVIOUS
    <2>6. (interrupted \in BOOLEAN)'
      OBVIOUS
    <2>7. (faults \in 0..MaxFaults /\ drops \in 0..MaxDrops /\ restarts \in 0..MaxRestarts)'
      OBVIOUS
    <2>8. QED
      BY <2>1, <2>2, <2>3, <2>4, <2>5, <2>6, <2>7 DEF TypeOK
  <1>20. ASSUME NEW t \in Tasks, RollbackRestore(t) PROVE TypeOK'
    BY <1>20 DEF RollbackRestore, At, Restore, Step, Loaded
  <1>21. ASSUME NEW t \in Tasks, RollbackResave(t) PROVE TypeOK'
    BY <1>21 DEF RollbackResave, At, Resave, Step
  <1>22. ASSUME NEW t \in Tasks, RollbackDone(t) PROVE TypeOK'
    BY <1>22 DEF RollbackDone, At, Finish, Leave, Goto, Told
  <1>23. ASSUME NEW t \in Tasks, RollbackFails(t) PROVE TypeOK'
    BY <1>23 DEF RollbackFails, At, GiveUp, TearSave, Fault, Leave, Goto, Told
  <1>24. ASSUME NEW id \in armed, Expire(id) PROVE TypeOK'
    <2> USE <1>24 DEF Expire, Move, At, Goto
    <2>1. HistoryTypeOK' /\ (base \in Files /\ promise \in {"none", "rollback", "confirmed"})'
      OBVIOUS
    <2>2. (pc \in [Tasks -> Points] /\ guarded \in [Requests -> BOOLEAN])'
      OBVIOUS
    <2>3. (pendingLock \in Tasks \union {NoTask} /\ commitLock \in Tasks \union {Other, NoTask})'
      OBVIOUS
    <2>4. (pending \in Nat /\ counter \in Nat /\ armed \subseteq Nat)'
      OBVIOUS
    <2>5. (pendingFile \in BOOLEAN)'
      OBVIOUS
    <2>6. (interrupted \in BOOLEAN)'
      OBVIOUS
    <2>7. (faults \in 0..MaxFaults /\ drops \in 0..MaxDrops /\ restarts \in 0..MaxRestarts)'
      OBVIOUS
    <2>8. QED
      BY <2>1, <2>2, <2>3, <2>4, <2>5, <2>6, <2>7 DEF TypeOK
  <1>25. ASSUME OtherLock PROVE TypeOK'
    BY <1>25 DEF OtherLock
  <1>26. ASSUME OtherUnlock PROVE TypeOK'
    BY <1>26 DEF OtherUnlock
  <1>27. ASSUME Crash PROVE TypeOK'
    BY <1>27 DEF Crash, GiveUp, TearSave, TearBackup, At
  <1>28. ASSUME PowerCycle PROVE TypeOK'
    BY <1>28 DEF PowerCycle, At, PowerLoss
  <1>29. ASSUME RestoreOnBoot PROVE TypeOK'
    BY <1>29 DEF RestoreOnBoot, Move, At, Goto, BootRestore, Loaded, Fault
  <1>30. ASSUME RecoverNothing PROVE TypeOK'
    BY <1>30 DEF RecoverNothing, Move, At, Goto
  <1>31. ASSUME RecoverExpired PROVE TypeOK'
    BY <1>31 DEF RecoverExpired, Move, At, Goto
  <1>32. ASSUME RecoverWindow PROVE TypeOK'
    BY <1>32 DEF RecoverWindow, Move, At, Goto
  <1>33. CASE UNCHANGED vars
    BY <1>33 DEF vars
  <1>34. QED
    BY <1>1, <1>2, <1>3, <1>4, <1>5, <1>6, <1>7, <1>8, <1>9, <1>10, <1>11, <1>12, <1>13, <1>14, <1>15, <1>16, <1>17, <1>18, <1>19, <1>20, <1>21, <1>22, <1>23, <1>24, <1>25, <1>26, <1>27, <1>28, <1>29, <1>30, <1>31, <1>32, <1>33 DEF Next, Enter, CommitStep, RollbackStep, BootStep

\* No step breaks what the invariant says of tasks, mutexes, window and file.
LEMMA ProtocolStep == TypeOK /\ Protocol /\ TypeOK' /\ [Next]_vars => Protocol'
  <1> SUFFICES ASSUME TypeOK, Protocol, TypeOK', [Next]_vars PROVE Protocol'
    OBVIOUS
  <1> USE TasksAssumption, BoundsAssumption
      DEF TypeOK, Protocol, PointsInv, LockInv, WindowInv, FileInv, PhaseInv, PromiseInv,
          CommitPoints, RollbackPoints, Up, Files, Tasks, Points,
          vars, historyVars, locks, windowVars, counts, history
  <1>1. ASSUME NEW r \in Requests, NEW g \in BOOLEAN, RequestCommit(r, g) PROVE Protocol'
    BY <1>1 DEF RequestCommit, Request, Move, At, Goto
  <1>2. ASSUME NEW r \in Requests, RequestConfirm(r) PROVE Protocol'
    BY <1>2 DEF RequestConfirm, Request, Move, At, Goto
  <1>3. ASSUME NEW r \in Requests, RequestRollback(r) PROVE Protocol'
    BY <1>3 DEF RequestRollback, Request, Move, At, Goto
  <1>4. ASSUME NEW r \in Requests, CommitEnter(r) PROVE Protocol'
    BY <1>4 DEF CommitEnter, At, Goto
  <1>5. ASSUME NEW r \in Requests, CommitRefused(r) PROVE Protocol'
    BY <1>5 DEF CommitRefused, At, Leave, Goto
  <1>6. ASSUME NEW r \in Requests, ConfirmEnter(r) PROVE Protocol'
    BY <1>6 DEF ConfirmEnter, At, Leave, Goto
  <1>7. ASSUME NEW r \in Requests, RollbackEnter(r) PROVE Protocol'
    BY <1>7 DEF RollbackEnter, Move, At, Goto
  <1>8. ASSUME NEW r \in Requests, WaitCommit(r) PROVE Protocol'
    BY <1>8 DEF WaitCommit, CommitLock, Move, At, Goto
  <1>9. ASSUME NEW r \in Requests, CommitBackup(r) PROVE Protocol'
    BY <1>9 DEF CommitBackup, At, Backup, Step
  <1>10. ASSUME NEW r \in Requests, CommitApply(r) PROVE Protocol'
    BY <1>10 DEF CommitApply, At, Apply, Step
  <1>11. ASSUME NEW r \in Requests, CommitSave(r) PROVE Protocol'
    BY <1>11 DEF CommitSave, At, Save, Step
  <1>12. ASSUME NEW r \in Requests, CommitDone(r) PROVE Protocol'
    BY <1>12 DEF CommitDone, At, Finish, Leave, Goto
  <1>13. ASSUME NEW r \in Requests, WritePendingFile(r) PROVE Protocol'
    BY <1>13 DEF WritePendingFile, Move, At, Goto, Fault
  <1>14. ASSUME NEW r \in Requests, Arm(r) PROVE Protocol'
    BY <1>14 DEF Arm, At, Leave, Goto
  <1>15. ASSUME NEW r \in Requests, ConfirmClear(r) PROVE Protocol'
    BY <1>15 DEF ConfirmClear, At, RemovePendingFile, Fault, Leave, Goto
  <1>16. ASSUME NEW r \in Requests, CommitFails(r) PROVE Protocol'
    BY <1>16 DEF CommitFails, At, GiveUp, TearBackup, TearSave, Fault, Leave, Goto
  <1>17. ASSUME NEW r \in Requests, Disconnect(r) PROVE Protocol'
    BY <1>17 DEF Disconnect, At, GiveUp, Leave, Goto
  <1>18. ASSUME NEW t \in Tasks, WaitRollback(t) PROVE Protocol'
    BY <1>18 DEF WaitRollback, CommitLock, Move, At, Goto
  <1>19. ASSUME NEW t \in Tasks, Clear(t) PROVE Protocol'
    BY <1>19 DEF Clear, Move, At, Goto, RemovePendingFile, Fault
  <1>20. ASSUME NEW t \in Tasks, RollbackRestore(t) PROVE Protocol'
    BY <1>20 DEF RollbackRestore, At, Restore, Step, Loaded
  <1>21. ASSUME NEW t \in Tasks, RollbackResave(t) PROVE Protocol'
    BY <1>21 DEF RollbackResave, At, Resave, Step
  <1>22. ASSUME NEW t \in Tasks, RollbackDone(t) PROVE Protocol'
    BY <1>22 DEF RollbackDone, At, Finish, Leave, Goto, Told
  <1>23. ASSUME NEW t \in Tasks, RollbackFails(t) PROVE Protocol'
    BY <1>23 DEF RollbackFails, At, GiveUp, TearSave, Fault, Leave, Goto, Told
  <1>24. ASSUME NEW id \in armed, Expire(id) PROVE Protocol'
    BY <1>24 DEF Expire, Move, At, Goto
  <1>25. ASSUME OtherLock PROVE Protocol'
    BY <1>25 DEF OtherLock
  <1>26. ASSUME OtherUnlock PROVE Protocol'
    BY <1>26 DEF OtherUnlock
  <1>27. ASSUME Crash PROVE Protocol'
    BY <1>27 DEF Crash, GiveUp, TearSave, TearBackup, At
  <1>28. ASSUME PowerCycle PROVE Protocol'
    BY <1>28 DEF PowerCycle, At, PowerLoss
  <1>29. ASSUME RestoreOnBoot PROVE Protocol'
    BY <1>29 DEF RestoreOnBoot, Move, At, Goto, BootRestore, Loaded, Fault
  <1>30. ASSUME RecoverNothing PROVE Protocol'
    BY <1>30 DEF RecoverNothing, Move, At, Goto
  <1>31. ASSUME RecoverExpired PROVE Protocol'
    BY <1>31 DEF RecoverExpired, Move, At, Goto
  <1>32. ASSUME RecoverWindow PROVE Protocol'
    BY <1>32 DEF RecoverWindow, Move, At, Goto
  <1>33. CASE UNCHANGED vars
    BY <1>33
  <1>34. QED
    BY <1>1, <1>2, <1>3, <1>4, <1>5, <1>6, <1>7, <1>8, <1>9, <1>10, <1>11, <1>12, <1>13, <1>14, <1>15, <1>16, <1>17, <1>18, <1>19, <1>20, <1>21, <1>22, <1>23, <1>24, <1>25, <1>26, <1>27, <1>28, <1>29, <1>30, <1>31, <1>32, <1>33 DEF Next, Enter, CommitStep, RollbackStep, BootStep

\* What cuts a rollback short leaves a mark.
LEMMA Interrupting ==
  /\ Crash /\ ~interrupted' => ~interrupted /\ \A t \in Tasks : ~RollingBack(t)
  /\ \A r \in Requests : Disconnect(r) /\ ~interrupted' => ~interrupted /\ ~RollingBack(r)
  <1>1. ASSUME Crash, ~interrupted' PROVE ~interrupted /\ \A t \in Tasks : ~RollingBack(t)
    BY <1>1, Zenon DEF Crash
  <1>2. ASSUME NEW r \in Requests, Disconnect(r), ~interrupted' PROVE ~interrupted /\ ~RollingBack(r)
    BY <1>2, Zenon DEF Disconnect
  <1>3. QED
    BY <1>1, <1>2

\* No step breaks what the invariant says of the rulesets the promise is about.
LEMMA TargetStep == IInv /\ TypeOK' /\ Protocol' /\ [Next]_vars => TargetInv'
  <1> SUFFICES ASSUME IInv, TypeOK', Protocol', [Next]_vars PROVE TargetInv'
    OBVIOUS
  <1> USE TasksAssumption, ValuesAssumption
      DEF IInv, TypeOK, HistoryTypeOK, Phases, Protocol, PointsInv, LockInv, WindowInv, FileInv, PhaseInv,
          TargetInv, Promised, RollingBack, CommitPoints, RollbackPoints, Up, Files, Tasks, Points,
          vars, historyVars, locks, windowVars, counts, history
  <1>1. ASSUME NEW r \in Requests, NEW g \in BOOLEAN, RequestCommit(r, g) PROVE TargetInv'
    BY <1>1 DEF RequestCommit, Request, Move, At, Goto
  <1>2. ASSUME NEW r \in Requests, RequestConfirm(r) PROVE TargetInv'
    BY <1>2 DEF RequestConfirm, Request, Move, At, Goto
  <1>3. ASSUME NEW r \in Requests, RequestRollback(r) PROVE TargetInv'
    BY <1>3 DEF RequestRollback, Request, Move, At, Goto
  <1>4. ASSUME NEW r \in Requests, CommitEnter(r) PROVE TargetInv'
    BY <1>4 DEF CommitEnter, At, Goto
  <1>5. ASSUME NEW r \in Requests, CommitRefused(r) PROVE TargetInv'
    BY <1>5 DEF CommitRefused, At, Leave, Goto
  <1>6. ASSUME NEW r \in Requests, ConfirmEnter(r) PROVE TargetInv'
    BY <1>6 DEF ConfirmEnter, At, Leave, Goto
  <1>7. ASSUME NEW r \in Requests, RollbackEnter(r) PROVE TargetInv'
    BY <1>7 DEF RollbackEnter, Move, At, Goto
  <1>8. ASSUME NEW r \in Requests, WaitCommit(r) PROVE TargetInv'
    BY <1>8 DEF WaitCommit, CommitLock, Move, At, Goto
  <1>9. ASSUME NEW r \in Requests, CommitBackup(r) PROVE TargetInv'
    BY <1>9 DEF CommitBackup, At, Backup, Step
  <1>10. ASSUME NEW r \in Requests, CommitApply(r) PROVE TargetInv'
    BY <1>10 DEF CommitApply, At, Apply, Step
  <1>11. ASSUME NEW r \in Requests, CommitSave(r) PROVE TargetInv'
    BY <1>11 DEF CommitSave, At, Save, Step
  <1>12. ASSUME NEW r \in Requests, CommitDone(r) PROVE TargetInv'
    BY <1>12 DEF CommitDone, At, Finish, Leave, Goto
  <1>13. ASSUME NEW r \in Requests, WritePendingFile(r) PROVE TargetInv'
    BY <1>13 DEF WritePendingFile, Move, At, Goto, Fault
  <1>14. ASSUME NEW r \in Requests, Arm(r) PROVE TargetInv'
    BY <1>14 DEF Arm, At, Leave, Goto
  <1>15. ASSUME NEW r \in Requests, ConfirmClear(r) PROVE TargetInv'
    BY <1>15 DEF ConfirmClear, At, RemovePendingFile, Fault, Leave, Goto
  <1>16. ASSUME NEW r \in Requests, CommitFails(r) PROVE TargetInv'
    BY <1>16 DEF CommitFails, At, GiveUp, TearBackup, TearSave, Fault, Leave, Goto
  <1>17. ASSUME NEW r \in Requests, Disconnect(r) PROVE TargetInv'
    <2> USE <1>17 DEF Disconnect, At, Leave, Goto
    <2>1. UNCHANGED <<live, saved, previous, base, promise, pending, pendingFile>>
      BY DEF GiveUp
    <2>2. pc' = [pc EXCEPT ![r] = "idle"] /\ (~interrupted' => ~interrupted /\ ~RollingBack(r))
      BY Interrupting
    <2>3. \A t \in Tasks \ {r} : pc[t] \in {"commitRun", "rollbackRun"} => phase' = phase
      BY DEF GiveUp
    <2>4. QED
      BY <2>1, <2>2, <2>3
  <1>18. ASSUME NEW t \in Tasks, WaitRollback(t) PROVE TargetInv'
    BY <1>18 DEF WaitRollback, CommitLock, Move, At, Goto
  <1>19. ASSUME NEW t \in Tasks, Clear(t) PROVE TargetInv'
    BY <1>19 DEF Clear, Move, At, Goto, RemovePendingFile, Fault
  <1>20. ASSUME NEW t \in Tasks, RollbackRestore(t) PROVE TargetInv'
    BY <1>20 DEF RollbackRestore, At, Restore, Step, Loaded
  <1>21. ASSUME NEW t \in Tasks, RollbackResave(t) PROVE TargetInv'
    BY <1>21 DEF RollbackResave, At, Resave, Step
  <1>22. ASSUME NEW t \in Tasks, RollbackDone(t) PROVE TargetInv'
    BY <1>22 DEF RollbackDone, At, Finish, Leave, Goto, Told
  <1>23. ASSUME NEW t \in Tasks, RollbackFails(t) PROVE TargetInv'
    BY <1>23 DEF RollbackFails, At, GiveUp, TearSave, Fault, Leave, Goto, Told
  <1>24. ASSUME NEW id \in armed, Expire(id) PROVE TargetInv'
    BY <1>24 DEF Expire, Move, At, Goto
  <1>25. ASSUME OtherLock PROVE TargetInv'
    BY <1>25 DEF OtherLock
  <1>26. ASSUME OtherUnlock PROVE TargetInv'
    BY <1>26 DEF OtherUnlock
  <1>27. ASSUME Crash PROVE TargetInv'
    <2> USE <1>27 DEF Crash, At
    <2>1. SUFFICES ASSUME faults = 0, Promised, ~interrupted, \A t \in Tasks : ~RollingBack(t)
          PROVE (pendingFile => previous' = base) /\ (~pendingFile => saved' = base)
      BY Interrupting
    <2>2. phase # "restored" /\ phase # "applied" /\ phase # "saved"
      BY <2>1 DEF PromiseInv
    <2>3. CASE pendingFile
      <3>1. ~TearBackup \/ ~\E r \in Requests : At(r, "commitRun")
        BY <2>1, <2>3
      <3>2. QED
        BY <2>1, <2>2, <2>3, <3>1 DEF GiveUp, TearSave
    <2>4. CASE ~pendingFile
      <3>1. pending = 0
        BY <2>1, <2>4
      <3>2. QED
        BY <2>1, <2>2, <2>4, <3>1 DEF GiveUp, TearSave, TearBackup
    <2>5. QED
      BY <2>3, <2>4
  <1>28. ASSUME PowerCycle PROVE TargetInv'
    BY <1>28 DEF PowerCycle, At, PowerLoss
  <1>29. ASSUME RestoreOnBoot PROVE TargetInv'
    BY <1>29 DEF RestoreOnBoot, Move, At, Goto, BootRestore, Loaded, Fault
  <1>30. ASSUME RecoverNothing PROVE TargetInv'
    BY <1>30 DEF RecoverNothing, Move, At, Goto
  <1>31. ASSUME RecoverExpired PROVE TargetInv'
    BY <1>31 DEF RecoverExpired, Move, At, Goto
  <1>32. ASSUME RecoverWindow PROVE TargetInv'
    BY <1>32 DEF RecoverWindow, Move, At, Goto
  <1>33. CASE UNCHANGED vars
    BY <1>33
  <1> HIDE DEF TargetInv, vars, IInv
  <1>34. QED
    BY <1>1, <1>2, <1>3, <1>4, <1>5, <1>6, <1>7, <1>8, <1>9, <1>10, <1>11, <1>12, <1>13, <1>14, <1>15, <1>16, <1>17, <1>18, <1>19, <1>20, <1>21, <1>22, <1>23, <1>24, <1>25, <1>26, <1>27, <1>28, <1>29, <1>30, <1>31, <1>32, <1>33 DEF Next, Enter, CommitStep, RollbackStep, BootStep

\* The invariant holds in every reachable state.
THEOREM IInvHolds == Spec => []IInv
  <1>1. Init => IInv
    BY InitIInv
  <1>2. IInv /\ [Next]_vars => IInv'
    BY TypeStep, ProtocolStep, TargetStep DEF IInv
  <1>3. QED
    BY <1>1, <1>2, PTL DEF Spec

-----------------------------------------------------------------------------
\* Every variable stays in its type.
THEOREM TypeCorrect == Spec => []TypeOK
  <1>1. IInv => TypeOK
    BY DEF IInv
  <1>2. QED
    BY <1>1, IInvHolds, PTL

\* An open window has a live expire task, so safe_commit.rs never refuses every
\* commit from then on.
THEOREM TimerOwnsPendingHolds == Spec => []TimerOwnsPending
  <1>1. IInv => TimerOwnsPending
    BY DEF IInv, Protocol, WindowInv, TimerOwnsPending
  <1>2. QED
    BY <1>1, IInvHolds, PTL

\* With no failed file operation, pending-confirm.txt exists exactly while a window is
\* open, whatever requests, timers, disconnects and crashes came before.
THEOREM PendingDurableHolds == Spec => []PendingDurable
  <1>1. IInv => PendingDurable
    BY DEF IInv, Protocol, FileInv, PendingDurable
  <1>2. QED
    BY <1>1, IInvHolds, PTL

\* With no failed file operation, neither a late timer nor a restart rolls back a commit
\* whose confirmation was answered.
THEOREM ConfirmedSticksHolds == Spec => []ConfirmedSticks
  <1>1. IInv => ConfirmedSticks
    BY TasksAssumption DEF IInv, Protocol, PromiseInv, PointsInv, ConfirmedSticks, RollingBack, RollbackPoints
  <1>2. QED
    BY <1>1, IInvHolds, PTL

\* An unconfirmed commit never simply stays: its window is open, its rollback is running,
\* or what was live before it is live again, through any number of restarts, unless one of
\* them cut that rollback short or a file operation failed.
THEOREM PromiseKeptHolds == Spec => []PromiseKept
  <1>1. IInv => PromiseKept
    BY TasksAssumption DEF IInv, Protocol, TargetInv, PointsInv, PromiseKept, Honoured, Promised, Up, Tasks
  <1>2. QED
    BY <1>1, IInvHolds, PTL

\* While a window is open no step touches a ruleset: everybody who could is shut out by
\* SafeCommit.pending being Some (LockInv and WindowInv).
THEOREM WindowFrozenHolds == Spec => WindowFrozen
  <1> DEFINE A == pending # 0 /\ pending' # 0 => UNCHANGED historyVars
  <1>1. IInv /\ [Next]_vars => A
    <2> SUFFICES ASSUME IInv, [Next]_vars, pending # 0, pending' # 0 PROVE UNCHANGED historyVars
      OBVIOUS
    <2>1. /\ Up /\ \A t \in Tasks : pc[t] \in {"idle", "commit", "confirm", "rollback"}
          /\ commitLock \notin Tasks
      BY TasksAssumption DEF IInv, TypeOK, Protocol, PointsInv, LockInv, WindowInv, Tasks, Points, Up,
         CommitPoints, RollbackPoints
    <2>2. CASE UNCHANGED vars
      BY <2>2 DEF vars
    <2>3. CASE Next
      BY <2>1, <2>3 DEF Next, RequestCommit, RequestConfirm, RequestRollback, Request, Enter, CommitEnter,
         CommitRefused, ConfirmEnter, RollbackEnter, WaitCommit, WaitRollback, CommitLock, CommitStep, CommitBackup,
         CommitApply, CommitSave, CommitDone, CommitFails, WritePendingFile, Arm, ConfirmClear, Disconnect,
         RollbackStep, Clear, RollbackRestore, RollbackResave, RollbackDone, RollbackFails, Expire, OtherLock,
         OtherUnlock, Crash, PowerCycle, BootStep, RestoreOnBoot, RecoverNothing, RecoverExpired, RecoverWindow,
         Move, At, Up, Tasks, historyVars
    <2>4. QED
      BY <2>2, <2>3
  <1>2. QED
    BY <1>1, IInvHolds, PTL DEF Spec, WindowFrozen
-----------------------------------------------------------------------------
(* SafeCommit implements ConfirmWindow, as long as no file operation fails. *)

\* Each action is one step of the abstract window, or none.
LEMMA WindowStep == MaxFaults = 0 /\ IInv /\ IInv' /\ [Next]_vars => [W!WindowNext]_W!windowVars
  <1> SUFFICES ASSUME MaxFaults = 0, IInv, IInv', [Next]_vars PROVE W!WindowNext \/ UNCHANGED W!windowVars
    OBVIOUS
  <1>a. faults = 0 /\ faults' = 0
    BY DEF IInv, TypeOK
  <1> USE <1>a, TasksAssumption
      DEF IInv, TypeOK, Protocol, PointsInv, LockInv, WindowInv, FileInv, PhaseInv,
          CommitPoints, RollbackPoints, Up, Files, Tasks, Points,
          vars, historyVars, locks, windowVars, counts, history, Window,
          W!windowVars, W!historyVars, W!Stays, W!Turns, W!Step, W!Loaded,
          W!Working, W!Open, W!Boots, W!Waiting, W!Confirm, W!End, W!RollingBack, W!Ended,
          W!Backup, W!Apply, W!Save, W!Restore, W!Resave, W!Finish, W!GiveUp,
          W!TearBackup, W!TearSave, W!PowerLoss, W!BootRestore
  <1>1. ASSUME NEW r \in Requests, NEW g \in BOOLEAN, RequestCommit(r, g) PROVE UNCHANGED W!windowVars
    BY <1>1 DEF RequestCommit, Request, Move, At, Goto
  <1>2. ASSUME NEW r \in Requests, RequestConfirm(r) PROVE UNCHANGED W!windowVars
    BY <1>2 DEF RequestConfirm, Request, Move, At, Goto
  <1>3. ASSUME NEW r \in Requests, RequestRollback(r) PROVE UNCHANGED W!windowVars
    BY <1>3 DEF RequestRollback, Request, Move, At, Goto
  <1>4. ASSUME NEW r \in Requests, CommitEnter(r) PROVE UNCHANGED W!windowVars
    BY <1>4 DEF CommitEnter, At, Goto
  <1>5. ASSUME NEW r \in Requests, CommitRefused(r) PROVE UNCHANGED W!windowVars
    BY <1>5 DEF CommitRefused, At, Leave, Goto
  <1>6. ASSUME NEW r \in Requests, ConfirmEnter(r) PROVE UNCHANGED W!windowVars
    BY <1>6 DEF ConfirmEnter, At, Leave, Goto
  <1>7. ASSUME NEW r \in Requests, RollbackEnter(r) PROVE UNCHANGED W!windowVars
    BY <1>7 DEF RollbackEnter, Move, At, Goto
  <1>8. ASSUME NEW r \in Requests, WaitCommit(r) PROVE UNCHANGED W!windowVars
    BY <1>8 DEF WaitCommit, CommitLock, Move, At, Goto
  <1>9. ASSUME NEW r \in Requests, CommitBackup(r) PROVE W!Working
    BY <1>9 DEF CommitBackup, At, Backup, Step
  <1>10. ASSUME NEW r \in Requests, CommitApply(r) PROVE W!Working
    BY <1>10 DEF CommitApply, At, Apply, Step
  <1>11. ASSUME NEW r \in Requests, CommitSave(r) PROVE W!Working
    BY <1>11 DEF CommitSave, At, Save, Step
  <1>12. ASSUME NEW r \in Requests, CommitDone(r) PROVE W!Working
    BY <1>12 DEF CommitDone, At, Finish, Leave, Goto
  <1>13. ASSUME NEW r \in Requests, WritePendingFile(r) PROVE W!Open
    BY <1>13 DEF WritePendingFile, Move, At, Goto, Fault
  <1>14. ASSUME NEW r \in Requests, Arm(r) PROVE UNCHANGED W!windowVars
    BY <1>14 DEF Arm, At, Leave, Goto
  <1>15. ASSUME NEW r \in Requests, ConfirmClear(r) PROVE W!Confirm
    BY <1>15 DEF ConfirmClear, At, RemovePendingFile, Fault, Leave, Goto
  <1>16. ASSUME NEW r \in Requests, CommitFails(r) PROVE W!Working
    BY <1>16 DEF CommitFails, At, GiveUp, TearBackup, TearSave, Fault, Leave, Goto
  <1>17. ASSUME NEW r \in Requests, Disconnect(r) PROVE W!Ended \/ UNCHANGED W!windowVars
    BY <1>17 DEF Disconnect, At, GiveUp, Leave, Goto
  <1>18. ASSUME NEW t \in Tasks, WaitRollback(t) PROVE UNCHANGED W!windowVars
    BY <1>18 DEF WaitRollback, CommitLock, Move, At, Goto
  <1>19. ASSUME NEW t \in Tasks, Clear(t) PROVE W!End
    BY <1>19 DEF Clear, Move, At, Goto, RemovePendingFile, Fault
  <1>20. ASSUME NEW t \in Tasks, RollbackRestore(t) PROVE W!RollingBack
    BY <1>20 DEF RollbackRestore, At, Restore, Step, Loaded
  <1>21. ASSUME NEW t \in Tasks, RollbackResave(t) PROVE W!RollingBack
    BY <1>21 DEF RollbackResave, At, Resave, Step
  <1>22. ASSUME NEW t \in Tasks, RollbackDone(t) PROVE W!Ended
    BY <1>22 DEF RollbackDone, At, Finish, Leave, Goto, Told
  <1>23. ASSUME NEW t \in Tasks, RollbackFails(t) PROVE W!Ended
    BY <1>23 DEF RollbackFails, At, GiveUp, TearSave, Fault, Leave, Goto, Told
  <1>24. ASSUME NEW id \in armed, Expire(id) PROVE UNCHANGED W!windowVars
    BY <1>24 DEF Expire, Move, At, Goto
  <1>25. ASSUME OtherLock PROVE UNCHANGED W!windowVars
    BY <1>25 DEF OtherLock
  <1>26. ASSUME OtherUnlock PROVE UNCHANGED W!windowVars
    BY <1>26 DEF OtherUnlock
  <1>27. ASSUME Crash PROVE W!Working \/ W!Ended \/ UNCHANGED W!windowVars
    <2> USE <1>27 DEF Crash, At
    <2>1. CASE GiveUp
      BY <2>1 DEF GiveUp
    <2>2. CASE TearSave
      BY <2>2 DEF TearSave
    <2>3. CASE TearBackup /\ \E r \in Requests : At(r, "commitRun")
      BY <2>3 DEF TearBackup
    <2>4. QED
      BY <2>1, <2>2, <2>3
  <1>28. ASSUME PowerCycle PROVE W!Working \/ W!Waiting
    BY <1>28 DEF PowerCycle, At, PowerLoss
  <1>29. ASSUME RestoreOnBoot PROVE W!Working \/ W!Waiting \/ UNCHANGED W!windowVars
    BY <1>29 DEF RestoreOnBoot, Move, At, Goto, BootRestore, Loaded, Fault
  <1>30. ASSUME RecoverNothing PROVE UNCHANGED W!windowVars
    BY <1>30 DEF RecoverNothing, Move, At, Goto
  <1>31. ASSUME RecoverExpired PROVE UNCHANGED W!windowVars
    BY <1>31 DEF RecoverExpired, Move, At, Goto
  <1>32. ASSUME RecoverWindow PROVE UNCHANGED W!windowVars
    BY <1>32 DEF RecoverWindow, Move, At, Goto
  <1>33. CASE UNCHANGED vars
    BY <1>33
  <1> HIDE DEF vars, W!windowVars, W!Working, W!Open, W!Waiting, W!Confirm, W!End, W!RollingBack, W!Ended,
           IInv, Window, historyVars, locks, windowVars, counts, history
  <1>34. QED
    BY <1>1, <1>2, <1>3, <1>4, <1>5, <1>6, <1>7, <1>8, <1>9, <1>10, <1>11, <1>12, <1>13, <1>14, <1>15, <1>16, <1>17, <1>18, <1>19, <1>20, <1>21, <1>22, <1>23, <1>24, <1>25, <1>26, <1>27, <1>28, <1>29, <1>30, <1>31, <1>32, <1>33
       DEF Next, Enter, CommitStep, RollbackStep, BootStep, W!WindowNext

\* Without file errors, whatever requests, timers, disconnects and restarts do, the
\* window and the rulesets go only through the steps ConfirmWindow allows.
THEOREM WindowImplemented == MaxFaults = 0 => (Spec => ImplementsWindow)
  <1> SUFFICES ASSUME MaxFaults = 0 PROVE Spec => ImplementsWindow
    OBVIOUS
  <1>1. Init => W!HistoryInit /\ Window = "closed"
    BY TasksAssumption DEF Init, HistoryInit, W!HistoryInit, Window, Tasks
  <1>2. IInv /\ IInv' /\ [Next]_vars => [W!WindowNext]_W!windowVars
    BY WindowStep
  <1>3. QED
    BY <1>1, <1>2, IInvHolds, PTL DEF Spec, ImplementsWindow, W!WindowSpec
=============================================================================
