-------------------------- MODULE RouteCommitProofs --------------------------
(***************************************************************************)
(* Proofs about RouteCommit, for any keys, hops and bounds.                *)
(***************************************************************************)
EXTENDS RouteCommit, TLAPS

\* Which points belong to which operation, and what it carries with it.
PlaceInv ==
  /\ op = "boot" => at \in {"idle", "boot"}
  /\ at = "boot" => op = "boot" /\ desired = prior
  /\ at = "save" => op = "commit"
  /\ at \in {"sync", "resave"} => op = "rollback"
  /\ at # "save" => n = 1
  /\ at # "idle" => prior = Snapshot(current)
  /\ at # "idle" /\ op = "rollback" => previous = desired
  /\ at = "save" /\ n = 2 => previous = prior

\* What ip has still to run.
BatchInv ==
  /\ at \notin Batches => batch = {}
  /\ at = "apply" => batch \subseteq Adds(desired) /\ ~failed
  /\ at \in {"revert", "boot"} => batch \subseteq Adds(prior)
  /\ at = "remove" => batch \subseteq Removals(prior, desired)
  /\ at = "cleanup" => batch \subseteq Removals(desired, prior)
  /\ (at # "idle" \/ outcome # "none") /\ alone => orphan = {}

\* The routes that were set stay set, whatever the kernel had before.
Set(routes) == \A k \in Keys : routes[k] # NoHop /\ <<k, routes[k]>> \notin batch => kernel[k] = routes[k]

SetInv ==
  alone =>
    /\ at \in {"apply", "remove", "save", "sync", "resave"} => Set(desired)
    /\ at \in {"revert", "boot"} /\ ~failed => Set(prior)
    /\ at = "cleanup" => Set(prior)

\* The routes of the other list go, if current.* described the kernel.
Gone(old, new) ==
  \A k \in Keys : new[k] = NoHop =>
    kernel[k] \in {NoHop, old[k]} /\ (old[k] # NoHop /\ <<k, NoHop>> \notin batch => kernel[k] = NoHop)

GoneInv ==
  synced /\ alone =>
    /\ at = "check" => kernel = prior
    /\ at = "apply" => \A k \in Keys :
         kernel[k] = prior[k] \/ (kernel[k] = desired[k] /\ desired[k] # NoHop /\ <<k, desired[k]>> \notin batch)
    /\ at = "revert" => \A k \in Keys :
         kernel[k] = prior[k] \/ (kernel[k] = desired[k] /\ desired[k] # NoHop)
    /\ at \in {"remove", "save", "sync", "resave"} /\ ~failed => Gone(prior, desired)
    /\ at = "cleanup" /\ faults = 0 => Gone(desired, prior)
    /\ at = "boot" => kernel = prior

\* The table after it was read or replaced.
TableInv ==
  /\ at # "idle" /\ op = "commit" /\ ~edited => db = desired
  /\ at = "resave" /\ ~edited => db = desired
  /\ at = "boot" => edited

\* What the kernel had, in the words of the operation.
BeforeInv == synced /\ at # "idle" => before = prior

\* The Boolean variables.
Flags == failed \in BOOLEAN /\ forced \in BOOLEAN /\ synced \in BOOLEAN /\ alone \in BOOLEAN /\ edited \in BOOLEAN

\* The inductive invariant.
IInv ==
  /\ TypeOK /\ PlaceInv /\ BatchInv /\ SetInv /\ GoneInv /\ TableInv /\ BeforeInv
  /\ SuccessIsLive /\ KernelIsCurrent /\ UndoReachesLive /\ TableIsCurrent
-----------------------------------------------------------------------------
\* The operators on lists of routes.
LEMMA NoRoutesType == NoRoutes \in Routes
  BY DEF NoRoutes, Routes

LEMMA SnapshotType == ASSUME NEW file \in Routes \union {Absent} PROVE Snapshot(file) \in Routes
  BY NoRoutesType DEF Snapshot

LEMMA SnapshotOf == ASSUME NEW routes \in Routes PROVE Snapshot(routes) = routes
  BY RouteAssumption DEF Snapshot

LEMMA ScriptType ==
  ASSUME NEW old \in Routes, NEW new \in Routes
  PROVE  Adds(new) \subseteq Lines /\ Removals(old, new) \subseteq Lines
  BY DEF Routes, Lines, Adds, Removals

LEMMA SameRoutes ==
  ASSUME NEW old \in Routes, NEW new \in Routes, \A k \in Keys : old[k] = new[k]
  PROVE  old = new
  BY DEF Routes

\* Every initial state satisfies the invariant.
LEMMA InitIInv == Init => IInv
  <1> SUFFICES ASSUME Init PROVE IInv
    OBVIOUS
  <1> USE DEF Init
  <1>1. TypeOK
    <2>1. Flags
      BY DEF Flags
    <2> QED
      BY <2>1, NoRoutesType, RouteAssumption DEF TypeOK, Points, Flags
  <1>2. PlaceInv /\ BatchInv /\ SetInv /\ GoneInv /\ TableInv /\ BeforeInv
    BY DEF PlaceInv, BatchInv, SetInv, GoneInv, TableInv, BeforeInv, Batches
  <1>3. SuccessIsLive /\ KernelIsCurrent /\ UndoReachesLive /\ TableIsCurrent
    BY DEF SuccessIsLive, KernelIsCurrent, UndoReachesLive, TableIsCurrent, Done
  <1> QED
    BY <1>1, <1>2, <1>3 DEF IInv

\* When only the files are left, the kernel has the new routes and no others.
LEMMA KernelWhenSaving ==
  IInv /\ at \in {"save", "resave"} /\ synced /\ alone /\ ~failed => kernel = desired
  <1> SUFFICES ASSUME IInv, at \in {"save", "resave"}, synced, alone, ~failed PROVE kernel = desired
    OBVIOUS
  <1>1. batch = {} /\ Set(desired) /\ Gone(prior, desired)
    BY DEF IInv, BatchInv, SetInv, GoneInv, Batches
  <1>2. \A k \in Keys : kernel[k] = desired[k]
    BY <1>1 DEF Set, Gone
  <1> QED
    BY <1>2, SameRoutes DEF IInv, TypeOK

\* Every step keeps the invariant.
LEMMA InvStep == IInv /\ [Next]_vars => IInv'
  <1> SUFFICES ASSUME IInv, [Next]_vars PROVE IInv'
    OBVIOUS
  <1> USE RouteAssumption DEF IInv, TypeOK, disk, place, locals, lines, orphans, counts, history
  <1>1. ASSUME NEW routes \in Routes, Edit(routes) PROVE IInv'
    <2>0. Flags'
      BY <1>1 DEF Edit, Flags
    <2>1. TypeOK'
      BY <1>1, <2>0, NoRoutesType, SnapshotType, ScriptType DEF Edit, Flags, Points, Batches
    <2>2. (PlaceInv /\ BatchInv /\ SetInv /\ GoneInv /\ TableInv /\ BeforeInv)'
      BY <1>1 DEF Edit, PlaceInv, BatchInv, SetInv, GoneInv, TableInv, BeforeInv, Set, Gone, Adds, Removals, Batches, Routes, Snapshot
    <2>3. (SuccessIsLive /\ KernelIsCurrent /\ UndoReachesLive /\ TableIsCurrent)'
      BY <1>1 DEF Edit, PlaceInv, BatchInv, SetInv, GoneInv, BeforeInv, TableInv, Set, Gone, Batches, Routes, Snapshot, Success, SuccessIsLive, KernelIsCurrent, UndoReachesLive, TableIsCurrent, Done
    <2> QED
      BY <2>1, <2>2, <2>3
  <1>2. ASSUME BeginCommit PROVE IInv'
    <2>0. Flags'
      BY <1>2 DEF BeginCommit, Begin, Flags
    <2>1. TypeOK'
      BY <1>2, <2>0, NoRoutesType, SnapshotType, ScriptType DEF BeginCommit, Begin, Flags, Points, Batches
    <2>2. (PlaceInv /\ BatchInv /\ SetInv /\ GoneInv /\ TableInv /\ BeforeInv)'
      BY <1>2 DEF BeginCommit, Begin, PlaceInv, BatchInv, SetInv, GoneInv, TableInv, BeforeInv, Set, Gone, Adds, Removals, Batches, Routes, Snapshot
    <2>3. (SuccessIsLive /\ KernelIsCurrent /\ UndoReachesLive /\ TableIsCurrent)'
      BY <1>2 DEF BeginCommit, Begin, PlaceInv, BatchInv, SetInv, GoneInv, BeforeInv, TableInv, Set, Gone, Batches, Routes, Snapshot, Success, SuccessIsLive, KernelIsCurrent, UndoReachesLive, TableIsCurrent, Done
    <2> QED
      BY <2>1, <2>2, <2>3
  <1>3. ASSUME BeginRollback PROVE IInv'
    <2>0. Flags'
      BY <1>3 DEF BeginRollback, Begin, Flags
    <2>1. TypeOK'
      BY <1>3, <2>0, NoRoutesType, SnapshotType, ScriptType DEF BeginRollback, Begin, Flags, Points, Batches
    <2>2. (PlaceInv /\ BatchInv /\ SetInv /\ GoneInv /\ TableInv /\ BeforeInv)'
      BY <1>3 DEF BeginRollback, Begin, PlaceInv, BatchInv, SetInv, GoneInv, TableInv, BeforeInv, Set, Gone, Adds, Removals, Batches, Routes, Snapshot
    <2>3. (SuccessIsLive /\ KernelIsCurrent /\ UndoReachesLive /\ TableIsCurrent)'
      BY <1>3 DEF BeginRollback, Begin, PlaceInv, BatchInv, SetInv, GoneInv, BeforeInv, TableInv, Set, Gone, Batches, Routes, Snapshot, Success, SuccessIsLive, KernelIsCurrent, UndoReachesLive, TableIsCurrent, Done
    <2> QED
      BY <2>1, <2>2, <2>3
  <1>4. ASSUME Refuse PROVE IInv'
    <2>0. Flags'
      BY <1>4 DEF Refuse, Return, Goto, Flags
    <2>1. TypeOK'
      BY <1>4, <2>0, NoRoutesType, SnapshotType, ScriptType DEF Refuse, Return, Goto, Flags, Points, Batches
    <2>2. (PlaceInv /\ BatchInv /\ SetInv /\ GoneInv /\ TableInv /\ BeforeInv)'
      BY <1>4 DEF Refuse, Return, Goto, PlaceInv, BatchInv, SetInv, GoneInv, TableInv, BeforeInv, Set, Gone, Adds, Removals, Batches, Routes, Snapshot
    <2>3. (SuccessIsLive /\ KernelIsCurrent /\ UndoReachesLive /\ TableIsCurrent)'
      BY <1>4 DEF Refuse, Return, Goto, PlaceInv, BatchInv, SetInv, GoneInv, BeforeInv, TableInv, Set, Gone, Batches, Routes, Snapshot, Success, SuccessIsLive, KernelIsCurrent, UndoReachesLive, TableIsCurrent, Done
    <2> QED
      BY <2>1, <2>2, <2>3
  <1>5. ASSUME Apply PROVE IInv'
    <2>0. Flags'
      BY <1>5 DEF Apply, Run, Goto, Flags
    <2>1. TypeOK'
      BY <1>5, <2>0, NoRoutesType, SnapshotType, ScriptType DEF Apply, Run, Goto, Flags, Points, Batches
    <2>2. (PlaceInv /\ BatchInv /\ SetInv /\ GoneInv /\ TableInv /\ BeforeInv)'
      BY <1>5 DEF Apply, Run, Goto, PlaceInv, BatchInv, SetInv, GoneInv, TableInv, BeforeInv, Set, Gone, Adds, Removals, Batches, Routes, Snapshot
    <2>3. (SuccessIsLive /\ KernelIsCurrent /\ UndoReachesLive /\ TableIsCurrent)'
      BY <1>5 DEF Apply, Run, Goto, PlaceInv, BatchInv, SetInv, GoneInv, BeforeInv, TableInv, Set, Gone, Batches, Routes, Snapshot, Success, SuccessIsLive, KernelIsCurrent, UndoReachesLive, TableIsCurrent, Done
    <2> QED
      BY <2>1, <2>2, <2>3
  <1>6. ASSUME Applied PROVE IInv'
    <2>0. Flags'
      BY <1>6 DEF Applied, Run, Goto, Flags
    <2>1. TypeOK'
      BY <1>6, <2>0, NoRoutesType, SnapshotType, ScriptType DEF Applied, Run, Goto, Flags, Points, Batches
    <2>2. (PlaceInv /\ BatchInv /\ SetInv /\ GoneInv /\ TableInv /\ BeforeInv)'
      BY <1>6 DEF Applied, Run, Goto, PlaceInv, BatchInv, SetInv, GoneInv, TableInv, BeforeInv, Set, Gone, Adds, Removals, Batches, Routes, Snapshot
    <2>3. (SuccessIsLive /\ KernelIsCurrent /\ UndoReachesLive /\ TableIsCurrent)'
      BY <1>6 DEF Applied, Run, Goto, PlaceInv, BatchInv, SetInv, GoneInv, BeforeInv, TableInv, Set, Gone, Batches, Routes, Snapshot, Success, SuccessIsLive, KernelIsCurrent, UndoReachesLive, TableIsCurrent, Done
    <2> QED
      BY <2>1, <2>2, <2>3
  <1>7. ASSUME Removed PROVE IInv'
    <2>0. Flags'
      BY <1>7 DEF Removed, Goto, Flags
    <2>1. TypeOK'
      BY <1>7, <2>0, NoRoutesType, SnapshotType, ScriptType DEF Removed, Goto, Flags, Points, Batches
    <2>2. (PlaceInv /\ BatchInv /\ SetInv /\ GoneInv /\ TableInv /\ BeforeInv)'
      BY <1>7 DEF Removed, Goto, PlaceInv, BatchInv, SetInv, GoneInv, TableInv, BeforeInv, Set, Gone, Adds, Removals, Batches, Routes, Snapshot
    <2>3. (SuccessIsLive /\ KernelIsCurrent /\ UndoReachesLive /\ TableIsCurrent)'
      BY <1>7 DEF Removed, Goto, PlaceInv, BatchInv, SetInv, GoneInv, BeforeInv, TableInv, Set, Gone, Batches, Routes, Snapshot, Success, SuccessIsLive, KernelIsCurrent, UndoReachesLive, TableIsCurrent, Done
    <2> QED
      BY <2>1, <2>2, <2>3
  <1>8. ASSUME Reverted PROVE IInv'
    <2>0. Flags'
      BY <1>8 DEF Reverted, Return, Run, Goto, Flags
    <2>1. TypeOK'
      BY <1>8, <2>0, NoRoutesType, SnapshotType, ScriptType DEF Reverted, Return, Run, Goto, Flags, Points, Batches
    <2>2. (PlaceInv /\ BatchInv /\ SetInv /\ GoneInv /\ TableInv /\ BeforeInv)'
      BY <1>8 DEF Reverted, Return, Run, Goto, PlaceInv, BatchInv, SetInv, GoneInv, TableInv, BeforeInv, Set, Gone, Adds, Removals, Batches, Routes, Snapshot
    <2>3. (SuccessIsLive /\ KernelIsCurrent /\ UndoReachesLive /\ TableIsCurrent)'
      BY <1>8 DEF Reverted, Return, Run, Goto, PlaceInv, BatchInv, SetInv, GoneInv, BeforeInv, TableInv, Set, Gone, Batches, Routes, Snapshot, Success, SuccessIsLive, KernelIsCurrent, UndoReachesLive, TableIsCurrent, Done
    <2> QED
      BY <2>1, <2>2, <2>3
  <1>9. ASSUME CleanedUp PROVE IInv'
    <2>0. Flags'
      BY <1>9 DEF CleanedUp, Return, Goto, Flags
    <2>1. TypeOK'
      BY <1>9, <2>0, NoRoutesType, SnapshotType, ScriptType DEF CleanedUp, Return, Goto, Flags, Points, Batches
    <2>2. (PlaceInv /\ BatchInv /\ SetInv /\ GoneInv /\ TableInv /\ BeforeInv)'
      BY <1>9 DEF CleanedUp, Return, Goto, PlaceInv, BatchInv, SetInv, GoneInv, TableInv, BeforeInv, Set, Gone, Adds, Removals, Batches, Routes, Snapshot
    <2>3. (SuccessIsLive /\ KernelIsCurrent /\ UndoReachesLive /\ TableIsCurrent)'
      BY <1>9 DEF CleanedUp, Return, Goto, PlaceInv, BatchInv, SetInv, GoneInv, BeforeInv, TableInv, Set, Gone, Batches, Routes, Snapshot, Success, SuccessIsLive, KernelIsCurrent, UndoReachesLive, TableIsCurrent, Done
    <2> QED
      BY <2>1, <2>2, <2>3
  <1>10. ASSUME NEW line \in batch, RunLine(line) PROVE IInv'
    <2>0. Flags'
      BY <1>10 DEF RunLine, Does, Possible, Flags
    <2>1. TypeOK'
      BY <1>10, <2>0 DEF RunLine, Does, Possible, Flags, Routes, Lines, Points, Batches
    <2>2. (PlaceInv /\ BatchInv /\ SetInv /\ GoneInv /\ TableInv /\ BeforeInv)'
      BY <1>10 DEF RunLine, Does, Possible, PlaceInv, BatchInv, SetInv, GoneInv, TableInv, BeforeInv, Set, Gone, Adds, Removals, Batches, Routes, Snapshot
    <2>3. (SuccessIsLive /\ KernelIsCurrent /\ UndoReachesLive /\ TableIsCurrent)'
      BY <1>10 DEF RunLine, Does, Possible, PlaceInv, BatchInv, SetInv, GoneInv, BeforeInv, TableInv, Set, Gone, Batches, Routes, Snapshot, Success, SuccessIsLive, KernelIsCurrent, UndoReachesLive, TableIsCurrent, Done
    <2> QED
      BY <2>1, <2>2, <2>3
  <1>11. ASSUME NEW line \in batch, LineFails(line) PROVE IInv'
    <2>0. Flags'
      BY <1>11 DEF LineFails, Possible, Fault, Run, Goto, Flags
    <2>1. TypeOK'
      BY <1>11, <2>0, NoRoutesType, SnapshotType, ScriptType DEF LineFails, Possible, Fault, Run, Goto, Flags, Points, Batches
    <2>2. PlaceInv'
      BY <1>11 DEF LineFails, Possible, Fault, Run, Goto, PlaceInv, Snapshot, Batches
    <2>3. BatchInv'
      BY <1>11 DEF LineFails, Possible, Fault, Run, Goto, PlaceInv, BatchInv, Adds, Removals, Batches
    <2>4. SetInv'
      BY <1>11 DEF LineFails, Possible, Fault, Run, Goto, PlaceInv, BatchInv, SetInv, Set, Adds, Removals, Batches, Routes
    <2>5. GoneInv'
      <3>1. CASE at = "apply"
        BY <1>11, <3>1 DEF LineFails, Possible, Fault, Run, Goto, BatchInv, GoneInv, Routes
      <3>2. CASE at = "cleanup"
        BY <1>11, <3>2 DEF LineFails, Possible, Fault, Run, Goto, BatchInv, GoneInv, Gone, Removals, Lines, Routes
      <3>3. CASE at \in {"revert", "remove", "boot"}
        BY <1>11, <3>3 DEF LineFails, Possible, Fault, Run, Goto, BatchInv, GoneInv
      <3> QED
        BY <1>11, <3>1, <3>2, <3>3 DEF LineFails, Batches
    <2>6. (TableInv /\ BeforeInv)'
      BY <1>11 DEF LineFails, Possible, Fault, Run, Goto, PlaceInv, TableInv, BeforeInv, GoneInv, Batches
    <2>7. (SuccessIsLive /\ KernelIsCurrent)'
      BY <1>11 DEF LineFails, Possible, Fault, Run, Goto, PlaceInv, BatchInv, SetInv, GoneInv, BeforeInv, Set, Gone, Batches, Routes, Snapshot, Success, SuccessIsLive, KernelIsCurrent, Done
    <2>8. (UndoReachesLive /\ TableIsCurrent)'
      BY <1>11 DEF LineFails, Possible, Fault, Run, Goto, PlaceInv, BatchInv, BeforeInv, TableInv, Batches, Snapshot, Success, UndoReachesLive, TableIsCurrent, Done
    <2> QED
      BY <2>1, <2>2, <2>3, <2>4, <2>5, <2>6, <2>7, <2>8
  <1>12. ASSUME CannotRun PROVE IInv'
    <2>0. Flags'
      BY <1>12 DEF CannotRun, Fault, Return, Goto, Flags
    <2>1. TypeOK'
      BY <1>12, <2>0, NoRoutesType, SnapshotType, ScriptType DEF CannotRun, Fault, Return, Goto, Flags, Points, Batches
    <2>2. PlaceInv'
      BY <1>12 DEF CannotRun, Fault, Return, Goto, PlaceInv, Snapshot, Batches
    <2>3. BatchInv'
      BY <1>12 DEF CannotRun, Fault, Return, Goto, PlaceInv, BatchInv, Adds, Removals, Batches
    <2>4. SetInv'
      BY <1>12 DEF CannotRun, Fault, Return, Goto, PlaceInv, BatchInv, SetInv, Set, Adds, Removals, Batches, Routes
    <2>5. GoneInv'
      BY <1>12 DEF CannotRun, Fault, Return, Goto, PlaceInv, BatchInv, SetInv, GoneInv, Set, Gone, Adds, Removals, Batches, Routes, Snapshot
    <2>6. (TableInv /\ BeforeInv)'
      BY <1>12 DEF CannotRun, Fault, Return, Goto, PlaceInv, TableInv, BeforeInv, GoneInv, Batches
    <2>7. (SuccessIsLive /\ KernelIsCurrent)'
      <3>1. at = "apply" /\ batch = Adds(desired) /\ synced /\ alone => kernel = prior
        BY SameRoutes DEF GoneInv, Adds
      <3> QED
        BY <1>12, <3>1 DEF CannotRun, Fault, Return, Goto, PlaceInv, Snapshot, SuccessIsLive, KernelIsCurrent, Done, Batches
    <2>8. (UndoReachesLive /\ TableIsCurrent)'
      BY <1>12 DEF CannotRun, Fault, Return, Goto, PlaceInv, BatchInv, BeforeInv, TableInv, Batches, Snapshot, Success, UndoReachesLive, TableIsCurrent, Done
    <2> QED
      BY <2>1, <2>2, <2>3, <2>4, <2>5, <2>6, <2>7, <2>8
  <1>13. ASSUME SaveFile PROVE IInv'
    <2>0. Flags'
      BY <1>13 DEF SaveFile, Advance, Return, Goto, Flags
    <2>1. TypeOK'
      BY <1>13, <2>0, NoRoutesType, SnapshotType, ScriptType DEF SaveFile, Advance, Return, Goto, Flags, Points, Batches, Success
    <2>2. PlaceInv'
      BY <1>13 DEF SaveFile, Advance, Return, Goto, PlaceInv, Snapshot, Batches
    <2>3. BatchInv'
      BY <1>13 DEF SaveFile, Advance, Return, Goto, PlaceInv, BatchInv, Adds, Removals, Batches
    <2>4. SetInv'
      BY <1>13 DEF SaveFile, Advance, Return, Goto, PlaceInv, BatchInv, SetInv, Set, Adds, Removals, Batches, Routes
    <2>5. GoneInv'
      BY <1>13 DEF SaveFile, Advance, Return, Goto, PlaceInv, BatchInv, SetInv, GoneInv, Set, Gone, Adds, Removals, Batches, Routes, Snapshot
    <2>6. (TableInv /\ BeforeInv)'
      BY <1>13 DEF SaveFile, Advance, Return, Goto, PlaceInv, TableInv, BeforeInv, GoneInv, Batches
    <2>7. (SuccessIsLive /\ KernelIsCurrent)'
      <3>1. synced /\ alone /\ ~failed => kernel = desired
        BY <1>13, KernelWhenSaving DEF SaveFile
      <3>2. desired # Absent /\ (alone /\ at \in {"save", "resave"} => Set(desired) /\ batch = {})
        BY DEF BatchInv, SetInv, Batches
      <3>3. SuccessIsLive'
        BY <1>13, <3>2 DEF SaveFile, Advance, Return, Goto, Set, Success, SuccessIsLive, Done
      <3>4. KernelIsCurrent'
        BY <1>13, <3>1, <3>2 DEF SaveFile, Advance, Return, Goto, Success, Snapshot, KernelIsCurrent, Done
      <3> QED
        BY <3>3, <3>4
    <2>8. (UndoReachesLive /\ TableIsCurrent)'
      BY <1>13 DEF SaveFile, Advance, Return, Goto, PlaceInv, BatchInv, BeforeInv, TableInv, Batches, Snapshot, Success, UndoReachesLive, TableIsCurrent, Done
    <2> QED
      BY <2>1, <2>2, <2>3, <2>4, <2>5, <2>6, <2>7, <2>8
  <1>14. ASSUME Sync PROVE IInv'
    <2>0. Flags'
      BY <1>14 DEF Sync, Goto, Flags
    <2>1. TypeOK'
      BY <1>14, <2>0, NoRoutesType, SnapshotType, ScriptType DEF Sync, Goto, Flags, Points, Batches
    <2>2. (PlaceInv /\ BatchInv /\ SetInv /\ GoneInv /\ TableInv /\ BeforeInv)'
      BY <1>14 DEF Sync, Goto, PlaceInv, BatchInv, SetInv, GoneInv, TableInv, BeforeInv, Set, Gone, Adds, Removals, Batches, Routes, Snapshot
    <2>3. (SuccessIsLive /\ KernelIsCurrent /\ UndoReachesLive /\ TableIsCurrent)'
      BY <1>14 DEF Sync, Goto, PlaceInv, BatchInv, SetInv, GoneInv, BeforeInv, TableInv, Set, Gone, Batches, Routes, Snapshot, Success, SuccessIsLive, KernelIsCurrent, UndoReachesLive, TableIsCurrent, Done
    <2> QED
      BY <2>1, <2>2, <2>3
  <1>15. ASSUME Resave PROVE IInv'
    <2>0. Flags'
      BY <1>15 DEF Resave, Return, Goto, Flags
    <2>1. TypeOK'
      BY <1>15, <2>0, NoRoutesType, SnapshotType, ScriptType DEF Resave, Return, Goto, Flags, Points, Batches, Success
    <2>2. PlaceInv'
      BY <1>15 DEF Resave, Return, Goto, PlaceInv, Snapshot, Batches
    <2>3. BatchInv'
      BY <1>15 DEF Resave, Return, Goto, PlaceInv, BatchInv, Adds, Removals, Batches
    <2>4. SetInv'
      BY <1>15 DEF Resave, Return, Goto, PlaceInv, BatchInv, SetInv, Set, Adds, Removals, Batches, Routes
    <2>5. GoneInv'
      BY <1>15 DEF Resave, Return, Goto, PlaceInv, BatchInv, SetInv, GoneInv, Set, Gone, Adds, Removals, Batches, Routes, Snapshot
    <2>6. (TableInv /\ BeforeInv)'
      BY <1>15 DEF Resave, Return, Goto, PlaceInv, TableInv, BeforeInv, GoneInv, Batches
    <2>7. (SuccessIsLive /\ KernelIsCurrent)'
      <3>1. synced /\ alone /\ ~failed => kernel = desired
        BY <1>15, KernelWhenSaving DEF Resave
      <3>2. desired # Absent /\ (alone /\ at \in {"save", "resave"} => Set(desired) /\ batch = {})
        BY DEF BatchInv, SetInv, Batches
      <3>3. SuccessIsLive'
        BY <1>15, <3>2 DEF Resave, Return, Goto, Set, Success, SuccessIsLive, Done
      <3>4. KernelIsCurrent'
        BY <1>15, <3>1, <3>2 DEF Resave, Return, Goto, Success, Snapshot, KernelIsCurrent, Done
      <3> QED
        BY <3>3, <3>4
    <2>8. (UndoReachesLive /\ TableIsCurrent)'
      BY <1>15 DEF Resave, Return, Goto, PlaceInv, BatchInv, BeforeInv, TableInv, Batches, Snapshot, Success, UndoReachesLive, TableIsCurrent, Done
    <2> QED
      BY <2>1, <2>2, <2>3, <2>4, <2>5, <2>6, <2>7, <2>8
  <1>16. ASSUME StoreFails PROVE IInv'
    <2>0. Flags'
      BY <1>16 DEF StoreFails, Fault, Interrupted, Return, Goto, Flags
    <2>1. TypeOK'
      BY <1>16, <2>0, NoRoutesType, SnapshotType, ScriptType DEF StoreFails, Fault, Interrupted, Return, Goto, Flags, Points, Batches
    <2>2. (PlaceInv /\ BatchInv /\ SetInv /\ GoneInv /\ TableInv /\ BeforeInv)'
      BY <1>16 DEF StoreFails, Fault, Interrupted, Return, Goto, PlaceInv, BatchInv, SetInv, GoneInv, TableInv, BeforeInv, Set, Gone, Adds, Removals, Batches, Routes, Snapshot
    <2>3. (SuccessIsLive /\ KernelIsCurrent /\ UndoReachesLive /\ TableIsCurrent)'
      BY <1>16 DEF StoreFails, Fault, Interrupted, Return, Goto, PlaceInv, BatchInv, SetInv, GoneInv, BeforeInv, TableInv, Set, Gone, Batches, Routes, Snapshot, Success, SuccessIsLive, KernelIsCurrent, UndoReachesLive, TableIsCurrent, Done
    <2> QED
      BY <2>1, <2>2, <2>3
  <1>17. ASSUME Cancel PROVE IInv'
    <2>0. Flags'
      BY <1>17 DEF Cancel, Return, Goto, Flags
    <2>1. TypeOK'
      BY <1>17, <2>0, NoRoutesType, SnapshotType, ScriptType DEF Cancel, Return, Goto, Flags, Points, Batches
    <2>2. (PlaceInv /\ BatchInv /\ SetInv /\ GoneInv /\ TableInv /\ BeforeInv)'
      BY <1>17 DEF Cancel, Return, Goto, PlaceInv, BatchInv, SetInv, GoneInv, TableInv, BeforeInv, Set, Gone, Adds, Removals, Batches, Routes, Snapshot
    <2>3. (SuccessIsLive /\ KernelIsCurrent /\ UndoReachesLive /\ TableIsCurrent)'
      BY <1>17 DEF Cancel, Return, Goto, PlaceInv, BatchInv, SetInv, GoneInv, BeforeInv, TableInv, Set, Gone, Batches, Routes, Snapshot, Success, SuccessIsLive, KernelIsCurrent, UndoReachesLive, TableIsCurrent, Done
    <2> QED
      BY <2>1, <2>2, <2>3
  <1>18. ASSUME NEW line \in orphan, OrphanLine(line) PROVE IInv'
    <2>0. Flags'
      BY <1>18 DEF OrphanLine, Possible, Does, Flags
    <2>1. TypeOK'
      BY <1>18, <2>0 DEF OrphanLine, Possible, Does, Flags, Routes, Lines, Points
    <2>2. (PlaceInv /\ BatchInv /\ SetInv /\ GoneInv /\ TableInv /\ BeforeInv)'
      BY <1>18 DEF OrphanLine, Possible, Does, PlaceInv, BatchInv, SetInv, GoneInv, TableInv, BeforeInv, Set, Gone, Adds, Removals, Batches, Routes, Snapshot
    <2>3. (SuccessIsLive /\ KernelIsCurrent /\ UndoReachesLive /\ TableIsCurrent)'
      BY <1>18, SameRoutes DEF OrphanLine, Possible, Does, PlaceInv, BatchInv, SetInv, GoneInv, BeforeInv, TableInv, Set, Gone, Batches, Snapshot, Success, SuccessIsLive, KernelIsCurrent, UndoReachesLive, TableIsCurrent, Done
    <2> QED
      BY <2>1, <2>2, <2>3
  <1>19. ASSUME Crash PROVE IInv'
    <2>0. Flags'
      BY <1>19 DEF Crash, Interrupted, Flags
    <2>1. TypeOK'
      BY <1>19, <2>0, NoRoutesType, SnapshotType, ScriptType DEF Crash, Interrupted, Flags, Points, Batches
    <2>2. (PlaceInv /\ BatchInv /\ SetInv /\ GoneInv /\ TableInv /\ BeforeInv)'
      BY <1>19 DEF Crash, Interrupted, PlaceInv, BatchInv, SetInv, GoneInv, TableInv, BeforeInv, Set, Gone, Adds, Removals, Batches, Routes, Snapshot
    <2>3. (SuccessIsLive /\ KernelIsCurrent /\ UndoReachesLive /\ TableIsCurrent)'
      BY <1>19 DEF Crash, Interrupted, PlaceInv, BatchInv, SetInv, GoneInv, BeforeInv, TableInv, Set, Gone, Batches, Routes, Snapshot, Success, SuccessIsLive, KernelIsCurrent, UndoReachesLive, TableIsCurrent, Done
    <2> QED
      BY <2>1, <2>2, <2>3
  <1>20. ASSUME Booted PROVE IInv'
    <2>0. Flags'
      BY <1>20 DEF Booted, Return, Goto, Flags
    <2>1. TypeOK'
      BY <1>20, <2>0, NoRoutesType, SnapshotType, ScriptType DEF Booted, Return, Goto, Flags, Points, Batches
    <2>2. (PlaceInv /\ BatchInv /\ SetInv /\ GoneInv /\ TableInv /\ BeforeInv)'
      BY <1>20 DEF Booted, Return, Goto, PlaceInv, BatchInv, SetInv, GoneInv, TableInv, BeforeInv, Set, Gone, Adds, Removals, Batches, Routes, Snapshot
    <2>3. (SuccessIsLive /\ KernelIsCurrent /\ UndoReachesLive /\ TableIsCurrent)'
      BY <1>20 DEF Booted, Return, Goto, PlaceInv, BatchInv, SetInv, GoneInv, BeforeInv, TableInv, Set, Gone, Batches, Routes, Snapshot, Success, SuccessIsLive, KernelIsCurrent, UndoReachesLive, TableIsCurrent, Done
    <2> QED
      BY <2>1, <2>2, <2>3
  <1>21. ASSUME UNCHANGED vars PROVE IInv'
    BY <1>21 DEF vars, PlaceInv, BatchInv, SetInv, GoneInv, TableInv, BeforeInv, Set, Gone, SuccessIsLive, KernelIsCurrent, UndoReachesLive, TableIsCurrent, Done
  <1> QED
    BY <1>1, <1>2, <1>3, <1>4, <1>5, <1>6, <1>7, <1>8, <1>9, <1>10, <1>11, <1>12, <1>13, <1>14, <1>15, <1>16, <1>17, <1>18, <1>19, <1>20, <1>21 DEF Next

\* The invariant holds in every reachable state.
THEOREM IInvHolds == Spec => []IInv
  BY InitIInv, InvStep, PTL DEF Spec

\* Every variable keeps its type.
THEOREM TypeCorrect == Spec => []TypeOK
  <1>1. IInv => TypeOK
    BY DEF IInv
  <1> QED
    BY IInvHolds, <1>1, PTL

\* After a success the kernel has every route of current.*.
THEOREM SuccessIsLiveHolds == Spec => []SuccessIsLive
  <1>1. IInv => SuccessIsLive
    BY DEF IInv
  <1> QED
    BY IInvHolds, <1>1, PTL

\* What current.* described before an operation it describes after it.
THEOREM KernelIsCurrentHolds == Spec => []KernelIsCurrent
  <1>1. IInv => KernelIsCurrent
    BY DEF IInv
  <1> QED
    BY IInvHolds, <1>1, PTL

\* A rollback after a success goes back to the routes the kernel had.
THEOREM UndoReachesLiveHolds == Spec => []UndoReachesLive
  <1>1. IInv => UndoReachesLive
    BY DEF IInv
  <1> QED
    BY IInvHolds, <1>1, PTL

\* After a success an unedited table holds what is saved.
THEOREM TableIsCurrentHolds == Spec => []TableIsCurrent
  <1>1. IInv => TableIsCurrent
    BY DEF IInv
  <1> QED
    BY IInvHolds, <1>1, PTL
=============================================================================
