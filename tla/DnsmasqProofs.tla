---------------------------- MODULE DnsmasqProofs ----------------------------
(***************************************************************************)
(* Proofs about Dnsmasq, for any configurations and any bounds.            *)
(***************************************************************************)
EXTENDS Dnsmasq, TLAPS

\* Which points belong to which operation, and what it carries with it.
CommitPoints == {"check", "apply", "verify", "restore", "restart", "save"}
RollbackPoints == {"check", "apply", "verify", "sync", "resave"}

PlaceInv ==
  /\ at # "idle" /\ op = "commit" => at \in CommitPoints /\ target \in Configs /\ snap = target
  /\ at # "idle" /\ op = "rollback" =>
       /\ at \in RollbackPoints
       /\ target = previous[server]["conf"] /\ target # Absent
       /\ snap = previous[server]["json"] /\ snap \in Configs
  /\ at = "resave" => n \in 1..2
  /\ at \notin {"save", "resave"} => n = 1

\* The live file and dnsmasq follow the operation.  An orphan may stop or start dnsmasq, on
\* the same files.
ServiceInv ==
  /\ at \in {"apply", "verify", "save", "sync", "resave"} => conf[server] = target
  /\ at = "verify" => Restarts(snap) /\ (alone => loaded = conf)
  /\ at \in {"verify", "save", "sync", "resave"} => loaded \in {conf, Stopped}
  /\ at \in {"save", "sync", "resave"} /\ alone => loaded = IF Restarts(snap) THEN conf ELSE Stopped

\* Who began alone stays alone: an orphan is left only where an operation ends without success.
AloneInv == alone /\ (at # "idle" \/ outcome = "ok") => orphans = NoOrphans

\* The files of current.* and previous.* are written one after the other.
FileInv ==
  /\ \A s \in Servers : current[s]["conf"] = Absent => current[s]["json"] = Absent
  /\ at = "save" /\ n = 2 /\ current[server]["conf"] # Absent => previous[server]["conf"] = current[server]["conf"]
  /\ at = "save" /\ n = 2 /\ current[server]["conf"] = Absent /\ ~mixed => Coherent(previous[server])
  /\ at = "save" /\ n = 4 => current[server]["conf"] = target
  /\ at = "resave" /\ n = 2 => current[server]["conf"] = target

\* As long as only configurations fail: nothing is torn, and what the operation has not
\* yet replaced is what was live before it.
NothingTorn ==
  /\ ~mixed
  /\ \A s \in Servers : conf[s] # Torn /\ current[s]["conf"] # Torn /\ previous[s]["conf"] # Torn
  /\ \A s \in Servers : current[s]["conf"] = Absent => previous[s]["conf"] = Absent

SavedOrNever(s, text) == current[s]["conf"] \in {Absent, text}

LiveInv ==
  /\ \A s \in Servers : s # server => SavedOrNever(s, conf[s])
  /\ at = "idle" => SavedOrNever(server, conf[server])
  /\ at = "check" => before = conf[server] /\ served = loaded
  /\ at \notin {"idle", "save", "resave"} \/ (at = "save" /\ n < 4) \/ (at = "resave" /\ n = 1) => SavedOrNever(server, before)
  /\ at \in {"idle", "check", "restore", "restart"} => loaded \in {Stopped, conf}
  /\ at \in {"restore", "restart"} => loaded = Stopped

BackupInv ==
  /\ before # Torn
  /\ at # "idle" /\ at # "check" /\ op = "commit" => backup = before
  /\ at = "restart" => conf[server] = before /\ before # Absent
  /\ at = "save" /\ n > 1 => previous[server]["conf"] \in {Absent, before}
  /\ at = "save" /\ n > 2 /\ previous[server]["conf"] # Absent => previous[server]["json"] = before

QuietInv == Undisturbed => alone /\ orphans = NoOrphans /\ NothingTorn /\ LiveInv /\ BackupInv /\ UndoReachesLive /\ FailureRestores

\* The inductive invariant.
IInv == TypeOK /\ PlaceInv /\ ServiceInv /\ AloneInv /\ FileInv /\ HistoryCoherent /\ SuccessIsLive
-----------------------------------------------------------------------------
\* Every initial state satisfies the invariant.
LEMMA InitIInv == Init => IInv
  <1> SUFFICES ASSUME Init PROVE IInv
    OBVIOUS
  <1> USE DnsmasqAssumption DEF Init, Servers, Configs, Content, Live, Kinds, Commands, NoOrphans, FileSet, Points
  <1>1. TypeOK
    <2>1. mixed \in BOOLEAN
      OBVIOUS
    <2>2. current \in [Servers -> FileSet] /\ previous \in [Servers -> FileSet]
      OBVIOUS
    <2> QED
      BY <2>1, <2>2 DEF TypeOK
  <1>2. PlaceInv /\ ServiceInv /\ AloneInv /\ FileInv /\ SuccessIsLive
    BY DEF PlaceInv, ServiceInv, AloneInv, FileInv, SuccessIsLive, Done
  <1>3. HistoryCoherent
    BY DEF HistoryCoherent, Coherent
  <1> QED
    BY <1>1, <1>2, <1>3 DEF IInv

\* What an operation that is cut short may leave of the two sets of files.
FilesAfterStop ==
  /\ current' \in [Servers -> FileSet] /\ previous' \in [Servers -> FileSet]
  /\ mixed' \in BOOLEAN
  /\ \A s \in Servers : current'[s]["conf"] = Absent => current'[s]["json"] = Absent
  /\ ~mixed' => ~mixed /\ \A s \in Servers : Coherent(current[s])' /\ Coherent(previous[s])'

LEMMA InterruptedFiles == IInv /\ Interrupted => FilesAfterStop
  <1> SUFFICES ASSUME IInv, Interrupted PROVE FilesAfterStop
    OBVIOUS
  <1> USE DnsmasqAssumption
      DEF IInv, TypeOK, PlaceInv, FileInv, HistoryCoherent, Coherent, Interrupted, FilesAfterStop,
          Servers, Configs, Content, Kinds, FileSet, Points
  <1>1. CASE at \notin {"save", "resave"}
    BY <1>1 DEF sets
  <1>2. CASE at \in {"save", "resave"} /\ UNCHANGED sets
    <2>1. mixed' \in BOOLEAN
      BY <1>2, Zenon
    <2>2. (~mixed') => ~mixed /\ n \notin {2, 4}
      BY <1>2
    <2> QED
      BY <1>2, <2>1, <2>2 DEF sets
  <1>3. CASE at \in {"save", "resave"} /\ ~UNCHANGED sets
    <2>1. mixed' \in BOOLEAN
      BY <1>3, Zenon
    <2>2. (~mixed') => ~mixed /\ n \notin {2, 4}
      BY <1>3
    <2>3. \/ at = "save" /\ n \in {1, 2} /\ current[server][Kind] # Absent
             /\ previous' = Put(previous, Kind, Torn) /\ UNCHANGED current
          \/ (at = "resave" \/ n \in {3, 4}) /\ current' = Put(current, Kind, Torn) /\ UNCHANGED previous
      BY <1>3 DEF Damage
    <2> QED
      BY <1>3, <2>1, <2>2, <2>3 DEF Put, Kind
  <1> QED
    BY <1>1, <1>2, <1>3

\* Every step keeps the invariant.
LEMMA InvStep == IInv /\ [Next]_vars => IInv'
  <1> SUFFICES ASSUME IInv, [Next]_vars PROVE IInv'
    OBVIOUS
  <1> USE DnsmasqAssumption
      DEF IInv, TypeOK, PlaceInv, ServiceInv, AloneInv, FileInv, HistoryCoherent, Coherent, SuccessIsLive, Done,
          Restarts, Stops, Servers, Configs, Content, Live, Kinds, Commands, NoOrphans, FileSet, Points, CommitPoints, RollbackPoints,
          vars, sets, locals, place, counts, history
  <1>1. ASSUME NEW s \in Servers, NEW c \in Configs, Edit(s, c) PROVE IInv'
    BY <1>1 DEF Edit
  <1>2. ASSUME NEW s \in Servers, BeginCommit(s) PROVE IInv'
    BY <1>2 DEF BeginCommit, Begin
  <1>3. ASSUME NEW s \in Servers, BeginRollback(s) PROVE IInv'
    BY <1>3 DEF BeginRollback, Begin
  <1>4. ASSUME WriteLive PROVE IInv'
    BY <1>4 DEF WriteLive, Mishap, Goto
  <1>5. ASSUME WriteLiveFails PROVE IInv'
    BY <1>5 DEF WriteLiveFails, Mishap, Return, Goto
  <1>6. ASSUME Refuse PROVE IInv'
    BY <1>6 DEF Refuse, Return, Goto
  <1>7. ASSUME Systemctl PROVE IInv'
    BY <1>7 DEF Systemctl, Goto
  <1>8. ASSUME StaysActive PROVE IInv'
    BY <1>8 DEF StaysActive, Goto
  <1>9. ASSUME ServiceFails PROVE IInv'
    BY <1>9 DEF ServiceFails, ApplyFailed, Mishap, Return, Goto
  <1>10. ASSUME SystemctlFails PROVE IInv'
    BY <1>10 DEF SystemctlFails, ApplyFailed, Mishap, Return, Goto
  <1>11. ASSUME Restore PROVE IInv'
    BY <1>11 DEF Restore, Mishap, Return, Goto
  <1>12. ASSUME Restart PROVE IInv'
    BY <1>12 DEF Restart, Reapplied, Served, Mishap, Return, Goto
  <1>13. ASSUME SaveFile PROVE IInv'
    <2> USE <1>13 DEF SaveFile, Copy, Put, Return, Goto
    <2>1. CASE n = 1
      BY <2>1
    <2>2. CASE n = 2
      <3>1. /\ at' = "save" /\ n' = 3 /\ current' = current
            /\ previous' \in [Servers -> FileSet]
            /\ UNCHANGED <<db, conf, loaded, server, op, locals, outcome, counts, history>>
        BY <2>2
      <3>2. (~mixed) => \A s \in Servers : Coherent(previous[s])'
        <4>1. ASSUME NEW s \in Servers, ~mixed, s # server PROVE Coherent(previous[s])'
          BY <2>2, <4>1
        <4>2. ASSUME ~mixed PROVE Coherent(previous[server])'
          BY <2>2, <4>2
        <4> QED
          BY <4>1, <4>2
      <3>3. TypeOK' /\ PlaceInv' /\ ServiceInv' /\ AloneInv' /\ FileInv' /\ SuccessIsLive'
        BY <2>2, <3>1
      <3>4. HistoryCoherent'
        BY <2>2, <3>1, <3>2
      <3> QED
        BY <3>3, <3>4
    <2>3. CASE n = 3
      BY <2>3
    <2>4. CASE n = 4
      BY <2>4
    <2> QED
      BY <2>1, <2>2, <2>3, <2>4
  <1>14. ASSUME Sync PROVE IInv'
    BY <1>14 DEF Sync, Goto
  <1>15. ASSUME SyncFails PROVE IInv'
    BY <1>15 DEF SyncFails, Mishap, Return, Goto
  <1>16. ASSUME ResaveFile PROVE IInv'
    BY <1>16 DEF ResaveFile, Copy, Return, Goto
  <1>17. ASSUME WriteFails PROVE IInv'
    <2>1. FilesAfterStop
      BY <1>17, InterruptedFiles DEF WriteFails
    <2> QED
      BY <1>17, <2>1 DEF WriteFails, FilesAfterStop, Mishap, Return, Goto
  <1>18. ASSUME Cancel PROVE IInv'
    BY <1>18 DEF Cancel, Orphaned, Running, Reapplied, Mishap, Return, Goto
  <1>19. ASSUME Crash PROVE IInv'
    <2>1. FilesAfterStop
      BY <1>19, InterruptedFiles DEF Crash
    <2> QED
      BY <1>19, <2>1 DEF Crash, FilesAfterStop, Orphaned, Running, Reapplied, Mishap, Return, Goto
  <1>20. ASSUME NEW c \in Commands, OrphanEnds(c) PROVE IInv'
    BY <1>20 DEF OrphanEnds, Served
  <1>21. ASSUME UNCHANGED vars PROVE IInv'
    BY <1>21
  <1> QED
    BY <1>1, <1>2, <1>3, <1>4, <1>5, <1>6, <1>7, <1>8, <1>9, <1>10, <1>11, <1>12, <1>13, <1>14, <1>15, <1>16, <1>17, <1>18, <1>19, <1>20, <1>21 DEF Next

\* The invariant holds in every reachable state.
THEOREM IInvHolds == Spec => []IInv
  BY InitIInv, InvStep, PTL DEF Spec

\* Every variable keeps its type.
THEOREM TypeCorrect == Spec => []TypeOK
  <1>1. IInv => TypeOK
    BY DEF IInv
  <1> QED
    BY IInvHolds, <1>1, PTL

\* What a rollback would install and what it would store are of one configuration.
THEOREM HistoryCoherentHolds == Spec => []HistoryCoherent
  <1>1. IInv => HistoryCoherent
    BY DEF IInv
  <1> QED
    BY IInvHolds, <1>1, PTL

\* After a success current.* describes the file on disk, and dnsmasq runs as it asks, unless
\* the systemctl of a dropped handler (dns/commit.rs, dhcp/commit.rs) ran on beside it: then
\* it runs the files on disk or is stopped.
THEOREM SuccessIsLiveHolds == Spec => []SuccessIsLive
  <1>1. IInv => SuccessIsLive
    BY DEF IInv
  <1> QED
    BY IInvHolds, <1>1, PTL
-----------------------------------------------------------------------------
(* While only configurations fail.                                         *)

\* Every initial state satisfies what holds while only configurations fail.
LEMMA InitQuiet == Init => QuietInv
  BY DnsmasqAssumption
  DEF Init, QuietInv, NothingTorn, LiveInv, BackupInv, SavedOrNever, UndoReachesLive, FailureRestores, Done,
      Servers, Configs, Content, Live, Kinds, NoOrphans

\* Every step keeps it: a step that counts a failure leaves nothing to show.
LEMMA QuietStep == IInv /\ QuietInv /\ [Next]_vars => QuietInv'
  <1> SUFFICES ASSUME IInv, QuietInv, [Next]_vars, Undisturbed' PROVE QuietInv'
    BY DEF QuietInv
  <1> USE DnsmasqAssumption
      DEF IInv, TypeOK, PlaceInv, ServiceInv, AloneInv, FileInv, Undisturbed, Done, QuietInv, NothingTorn, LiveInv, BackupInv,
          SavedOrNever, UndoReachesLive, FailureRestores, HistoryCoherent, Coherent,
          Restarts, Stops, Servers, Configs, Content, Live, Kinds, Commands, NoOrphans, FileSet, Points, CommitPoints, RollbackPoints,
          vars, sets, locals, place, counts, history
  <1>1. ASSUME NEW s \in Servers, NEW c \in Configs, Edit(s, c) PROVE QuietInv'
    BY <1>1 DEF Edit
  <1>2. ASSUME NEW s \in Servers, BeginCommit(s) PROVE QuietInv'
    BY <1>2 DEF BeginCommit, Begin
  <1>3. ASSUME NEW s \in Servers, BeginRollback(s) PROVE QuietInv'
    BY <1>3 DEF BeginRollback, Begin
  <1>4. ASSUME WriteLive PROVE QuietInv'
    BY <1>4 DEF WriteLive, Mishap, Goto
  <1>5. ASSUME Refuse PROVE QuietInv'
    BY <1>5 DEF Refuse, Return, Goto
  <1>6. ASSUME Systemctl PROVE QuietInv'
    BY <1>6 DEF Systemctl, Goto
  <1>7. ASSUME StaysActive PROVE QuietInv'
    BY <1>7 DEF StaysActive, Goto
  <1>8. ASSUME ServiceFails PROVE QuietInv'
    BY <1>8 DEF ServiceFails, ApplyFailed, Mishap, Return, Goto
  <1>9. ASSUME Restore PROVE QuietInv'
    BY <1>9 DEF Restore, Mishap, Return, Goto
  <1>10. ASSUME Restart PROVE QuietInv'
    BY <1>10 DEF Restart, Reapplied, Served, Mishap, Return, Goto
  <1>11. ASSUME SaveFile PROVE QuietInv'
    BY <1>11 DEF SaveFile, Copy, Put, Return, Goto
  <1>12. ASSUME Sync PROVE QuietInv'
    BY <1>12 DEF Sync, Goto
  <1>13. ASSUME ResaveFile PROVE QuietInv'
    BY <1>13 DEF ResaveFile, Copy, Return, Goto
  <1>14. ASSUME WriteLiveFails \/ SyncFails \/ WriteFails \/ Cancel \/ Crash PROVE QuietInv'
    BY <1>14 DEF WriteLiveFails, SyncFails, WriteFails, Cancel, Crash, Mishap
  <1>15. ASSUME NEW c \in Commands, OrphanEnds(c) PROVE QuietInv'
    BY <1>15 DEF OrphanEnds
  <1>16. ASSUME SystemctlFails PROVE QuietInv'
    BY <1>16 DEF SystemctlFails, Mishap
  <1>17. ASSUME UNCHANGED vars PROVE QuietInv'
    BY <1>17
  <1> QED
    BY <1>1, <1>2, <1>3, <1>4, <1>5, <1>6, <1>7, <1>8, <1>9, <1>10, <1>11, <1>12, <1>13, <1>14, <1>15, <1>16, <1>17 DEF Next

\* IInv and QuietInv in every reachable state.
LEMMA QuietHolds == Spec => []QuietInv
  <1>1. IInv /\ QuietInv /\ [Next]_vars => IInv' /\ QuietInv'
    BY InvStep, QuietStep
  <1> QED
    BY InitIInv, InitQuiet, <1>1, PTL DEF Spec

\* A rollback after a success leads to what was live before it.
THEOREM UndoReachesLiveHolds == Spec => []UndoReachesLive
  <1>1. QuietInv => UndoReachesLive
    BY DEF QuietInv, UndoReachesLive
  <1> QED
    BY QuietHolds, <1>1, PTL

\* A failed restart of dnsmasq ends with the old file, and with DNS running on it.
THEOREM FailureRestoresHolds == Spec => []FailureRestores
  <1>1. QuietInv => FailureRestores
    BY DEF QuietInv, FailureRestores
  <1> QED
    BY QuietHolds, <1>1, PTL

\* Between operations the live files are those of current.* and dnsmasq runs on them.
THEOREM LiveIsCurrentHolds == Spec => []LiveIsCurrent
  <1>1. TypeOK /\ QuietInv => LiveIsCurrent
    BY DEF TypeOK, QuietInv, LiveInv, SavedOrNever, LiveIsCurrent, Servers
  <1> QED
    BY TypeCorrect, QuietHolds, <1>1, PTL
=============================================================================
