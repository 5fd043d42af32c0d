----------------------------- MODULE FirewallProofs -----------------------------
(***************************************************************************)
(* Proofs about FirewallCommit, for any table contents and any bounds, and *)
(* about AddressBook, for any number of handlers, names and rows.  The two *)
(* parts share nothing but the module.                                     *)
(***************************************************************************)
EXTENDS FirewallCommit, AddressBook, SequenceTheorems, FiniteSetTheorems, TLAPS

-----------------------------------------------------------------------------
(* FirewallCommit *)

\* The indices of the loops.
IndexInv ==
  /\ at \in {"snapshot", "sync"} => n \in 1..3
  /\ at \notin Writing \union {"generate", "snapshot", "sync"} => n = 1

\* What the operation has read so far, and that nobody else edits what it read unnoticed.
ReadInv ==
  /\ at = "generate" => \A k \in 1..4 : k < n => gen[ReadOrder[k]] \in Values
  /\ at \in {"snapshot", "check", "backup", "apply", "save"} => gen \in Config
  /\ at = "snapshot" => \A k \in 1..3 : k < n => snap[TableOrder[k]] \in Values
  /\ at \in {"check", "backup", "apply", "save", "sync", "resave"} => snap \in [Tables -> Values]
  /\ at = "generate" => \A k \in 1..3 : k < n /\ TableOrder[k] \notin dirty => gen[TableOrder[k]] = db[TableOrder[k]]
  /\ at \in {"snapshot", "check", "backup", "apply", "save"} => \A t \in Tables \ dirty : gen[t] = db[t]
  /\ at = "snapshot" /\ ~mixed => \A k \in 1..3 : k < n => snap[TableOrder[k]] = gen[TableOrder[k]]
  /\ at \in {"check", "backup", "apply", "save"} /\ ~mixed => \A t \in Tables : snap[t] = gen[t]

\* previous.* holds what the backup was asked to keep.
Kept(f) ==
  /\ current[f] # Absent => previous[f] = current[f]
  /\ current[f] = Absent /\ WritesEmptyList(f) => previous[f] = EmptyList

BackupInv ==
  /\ at = "backup" => \A k \in 1..4 : k < n => Kept(FileOrder[k])
  /\ at = "apply" \/ (at = "save" /\ n = 1) => \A f \in Files : Kept(f)

\* current.* is written file after file, the ruleset first.
SaveInv ==
  /\ current["nft"] = Absent => \A t \in Tables : current[t] = Absent
  /\ at \in {"save", "forward"} => kernel \in Config
  /\ at = "save" => kernel = gen
  /\ at = "save" /\ n > 1 => current["nft"] = gen
  /\ at = "save" => \A k \in 2..4 : k < n => current[FileOrder[k]] = snap[FileOrder[k]]
  /\ at = "forward" => kernel = current["nft"] /\ \A t \in Tables : current[t] \in Values /\ (t \notin dirty => db[t] = kernel[t])

\* The same for a rollback, whose tables come before its files.
RollbackInv ==
  /\ at \in {"validate", "parse", "sync", "resave"} => previous["nft"] # Absent
  /\ at \in {"parse", "sync", "resave"} => kernel = previous["nft"] \/ previous["nft"] = Torn
  /\ at \in {"sync", "resave"} => \A t \in Tables : snap[t] = Snapshot(previous, t)
  /\ at = "sync" => \A k \in 1..3 : k < n /\ TableOrder[k] \notin dirty => db[TableOrder[k]] = snap[TableOrder[k]]
  /\ at = "resave" => \A t \in Tables \ dirty : db[t] = snap[t]
  /\ at = "resave" /\ n > 1 => current["nft"] = previous["nft"]
  /\ at = "resave" => \A k \in 2..4 : k < n => current[FileOrder[k]] = snap[FileOrder[k]]

\* Unless something stopped half way, every set of files that is not being written is coherent.
CoherenceInv ==
  ~mixed =>
    /\ at \notin {"save", "resave"} \/ n = 1 => Coherent(current)
    /\ at # "backup" \/ n = 1 \/ current["nft"] = Absent => Coherent(previous)
    /\ current["nft"] \in Config => current["rules"] # Absent \/ (at \in {"save", "resave"} /\ n > 1)

ResultInv == SuccessIsSaved /\ TablesFollowKernel /\ (at = "boot" => outcome = "none")

Protocol == IndexInv /\ ReadInv /\ BackupInv /\ SaveInv /\ RollbackInv /\ CoherenceInv /\ ResultInv

\* The inductive invariant.
IInv == TypeOK /\ Protocol
-----------------------------------------------------------------------------
\* Every initial state satisfies the invariant.
LEMMA InitIInv == Init => IInv
  <1> SUFFICES ASSUME Init PROVE IInv
    OBVIOUS
  <1> USE FirewallAssumption
      DEF Init, Tables, Inputs, Files, Config, NoFiles, LegacyFiles, Unread, NoSnapshot
  <1>1. TypeOK
    <2>1. IsFileSet(current) /\ IsFileSet(previous) /\ db \in Config /\ kernel \in Ruleset
      BY DEF IsFileSet, Ruleset, Content
    <2>2. mixed \in BOOLEAN
      OBVIOUS
    <2> QED
      BY <2>1, <2>2 DEF TypeOK, Points
  <1>2. IndexInv /\ ReadInv /\ BackupInv /\ SaveInv /\ RollbackInv /\ ResultInv
    BY DEF IndexInv, ReadInv, BackupInv, SaveInv, RollbackInv, ResultInv, SuccessIsSaved, TablesFollowKernel,
           Succeeded, Writing
  <1>3. CoherenceInv
    BY DEF CoherenceInv, Coherent, Snapshot
  <1>4. QED
    BY <1>1, <1>2, <1>3 DEF IInv, Protocol

\* Whatever stops an operation after the first file of a set marks the set.
LEMMA StoppedHalfWay == ((Crash /\ at \in Writing) \/ WriteFails) /\ ~mixed' => ~mixed /\ ~(n > 1)
  BY Zenon DEF Crash, WriteFails

\* Every step keeps the invariant.
LEMMA InvStep == IInv /\ [Next]_vars => IInv'
  <1> SUFFICES ASSUME IInv, [Next]_vars PROVE IInv'
    OBVIOUS
  <1> USE FirewallAssumption
      DEF IInv, Protocol, TypeOK, IndexInv, ReadInv, BackupInv, SaveInv, RollbackInv, CoherenceInv, ResultInv,
          SuccessIsSaved, TablesFollowKernel, Succeeded, Coherent, Kept, WritesEmptyList, Snapshot, IsFileSet,
          Config, Ruleset, Content, Points, Writing, Tables, Inputs, Files, ReadOrder, TableOrder, FileOrder,
          Unread, NoSnapshot, vars, files, locals, counts, history
  <1>1. ASSUME StartCommit PROVE IInv'
    BY <1>1 DEF StartCommit, Goto
  <1>2. ASSUME ReadInput PROVE IInv'
    BY <1>2 DEF ReadInput, Advance, Goto
  <1>3. ASSUME ReadSnapshot PROVE IInv'
    <2> USE <1>3 DEF ReadSnapshot, Advance, Goto
    <2>a. (~mixed') => ~mixed /\ TableOrder[n] \notin dirty
      OBVIOUS
    <2>2. IndexInv'
      OBVIOUS
    <2>3. ReadInv'
      <3>1. CASE n = 1
        BY <2>a, <3>1
      <3>2. CASE n = 2
        BY <2>a, <3>2
      <3>3. CASE n = 3
        BY <2>a, <3>3
      <3> QED
        BY <3>1, <3>2, <3>3
    <2>1. TypeOK'
      OBVIOUS
    <2>4. (BackupInv /\ SaveInv)' /\ (RollbackInv /\ ResultInv)' /\ CoherenceInv'
      OBVIOUS
    <2> QED
      BY <2>1, <2>2, <2>3, <2>4
  <1>4. ASSUME CheckPasses PROVE IInv'
    BY <1>4 DEF CheckPasses, Goto
  <1>5. ASSUME Refuse PROVE IInv'
    BY <1>5 DEF Refuse, Return, Goto
  <1>6. ASSUME BackupFile PROVE IInv'
    BY <1>6 DEF BackupFile, Backup, Advance, Goto
  <1>7. ASSUME Apply PROVE IInv'
    BY <1>7 DEF Apply, Goto
  <1>8. ASSUME ApplyFails PROVE IInv'
    BY <1>8 DEF ApplyFails, Fault, Return, Goto
  <1>9. ASSUME SaveFile PROVE IInv'
    BY <1>9 DEF SaveFile, Advance, Goto
  <1>10. ASSUME SetForwarding PROVE IInv'
    BY <1>10 DEF SetForwarding, Return, Goto
  <1>11. ASSUME ForwardingFails PROVE IInv'
    BY <1>11 DEF ForwardingFails, Fault, Return, Goto
  <1>12. ASSUME StartRollback PROVE IInv'
    BY <1>12 DEF StartRollback, CanRollBack, Goto
  <1>13. ASSUME RefuseRollback PROVE IInv'
    BY <1>13 DEF RefuseRollback, Return, Goto
  <1>14. ASSUME RestoreKernel PROVE IInv'
    BY <1>14 DEF RestoreKernel, Loaded, Goto
  <1>15. ASSUME Parse PROVE IInv'
    BY <1>15 DEF Parse, Return, Goto
  <1>16. ASSUME SyncTable PROVE IInv'
    BY <1>16 DEF SyncTable, Advance, Goto
  <1>17. ASSUME SyncFails PROVE IInv'
    BY <1>17 DEF SyncFails, Fault, Return, Goto
  <1>18. ASSUME ResaveFile PROVE IInv'
    BY <1>18 DEF ResaveFile, Return, Goto
  <1>19. ASSUME NEW i \in Inputs, NEW v \in Values, Edit(i, v) PROVE IInv'
    BY <1>19 DEF Edit
  <1>20. ASSUME WriteFails PROVE IInv'
    <2> USE <1>20 DEF WriteFails, Damage, Fault, Return, Goto
    <2>a. (~mixed') => ~mixed /\ n = 1
      BY StoppedHalfWay
    <2>b. at \in Writing
      OBVIOUS
    <2>1. TypeOK'
      OBVIOUS
    <2>2. (IndexInv /\ ReadInv)'
      OBVIOUS
    <2>3. (BackupInv /\ SaveInv)'
      OBVIOUS
    <2>4. (RollbackInv /\ ResultInv)'
      OBVIOUS
    <2>5. CoherenceInv'
      <3> SUFFICES ASSUME ~mixed' PROVE (at' \notin {"save", "resave"} \/ n' = 1 => Coherent(current)') /\ (at' # "backup" \/ n' = 1 \/ current'["nft"] = Absent => Coherent(previous)') /\ (current'["nft"] \in Config => current'["rules"] # Absent)
        OBVIOUS
      <3>1. ~mixed
        BY <2>a, <2>b
      <3>3. CASE at \in Writing
        <4>1. n = 1
          BY <2>a, <3>3
        <4>2. CASE UNCHANGED files
          BY <3>1, <4>1, <4>2, <3>3
        <4>3. CASE at = "backup" /\ files' # files
          BY <3>1, <4>1, <4>3
        <4>4. CASE at # "backup" /\ files' # files
          BY <3>1, <4>1, <4>4, <3>3
        <4> QED
          BY <4>2, <4>3, <4>4
      <3> QED
        BY <2>b, <3>3
    <2> QED
      BY <2>1, <2>2, <2>3, <2>4, <2>5
  <1>21. ASSUME Cancel PROVE IInv'
    BY <1>21 DEF Cancel, Return, Goto
  <1>22. ASSUME Crash PROVE IInv'
    <2> USE <1>22 DEF Crash, Damage, Goto
    <2>a. at \in Writing => ((~mixed') => ~mixed /\ n = 1)
      BY StoppedHalfWay
    <2>b. at \notin Writing => UNCHANGED <<files, mixed>>
      OBVIOUS
    <2>1. TypeOK'
      <3>1. IsFileSet(current)' /\ IsFileSet(previous)'
        <4>1. CASE at \notin Writing
          BY <4>1
        <4>2. CASE at \in Writing
          BY <4>2
        <4> QED
          BY <4>1, <4>2
      <3>2. mixed' \in BOOLEAN
        OBVIOUS
      <3> QED
        BY <3>1, <3>2
    <2>2. (IndexInv /\ ReadInv)'
      OBVIOUS
    <2>3. (BackupInv /\ SaveInv)'
      OBVIOUS
    <2>4. (RollbackInv /\ ResultInv)'
      OBVIOUS
    <2>5. CoherenceInv'
      <3> SUFFICES ASSUME ~mixed' PROVE (at' \notin {"save", "resave"} \/ n' = 1 => Coherent(current)') /\ (at' # "backup" \/ n' = 1 \/ current'["nft"] = Absent => Coherent(previous)') /\ (current'["nft"] \in Config => current'["rules"] # Absent)
        OBVIOUS
      <3>1. ~mixed
        BY <2>a, <2>b
      <3>2. CASE at \notin Writing
        BY <2>b, <3>1, <3>2
      <3>3. CASE at \in Writing
        <4>1. n = 1
          BY <2>a, <3>3
        <4>2. CASE UNCHANGED files
          BY <3>1, <4>1, <4>2, <3>3
        <4>3. CASE at = "backup" /\ files' # files
          BY <3>1, <4>1, <4>3
        <4>4. CASE at # "backup" /\ files' # files
          BY <3>1, <4>1, <4>4, <3>3
        <4> QED
          BY <4>2, <4>3, <4>4
      <3> QED
        BY <2>b, <3>2, <3>3
    <2> QED
      BY <2>1, <2>2, <2>3, <2>4, <2>5
  <1>23. ASSUME PowerLoss PROVE IInv'
    BY <1>23 DEF PowerLoss
  <1>24. ASSUME BootRestore PROVE IInv'
    BY <1>24 DEF BootRestore, Loaded, Goto
  <1>25. ASSUME BootWithoutRestore PROVE IInv'
    BY <1>25 DEF BootWithoutRestore, Fault, Goto
  <1>26. CASE UNCHANGED vars
    BY <1>26
  <1> HIDE DEF IInv, vars
  <1>27. QED
    BY <1>1, <1>2, <1>3, <1>4, <1>5, <1>6, <1>7, <1>8, <1>9, <1>10, <1>11, <1>12, <1>13, <1>14, <1>15, <1>16, <1>17, <1>18, <1>19, <1>20, <1>21, <1>22, <1>23, <1>24, <1>25, <1>26 DEF Next, CommitNext, RollbackNext, EnvironmentNext

\* The invariant holds in every reachable state.
THEOREM IInvHolds == Spec => []IInv
  <1>1. QED
    BY InitIInv, InvStep, PTL DEF Spec

-----------------------------------------------------------------------------
\* Every variable stays in its type.
THEOREM TypeCorrect == Spec => []TypeOK
  <1>1. IInv => TypeOK
    BY DEF IInv
  <1>2. QED
    BY <1>1, IInvHolds, PTL

\* What an operation that returned Ok put in the kernel is what the next boot loads, and
\* its snapshots are whole, whatever failed, was cancelled or crashed before it.
THEOREM SuccessIsSavedHolds == Spec => []SuccessIsSaved
  <1>1. IInv => SuccessIsSaved
    BY DEF IInv, Protocol, ResultInv
  <1>2. QED
    BY <1>1, IInvHolds, PTL

\* The snapshots of current.* and previous.* belong to the ruleset beside them, as long as
\* no commit read a table twice around an edit and nothing stopped half way through a set.
THEOREM HistoryCoherentHolds == Spec => []HistoryCoherent
  <1>1. IInv => HistoryCoherent
    BY DEF IInv, Protocol, CoherenceInv, HistoryCoherent, Writing
  <1>2. QED
    BY <1>1, IInvHolds, PTL

\* After a success a table nobody edited since is the one the kernel ruleset came from.
THEOREM TablesFollowKernelHolds == Spec => []TablesFollowKernel
  <1>1. IInv => TablesFollowKernel
    BY DEF IInv, Protocol, ResultInv
  <1>2. QED
    BY <1>1, IInvHolds, PTL

\* commit.rs never overwrites current.nft before previous.* holds all of current.*.
THEOREM UndoTargetHolds == Spec => UndoTarget
  <1> DEFINE A == at = "save" /\ n = 1 /\ current["nft"] # Absent /\ current' # current =>
                    /\ previous["nft"] = current["nft"]
                    /\ \A t \in {"portForwards", "oneToOne"} : previous[t] = Snapshot(current, t)
                    /\ current["rules"] # Absent => previous["rules"] = current["rules"]
  <1>1. IInv => A
    BY FirewallAssumption DEF IInv, Protocol, BackupInv, Kept, WritesEmptyList, Snapshot, Tables, Files
  <1>2. QED
    BY <1>1, IInvHolds, PTL DEF UndoTarget

-----------------------------------------------------------------------------
(* FirewallCommit implements ConfigHistory. *)

\* Each action is one step of the abstract history, or none.
LEMMA HistoryStep == IInv /\ [Next]_vars => [H!HistoryNext]_H!historyVars
  <1> SUFFICES ASSUME IInv, [Next]_vars PROVE H!HistoryNext \/ UNCHANGED H!historyVars
    OBVIOUS
  <1> USE FirewallAssumption
      DEF IInv, Protocol, TypeOK, IndexInv, ReadInv, SaveInv, RollbackInv, IsFileSet, Config, Ruleset, Content,
          Points, Writing, Tables, Inputs, Files, FileOrder, vars, files, locals, counts, history, Phase,
          H!historyVars, H!Backup, H!Apply, H!Save, H!Restore, H!Resave, H!Finish, H!GiveUp, H!TearBackup,
          H!TearSave, H!PowerLoss, H!BootRestore, H!Step, H!Loaded
  <1>1. ASSUME StartCommit PROVE UNCHANGED H!historyVars
    BY <1>1 DEF StartCommit, Goto
  <1>2. ASSUME ReadInput PROVE UNCHANGED H!historyVars
    BY <1>2 DEF ReadInput, Advance, Goto, ReadOrder
  <1>3. ASSUME ReadSnapshot PROVE UNCHANGED H!historyVars
    BY <1>3 DEF ReadSnapshot, Advance, Goto, TableOrder
  <1>4. ASSUME CheckPasses PROVE UNCHANGED H!historyVars
    BY <1>4 DEF CheckPasses, Goto
  <1>5. ASSUME Refuse PROVE UNCHANGED H!historyVars
    BY <1>5 DEF Refuse, Return, Goto
  <1>6. ASSUME BackupFile PROVE H!Backup \/ UNCHANGED H!historyVars
    BY <1>6 DEF BackupFile, Backup, Advance, Goto, WritesEmptyList
  <1>7. ASSUME Apply PROVE \E c \in Config : H!Apply(c)
    BY <1>7 DEF Apply, Goto
  <1>8. ASSUME ApplyFails PROVE H!GiveUp
    BY <1>8 DEF ApplyFails, Fault, Return, Goto
  <1>9. ASSUME SaveFile PROVE H!Save \/ UNCHANGED H!historyVars
    BY <1>9 DEF SaveFile, Advance, Goto
  <1>10. ASSUME SetForwarding PROVE H!Finish
    BY <1>10 DEF SetForwarding, Return, Goto
  <1>11. ASSUME ForwardingFails PROVE H!GiveUp
    BY <1>11 DEF ForwardingFails, Fault, Return, Goto
  <1>12. ASSUME StartRollback PROVE UNCHANGED H!historyVars
    BY <1>12 DEF StartRollback, CanRollBack, Goto
  <1>13. ASSUME RefuseRollback PROVE UNCHANGED H!historyVars
    BY <1>13 DEF RefuseRollback, Return, Goto
  <1>14. ASSUME RestoreKernel PROVE H!Restore
    BY <1>14 DEF RestoreKernel, Loaded, Goto
  <1>15. ASSUME Parse PROVE H!GiveUp \/ UNCHANGED H!historyVars
    BY <1>15 DEF Parse, Return, Goto
  <1>16. ASSUME SyncTable PROVE UNCHANGED H!historyVars
    BY <1>16 DEF SyncTable, Advance, Goto, TableOrder
  <1>17. ASSUME SyncFails PROVE H!GiveUp
    BY <1>17 DEF SyncFails, Fault, Return, Goto
  <1>18. ASSUME ResaveFile PROVE H!Resave \/ H!Finish \/ UNCHANGED H!historyVars
    BY <1>18 DEF ResaveFile, Return, Goto
  <1>19. ASSUME NEW i \in Inputs, NEW v \in Values, Edit(i, v) PROVE UNCHANGED H!historyVars
    BY <1>19 DEF Edit
  <1>20. ASSUME WriteFails PROVE H!GiveUp \/ H!TearBackup \/ H!TearSave
    BY <1>20 DEF WriteFails, Damage, Fault, Return, Goto, WritesEmptyList
  <1>21. ASSUME Cancel PROVE H!GiveUp
    BY <1>21 DEF Cancel, Return, Goto
  <1>22. ASSUME Crash PROVE H!GiveUp \/ H!TearBackup \/ H!TearSave
    BY <1>22 DEF Crash, Damage, Goto, WritesEmptyList
  <1>23. ASSUME PowerLoss PROVE H!PowerLoss
    BY <1>23 DEF PowerLoss
  <1>24. ASSUME BootRestore PROVE H!BootRestore
    BY <1>24 DEF BootRestore, Loaded, Goto
  <1>25. ASSUME BootWithoutRestore PROVE UNCHANGED H!historyVars
    BY <1>25 DEF BootWithoutRestore, Fault, Goto
  <1>26. CASE UNCHANGED vars
    BY <1>26
  <1> HIDE DEF IInv, vars, H!historyVars, H!Backup, H!Apply, H!Save, H!Restore, H!Resave, H!Finish, H!GiveUp,
           H!TearBackup, H!TearSave, H!PowerLoss, H!BootRestore
  <1>27. QED
    BY <1>1, <1>2, <1>3, <1>4, <1>5, <1>6, <1>7, <1>8, <1>9, <1>10, <1>11, <1>12, <1>13, <1>14, <1>15, <1>16, <1>17, <1>18, <1>19, <1>20, <1>21, <1>22, <1>23, <1>24, <1>25, <1>26 DEF Next, CommitNext, RollbackNext, EnvironmentNext, H!HistoryNext

\* Whatever edits, errors, cancelled requests and crashes do, the kernel, current.nft and
\* previous.nft go only through the steps ConfigHistory allows, on which SafeCommit builds.
THEOREM HistoryImplemented == Spec => ImplementsHistory
  <1>1. Init => H!HistoryInit
    BY FirewallAssumption
       DEF Init, H!HistoryInit, Phase, NoFiles, LegacyFiles, Files, Tables, Inputs, Config
  <1>2. IInv /\ [Next]_vars => [H!HistoryNext]_H!historyVars
    BY HistoryStep
  <1>3. QED
    BY <1>1, <1>2, IInvHolds, PTL DEF Spec, ImplementsHistory, H!HistorySpec

-----------------------------------------------------------------------------
(* AddressBook.  The inductive invariant says of every handler which of its queries lie      *)
(* before it and that what it has learned from the others is still so, unless it is stale.   *)
(* When its last query is answered, that is all its write needs.                             *)

Queries == {"object", "group", "members", "free", "unused", "no groups", "src", "dst", "src group", "dst group"}
Olds == [name : Names, family : Families \union {None}]
BookInputs == Objects \union Requested.groups \union Requested.rules \union {None}
BookTasks ==
  [op : ObjectOps \union GroupOps \union RuleOps \union {None}, id : Nat, input : BookInputs, left : SUBSET Names,
   old : Olds \union {None}, family : Families \union {None}, todo : Seq(Queries), stale : BOOLEAN]

\* What a handler has still to ask.
Elems(s) == {s[i] : i \in DOMAIN s}
Open(t) == Elems(t.todo)

\* What a request is about, and which queries may lie before it at each point.
Shape(t) ==
  /\ t.op \in {"add object", "update object"} => t.input \in Objects
  /\ t.op \in {"add group", "update group"} => t.input \in Requested.groups /\ t.left \subseteq t.input.members
  /\ t.op \in RuleOps => t.input \in Requested.rules
  /\ t.op \in {"add object", "add group", "add rule"} => t.id = 0
  /\ t.op = "add object" => Open(t) \subseteq {"free"}
  /\ t.op = "update object" =>
       \/ t.todo = <<"object">>
       \/ Open(t) \subseteq {"free", "unused", "no groups"} /\ t.old \in Olds
  /\ t.op = "delete object" =>
       \/ t.todo = <<"object", "no groups", "unused">>
       \/ Open(t) \subseteq {"no groups", "unused"} /\ t.old \in Olds
  /\ t.op = "add group" =>
       \/ t.todo = <<"members", "free">>
       \/ Open(t) \subseteq {"free"} /\ t.left = {}
  /\ t.op = "update group" =>
       \/ t.todo = <<"group", "members">>
       \/ t.todo = <<"members">> /\ t.old \in Olds
       \/ Open(t) \subseteq {"free", "unused"} /\ t.old \in Olds /\ t.left = {}
  /\ t.op = "delete group" =>
       \/ t.todo = <<"group", "unused">>
       \/ Open(t) \subseteq {"unused"} /\ t.old \in Olds
  /\ t.op \in RuleOps =>
       t.todo \in {<<"src", "dst">>, <<"src group", "dst">>, <<"dst">>, <<"dst group">>, <<>>}

\* A reference stands for things of the one version f, and for at least one.
Means(ref, f, o, g) ==
  ref # AnyAddress =>
    /\ f \in Families
    /\ \/ ref = f
       \/ \E i \in DOMAIN o : o[i].name = ref /\ o[i].family = f
       \/ /\ \A i \in DOMAIN o : o[i].name # ref
          /\ \E i \in DOMAIN g : /\ g[i].name = ref /\ g[i].members # {}
                                 /\ \A m \in g[i].members : o[m].family = f
InForce(rule, o, g) == \E f \in Families \union {None} : Means(rule.src, f, o, g) /\ Means(rule.dst, f, o, g)
OneVersion == \A g \in DOMAIN groups : \A i, m \in groups[g].members : objects[i].family = objects[m].family

\* What a handler that is not stale has learned is still so.
Changes(t, family) ==
  /\ t.old.name # t.input.name => /\ "free" \in Open(t) \/ ~NameInUse(t.input.name)
                                  /\ "unused" \in Open(t) \/ ~UsedByRules(t.old.name)
  /\ t.old.family # family =>
       /\ "unused" \in Open(t) \/ ~UsedByRules(t.old.name)
       /\ t.op = "update object" => "no groups" \in Open(t) \/ GroupsUsing(t.id) = {}
LookedUp(t) ==
  /\ \A m \in t.input.members \ t.left : \A i \in FindObject(m) : objects[i].family = t.family
  /\ t.input.members \subseteq t.left => t.family = None
EndKnown(t, end, group, ref) ==
  end \notin Open(t) => IF group \in Open(t) THEN ref \in Names /\ FindObject(ref) = {}
                        ELSE Means(ref, t.family, objects, groups)
Learned(t) ==
  /\ t.op = "add object" => "free" \in Open(t) \/ ~NameInUse(t.input.name)
  /\ t.op \in {"update object", "delete object"} /\ "object" \notin Open(t) =>
       t.id \in DOMAIN objects /\ t.old = objects[t.id]
  /\ t.op = "update object" /\ "object" \notin Open(t) => Changes(t, t.input.family)
  /\ t.op = "delete object" => /\ "no groups" \in Open(t) \/ GroupsUsing(t.id) = {}
                               /\ "unused" \in Open(t) \/ ~UsedByRules(t.old.name)
  /\ t.op \in {"add group", "update group"} => LookedUp(t)
  /\ t.op = "add group" => "free" \in Open(t) \/ ~NameInUse(t.input.name)
  /\ t.op \in {"update group", "delete group"} /\ "group" \notin Open(t) =>
       /\ t.id \in DOMAIN groups /\ t.old.name = groups[t.id].name
       /\ t.old.family \in GroupFamilies(t.id)
  /\ t.op = "update group" /\ "group" \notin Open(t) /\ "members" \notin Open(t) => Changes(t, t.family)
  /\ t.op = "delete group" => "unused" \in Open(t) \/ ~UsedByRules(t.old.name)
  /\ t.op \in RuleOps => EndKnown(t, "src", "src group", t.input.src) /\ EndKnown(t, "dst", "dst group", t.input.dst)

Known(t) ==
  /\ t.op = None => t = Idle
  /\ t.op # None => Shape(t)
  /\ sound /\ ~t.stale /\ t.op # None => Learned(t)
TasksInv == tasks \in [Handlers -> BookTasks] /\ \A h \in Handlers : Known(tasks[h])
RowsInv ==
  sound => /\ SharedNamespace /\ OneVersion
           /\ \A i \in DOMAIN rules : InForce(rules[i], objects, groups)
SavedInv ==
  saved # None => /\ TableOK(saved.rules, "rules", Rules)
                  /\ sound => \A i \in DOMAIN saved.rules : InForce(saved.rules[i], saved.objects, saved.groups)
BookInv == BookTypeOK /\ TasksInv /\ RowsInv /\ SavedInv

-----------------------------------------------------------------------------
LEMMA BookLimits ==
  /\ MaxWrites \in Nat /\ MaxId["objects"] \in Nat /\ MaxId["groups"] \in Nat /\ MaxId["rules"] \in Nat
  /\ Names \intersect Families = {} /\ AnyAddress \notin Names \union Families /\ None \notin Names \union Families
  /\ AnyAddress # None /\ None \notin ObjectOps \union GroupOps \union RuleOps
  /\ Requested.rules \subseteq Rules /\ Requested.groups \subseteq [name : Names, members : SUBSET Names]
BY BookAssumption

\* Sequences of queries.
LEMMA ElemsTail ==
  ASSUME NEW s \in Seq(Queries), s # <<>>
  PROVE  /\ Head(s) \in Queries /\ Tail(s) \in Seq(Queries)
         /\ Elems(s) = {Head(s)} \union Elems(Tail(s))
<1>1. Head(s) \in Queries /\ Tail(s) \in Seq(Queries) /\ Len(Tail(s)) = Len(s) - 1
      /\ \A i \in 1..Len(Tail(s)) : Tail(s)[i] = s[i + 1]
  BY HeadTailProperties
<1>2. Len(s) \in Nat \ {0} /\ DOMAIN s = 1..Len(s) /\ DOMAIN Tail(s) = 1..Len(Tail(s)) /\ Head(s) = s[1]
  BY <1>1
<1>3. ASSUME NEW i \in DOMAIN s PROVE s[i] = Head(s) \/ s[i] \in Elems(Tail(s))
  <2>1. CASE i = 1
    BY <1>2, <2>1
  <2>2. CASE i # 1
    <3>1. i - 1 \in DOMAIN Tail(s) /\ Tail(s)[i - 1] = s[i]
      BY <1>1, <1>2, <2>2
    <3>2. QED
      BY <3>1 DEF Elems
  <2>3. QED
    BY <2>1, <2>2
<1>4. ASSUME NEW i \in DOMAIN Tail(s) PROVE Tail(s)[i] \in Elems(s)
  <2>1. i + 1 \in DOMAIN s /\ Tail(s)[i] = s[i + 1]
    BY <1>1, <1>2
  <2>2. QED
    BY <2>1 DEF Elems
<1>5. Head(s) \in Elems(s)
  BY <1>2 DEF Elems
<1>6. QED
  BY <1>1, <1>3, <1>4, <1>5 DEF Elems

LEMMA ElemsConcat ==
  ASSUME NEW a \in Seq(Queries), NEW b \in Seq(Queries)
  PROVE  a \o b \in Seq(Queries) /\ Elems(a \o b) = Elems(a) \union Elems(b)
<1>1. /\ a \o b \in Seq(Queries) /\ Len(a \o b) = Len(a) + Len(b)
      /\ \A i \in 1..(Len(a) + Len(b)) : (a \o b)[i] = IF i <= Len(a) THEN a[i] ELSE b[i - Len(a)]
  BY ConcatProperties
<1>2. /\ Len(a) \in Nat /\ Len(b) \in Nat
      /\ DOMAIN a = 1..Len(a) /\ DOMAIN b = 1..Len(b) /\ DOMAIN (a \o b) = 1..(Len(a) + Len(b))
  BY <1>1
<1>3. ASSUME NEW i \in DOMAIN a PROVE a[i] \in Elems(a \o b)
  <2>1. i \in DOMAIN (a \o b) /\ (a \o b)[i] = a[i]
    BY <1>1, <1>2
  <2>2. QED
    BY <2>1 DEF Elems
<1>4. ASSUME NEW i \in DOMAIN b PROVE b[i] \in Elems(a \o b)
  <2>1. i + Len(a) \in DOMAIN (a \o b) /\ (a \o b)[i + Len(a)] = b[i]
    BY <1>1, <1>2
  <2>2. QED
    BY <2>1 DEF Elems
<1>5. ASSUME NEW i \in DOMAIN (a \o b) PROVE (a \o b)[i] \in Elems(a) \union Elems(b)
  <2>1. CASE i <= Len(a)
    <3>1. i \in DOMAIN a /\ (a \o b)[i] = a[i]
      BY <1>1, <1>2, <2>1
    <3>2. QED
      BY <3>1 DEF Elems
  <2>2. CASE ~(i <= Len(a))
    <3>1. i - Len(a) \in DOMAIN b /\ (a \o b)[i] = b[i - Len(a)]
      BY <1>1, <1>2, <2>2
    <3>2. QED
      BY <3>1 DEF Elems
  <2>3. QED
    BY <2>1, <2>2
<1>6. QED
  BY <1>1, <1>3, <1>4, <1>5 DEF Elems

LEMMA ElemsFew ==
  /\ <<>> \in Seq(Queries) /\ Elems(<<>>) = {}
  /\ \A a \in Queries : <<a>> \in Seq(Queries) /\ Elems(<<a>>) = {a} /\ Tail(<<a>>) = <<>> /\ Head(<<a>>) = a
  /\ \A a, b \in Queries : /\ <<a, b>> \in Seq(Queries) /\ Elems(<<a, b>>) = {a, b}
                           /\ Tail(<<a, b>>) = <<b>> /\ Head(<<a, b>>) = a
  /\ \A a, b, c \in Queries : /\ <<a, b, c>> \in Seq(Queries) /\ Elems(<<a, b, c>>) = {a, b, c}
                              /\ Tail(<<a, b, c>>) = <<b, c>> /\ Head(<<a, b, c>>) = a
<1>1. <<>> \in Seq(Queries) /\ Elems(<<>>) = {}
  BY DEF Elems
<1>2. ASSUME NEW a \in Queries
      PROVE  <<a>> \in Seq(Queries) /\ Elems(<<a>>) = {a} /\ Tail(<<a>>) = <<>> /\ Head(<<a>>) = a
  <2>1. DOMAIN <<a>> = {1} /\ <<a>>[1] = a
    OBVIOUS
  <2>2. QED
    BY <2>1 DEF Elems
<1>3. ASSUME NEW a \in Queries, NEW b \in Queries
      PROVE  <<a, b>> \in Seq(Queries) /\ Elems(<<a, b>>) = {a, b} /\ Tail(<<a, b>>) = <<b>> /\ Head(<<a, b>>) = a
  <2>1. DOMAIN <<a, b>> = {1, 2} /\ <<a, b>>[1] = a /\ <<a, b>>[2] = b
    OBVIOUS
  <2>2. QED
    BY <2>1 DEF Elems
<1>4. ASSUME NEW a \in Queries, NEW b \in Queries, NEW c \in Queries
      PROVE  /\ <<a, b, c>> \in Seq(Queries) /\ Elems(<<a, b, c>>) = {a, b, c}
             /\ Tail(<<a, b, c>>) = <<b, c>> /\ Head(<<a, b, c>>) = a
  <2>1. DOMAIN <<a, b, c>> = {1, 2, 3} /\ <<a, b, c>>[1] = a /\ <<a, b, c>>[2] = b /\ <<a, b, c>>[3] = c
    OBVIOUS
  <2>2. QED
    BY <2>1 DEF Elems
<1>5. QED
  BY <1>1, <1>2, <1>3, <1>4

LEMMA ConcatEmpty ==
  ASSUME NEW s \in Seq(Queries)
  PROVE  s \o <<>> = s /\ <<>> \o s = s
BY ConcatEmptySeq

LEMMA ElemsMore ==
  ASSUME NEW t, NEW old, NEW family
  PROVE  /\ UpdateChecks(t, old, family) \in Seq(Queries)
         /\ Elems(UpdateChecks(t, old, family)) \subseteq {"free", "unused", "no groups"}
         /\ ("free" \in Elems(UpdateChecks(t, old, family))) <=> (old.name # t.input.name)
         /\ ("unused" \in Elems(UpdateChecks(t, old, family))) <=> (old.name # t.input.name \/ old.family # family)
         /\ "no groups" \in Elems(UpdateChecks(t, old, family)) => old.family # family /\ t.op = "update object"
         /\ old.family # family /\ t.op = "update object" => "no groups" \in Elems(UpdateChecks(t, old, family))
<1> DEFINE A == IF old.name # t.input.name THEN <<"free", "unused">> ELSE <<>>
           B == IF old.family # family THEN <<"unused">> ELSE <<>>
           C == IF old.family # family /\ t.op = "update object" THEN <<"no groups">> ELSE <<>>
<1>1. /\ <<>> \in Seq(Queries) /\ Elems(<<>>) = {}
      /\ <<"free", "unused">> \in Seq(Queries) /\ Elems(<<"free", "unused">>) = {"free", "unused"}
      /\ <<"unused">> \in Seq(Queries) /\ Elems(<<"unused">>) = {"unused"}
      /\ <<"no groups">> \in Seq(Queries) /\ Elems(<<"no groups">>) = {"no groups"}
  <2>1. \A x \in Queries : <<x>> \in Seq(Queries) /\ Elems(<<x>>) = {x}
    BY ElemsFew
  <2>2. \A x, y \in Queries : <<x, y>> \in Seq(Queries) /\ Elems(<<x, y>>) = {x, y}
    BY ElemsFew
  <2>3. "free" \in Queries /\ "unused" \in Queries /\ "no groups" \in Queries
    BY DEF Queries
  <2>4. QED
    BY <2>1, <2>2, <2>3, ElemsFew
<1>2. A \in Seq(Queries) /\ Elems(A) = IF old.name # t.input.name THEN {"free", "unused"} ELSE {}
  BY <1>1
<1>3. B \in Seq(Queries) /\ Elems(B) = IF old.family # family THEN {"unused"} ELSE {}
  BY <1>1
<1>4. C \in Seq(Queries) /\ Elems(C) = IF old.family # family /\ t.op = "update object" THEN {"no groups"} ELSE {}
  BY <1>1
<1>5. UpdateChecks(t, old, family) = A \o B \o C
  BY DEF UpdateChecks
<1> HIDE DEF A, B, C
<1>6. A \o B \in Seq(Queries) /\ Elems(A \o B) = Elems(A) \union Elems(B)
  BY <1>2, <1>3, ElemsConcat
<1>7. A \o B \o C \in Seq(Queries) /\ Elems(A \o B \o C) = Elems(A \o B) \union Elems(C)
  BY <1>4, <1>6, ElemsConcat
<1>8. PICK m : m = UpdateChecks(t, old, family)
  OBVIOUS
<1>9. m \in Seq(Queries) /\ Elems(m) = Elems(A) \union Elems(B) \union Elems(C)
  BY <1>5, <1>6, <1>7, <1>8
<1>10. /\ Elems(m) \subseteq {"free", "unused", "no groups"}
       /\ ("free" \in Elems(m)) <=> (old.name # t.input.name)
       /\ ("unused" \in Elems(m)) <=> (old.name # t.input.name \/ old.family # family)
       /\ "no groups" \in Elems(m) => old.family # family /\ t.op = "update object"
       /\ old.family # family /\ t.op = "update object" => "no groups" \in Elems(m)
  <2>1. Elems(A) \subseteq {"free", "unused"} /\ Elems(B) \subseteq {"unused"} /\ Elems(C) \subseteq {"no groups"}
    BY <1>2, <1>3, <1>4
  <2>2. /\ "free" \in Elems(A) => old.name # t.input.name
        /\ old.name # t.input.name => "free" \in Elems(A) /\ "unused" \in Elems(A)
        /\ "unused" \in Elems(A) => old.name # t.input.name
    BY <1>2
  <2>3. ("unused" \in Elems(B)) <=> (old.family # family)
    BY <1>3
  <2>4. /\ "no groups" \in Elems(C) => old.family # family /\ t.op = "update object"
        /\ old.family # family /\ t.op = "update object" => "no groups" \in Elems(C)
    BY <1>4, Zenon
  <2>5. "free" # "unused" /\ "free" # "no groups" /\ "unused" # "no groups"
    OBVIOUS
  <2>6. QED
    BY <1>9, <2>1, <2>2, <2>3, <2>4, <2>5
<1>11. QED
  BY <1>8, <1>9, <1>10

-----------------------------------------------------------------------------
(* The answer to a query *)

\* What a handler knows it goes on knowing, and the task keeps its shape.
Likewise(a, t) ==
  /\ a \in BookTasks /\ a.op = t.op /\ a.id = t.id /\ a.input = t.input /\ a.stale = t.stale
Advanced(a, t) == Likewise(a, t) /\ a.left = t.left /\ a.old = t.old /\ a.family = t.family

LEMMA DoneIs ==
  ASSUME NEW t \in BookTasks, t.todo # <<>>
  PROVE  Advanced(Done(t), t) /\ Done(t).todo = Tail(t.todo)
<1>1. Tail(t.todo) \in Seq(Queries)
  BY ElemsTail DEF BookTasks
<1>2. QED
  BY <1>1 DEF Done, Advanced, Likewise, BookTasks

LEMMA Heads ==
  /\ Head(<<"object">>) = "object" /\ Head(<<"object", "no groups", "unused">>) = "object"
  /\ Head(<<"members", "free">>) = "members" /\ Head(<<"group", "members">>) = "group"
  /\ Head(<<"members">>) = "members" /\ Head(<<"group", "unused">>) = "group"
  /\ Head(<<"src", "dst">>) = "src" /\ Head(<<"src group", "dst">>) = "src group"
  /\ Head(<<"dst">>) = "dst" /\ Head(<<"dst group">>) = "dst group"
<1>1. \A a \in Queries : Head(<<a>>) = a
  BY ElemsFew
<1>2. \A a, b \in Queries : Head(<<a, b>>) = a
  BY ElemsFew
<1>3. \A a, b, c \in Queries : Head(<<a, b, c>>) = a
  BY ElemsFew
<1>4. QED
  BY <1>1, <1>2, <1>3 DEF Queries

\* A check of a name or of the users of a row.
LEMMA CheckShape ==
  ASSUME NEW t \in BookTasks, NEW a \in BookTasks, Advanced(a, t), t.todo # <<>>, a.todo = Tail(t.todo),
         Head(t.todo) \in {"free", "unused", "no groups"}, Shape(t), t.op # None
  PROVE  Shape(a) /\ Open(t) = {Head(t.todo)} \union Open(a)
         /\ t.op \notin RuleOps /\ "object" \notin Open(t) /\ "group" \notin Open(t) /\ "members" \notin Open(t)
<1>1. t.todo \in Seq(Queries)
  BY DEF BookTasks
<1>2. Open(t) = {Head(t.todo)} \union Open(a)
  BY <1>1, ElemsTail DEF Open
<1>3. t.todo \notin {<<"object">>, <<"object", "no groups", "unused">>, <<"members", "free">>, <<"group", "members">>,
                     <<"members">>, <<"group", "unused">>, <<"src", "dst">>, <<"src group", "dst">>, <<"dst">>,
                     <<"dst group">>, <<>>}
  BY Heads
<1>4. t.op \notin RuleOps
  BY <1>3 DEF Shape
<1>5. /\ t.op = "add object" => Open(t) \subseteq {"free"}
      /\ t.op = "update object" => Open(t) \subseteq {"free", "unused", "no groups"} /\ t.old \in Olds
      /\ t.op = "delete object" => Open(t) \subseteq {"no groups", "unused"} /\ t.old \in Olds
      /\ t.op = "add group" => Open(t) \subseteq {"free"} /\ t.left = {}
      /\ t.op = "update group" => Open(t) \subseteq {"free", "unused"} /\ t.old \in Olds /\ t.left = {}
      /\ t.op = "delete group" => Open(t) \subseteq {"unused"} /\ t.old \in Olds
  BY <1>3 DEF Shape
<1>6. Shape(a)
  BY <1>2, <1>4, <1>5 DEF Shape, Advanced, Likewise
<1>7. t.op # None => "object" \notin Open(t) /\ "group" \notin Open(t) /\ "members" \notin Open(t)
  BY <1>4, <1>5 DEF BookTasks, ObjectOps, GroupOps
<1>8. QED
  BY <1>2, <1>4, <1>6, <1>7

\* What the next query asks is known once it has been asked.
LEMMA CheckLearned ==
  ASSUME NEW t, NEW a, Advanced(a, t), NEW check \in {"free", "unused", "no groups"},
         Open(t) = {check} \union Open(a), t.op \notin RuleOps, Learned(t),
         "object" \notin Open(t), "group" \notin Open(t), "members" \notin Open(t),
         check = "free" => ~NameInUse(t.input.name),
         check = "unused" => ~UsedByRules(t.old.name),
         check = "no groups" => GroupsUsing(t.id) = {}
  PROVE  Learned(a)
<1>1. /\ a.op = t.op /\ a.id = t.id /\ a.input = t.input /\ a.left = t.left /\ a.old = t.old /\ a.family = t.family
      /\ "object" \notin Open(a) /\ "group" \notin Open(a) /\ "members" \notin Open(a)
  BY DEF Advanced, Likewise
<1>2. /\ "free" \in Open(t) \/ ~NameInUse(t.input.name) => "free" \in Open(a) \/ ~NameInUse(t.input.name)
      /\ "unused" \in Open(t) \/ ~UsedByRules(t.old.name) => "unused" \in Open(a) \/ ~UsedByRules(t.old.name)
      /\ "no groups" \in Open(t) \/ GroupsUsing(t.id) = {} => "no groups" \in Open(a) \/ GroupsUsing(t.id) = {}
  OBVIOUS
<1>3. ASSUME NEW family, Changes(t, family) PROVE Changes(a, family)
  BY <1>1, <1>2, <1>3 DEF Changes
<1>4. LookedUp(t) => LookedUp(a)
  BY <1>1 DEF LookedUp
<1>5. a.op = "add object" => "free" \in Open(a) \/ ~NameInUse(a.input.name)
  BY <1>1, <1>2 DEF Learned
<1>6. a.op \in {"update object", "delete object"} => a.id \in DOMAIN objects /\ a.old = objects[a.id]
  BY <1>1 DEF Learned
<1>7. a.op = "update object" => Changes(a, a.input.family)
  BY <1>1, <1>3 DEF Learned
<1>8. a.op = "delete object" => /\ "no groups" \in Open(a) \/ GroupsUsing(a.id) = {}
                                /\ "unused" \in Open(a) \/ ~UsedByRules(a.old.name)
  BY <1>1, <1>2 DEF Learned
<1>9. a.op \in {"add group", "update group"} => LookedUp(a)
  BY <1>1, <1>4 DEF Learned
<1>10. a.op = "add group" => "free" \in Open(a) \/ ~NameInUse(a.input.name)
  BY <1>1, <1>2 DEF Learned
<1>11. a.op \in {"update group", "delete group"} =>
         /\ a.id \in DOMAIN groups /\ a.old.name = groups[a.id].name
         /\ a.old.family \in GroupFamilies(a.id)
  BY <1>1 DEF Learned
<1>12. a.op = "update group" => Changes(a, a.family)
  BY <1>1, <1>3 DEF Learned
<1>13. a.op = "delete group" => "unused" \in Open(a) \/ ~UsedByRules(a.old.name)
  BY <1>1, <1>2 DEF Learned
<1>14. QED
  BY <1>1, <1>5, <1>6, <1>7, <1>8, <1>9, <1>10, <1>11, <1>12, <1>13 DEF Learned

\* Nothing is known to a rule, or nothing else than its ends.
LEMMA OpSets ==
  /\ ObjectOps = {"add object", "update object", "delete object"}
  /\ GroupOps = {"add group", "update group", "delete group"}
  /\ RuleOps = {"add rule", "update rule"}
BY DEF ObjectOps, GroupOps, RuleOps

Good(t, a) == \/ a = Idle
              \/ Likewise(a, t) /\ Shape(a) /\ (OneVersion /\ Learned(t) => Learned(a))

LEMMA CheckAnswer ==
  ASSUME NEW t \in BookTasks, t.op # None, Shape(t), t.todo # <<>>,
         Head(t.todo) \in {"free", "unused", "no groups"}, NEW a \in Answers(t)
  PROVE  Good(t, a)
<1> DEFINE check == Head(t.todo)
<1>1. PICK d : d = Done(t)
  OBVIOUS
<1>2. Advanced(d, t) /\ d.todo = Tail(t.todo)
  BY <1>1, DoneIs DEF Done, BookTasks
<1>3. Shape(d) /\ Open(t) = {check} \union Open(d) /\ t.op \notin RuleOps
      /\ "object" \notin Open(t) /\ "group" \notin Open(t) /\ "members" \notin Open(t)
  BY <1>2, CheckShape DEF Advanced, Likewise
<1>4. \/ check = "free" /\ a = Require(t, ~NameInUse(t.input.name))
      \/ check = "unused" /\ a = Require(t, ~UsedByRules(t.old.name))
      \/ check = "no groups" /\ a = Require(t, GroupsUsing(t.id) = {})
  BY DEF Answers
<1>5. CASE a = Idle
  BY <1>5 DEF Good
<1>6. CASE a # Idle
  <2>1. /\ a = d
        /\ check = "free" => ~NameInUse(t.input.name)
        /\ check = "unused" => ~UsedByRules(t.old.name)
        /\ check = "no groups" => GroupsUsing(t.id) = {}
    BY <1>1, <1>4, <1>6 DEF Require
  <2>2. Learned(t) => Learned(a)
    BY <1>2, <1>3, <2>1, CheckLearned
  <2>3. QED
    BY <1>2, <1>3, <2>1, <2>2 DEF Good, Advanced
<1>7. QED
  BY <1>5, <1>6

LEMMA Tails ==
  /\ Tail(<<"object">>) = <<>> /\ Tail(<<"object", "no groups", "unused">>) = <<"no groups", "unused">>
  /\ Tail(<<"members", "free">>) = <<"free">> /\ Tail(<<"group", "members">>) = <<"members">>
  /\ Tail(<<"members">>) = <<>> /\ Tail(<<"group", "unused">>) = <<"unused">>
  /\ Tail(<<"src", "dst">>) = <<"dst">> /\ Tail(<<"src group", "dst">>) = <<"dst">>
  /\ Tail(<<"dst">>) = <<>> /\ Tail(<<"dst group">>) = <<>>
<1>1. \A a \in Queries : Tail(<<a>>) = <<>>
  BY ElemsFew
<1>2. \A a, b \in Queries : Tail(<<a, b>>) = <<b>>
  BY ElemsFew
<1>3. \A a, b, c \in Queries : Tail(<<a, b, c>>) = <<b, c>>
  BY ElemsFew
<1>4. QED
  BY <1>1, <1>2, <1>3 DEF Queries

\* The queries that come first say who asks, and what is left to ask.
LEMMA WhoAsks ==
  ASSUME NEW t \in BookTasks, t.op # None, Shape(t), t.todo # <<>>
  PROVE  /\ Head(t.todo) \in Queries
         /\ Head(t.todo) = "object" => \/ t.op = "update object" /\ t.todo = <<"object">>
                                       \/ t.op = "delete object" /\ t.todo = <<"object", "no groups", "unused">>
         /\ Head(t.todo) = "group" => \/ t.op = "update group" /\ t.todo = <<"group", "members">>
                                      \/ t.op = "delete group" /\ t.todo = <<"group", "unused">>
         /\ Head(t.todo) = "members" => \/ t.op = "add group" /\ t.todo = <<"members", "free">>
                                        \/ t.op = "update group" /\ t.todo = <<"members">> /\ t.old \in Olds
         /\ Head(t.todo) = "src" => t.op \in RuleOps /\ t.todo = <<"src", "dst">>
         /\ Head(t.todo) = "src group" => t.op \in RuleOps /\ t.todo = <<"src group", "dst">>
         /\ Head(t.todo) = "dst" => t.op \in RuleOps /\ t.todo = <<"dst">>
         /\ Head(t.todo) = "dst group" => t.op \in RuleOps /\ t.todo = <<"dst group">>
<1>1. t.todo \in Seq(Queries) /\ t.op \in ObjectOps \union GroupOps \union RuleOps
  BY DEF BookTasks
<1>2. Head(t.todo) \in Queries /\ Head(t.todo) \in Open(t)
  BY <1>1, ElemsTail DEF Open
<1>3. CASE t.op = "add object"
  BY <1>2, <1>3, OpSets DEF Shape
<1>4. CASE t.op = "update object"
  BY <1>2, <1>4, OpSets, Heads DEF Shape
<1>5. CASE t.op = "delete object"
  BY <1>2, <1>5, OpSets, Heads DEF Shape
<1>6. CASE t.op = "add group"
  BY <1>2, <1>6, OpSets, Heads DEF Shape
<1>7. CASE t.op = "update group"
  BY <1>2, <1>7, OpSets, Heads DEF Shape
<1>8. CASE t.op = "delete group"
  BY <1>2, <1>8, OpSets, Heads DEF Shape
<1>9. CASE t.op \in RuleOps
  <2>1. t.todo \in {<<"src", "dst">>, <<"src group", "dst">>, <<"dst">>, <<"dst group">>}
    BY <1>9 DEF Shape
  <2>2. QED
    BY <1>2, <1>9, <2>1, Heads
<1>10. QED
  BY <1>1, <1>3, <1>4, <1>5, <1>6, <1>7, <1>8, <1>9, OpSets

LEMMA ObjectAnswer ==
  ASSUME BookTypeOK, NEW t \in BookTasks, t.op # None, Shape(t), t.todo # <<>>,
         Head(t.todo) = "object", NEW a \in AskObject(t)
  PROVE  Good(t, a)
<1>1. CASE t.id \notin DOMAIN objects
  BY <1>1 DEF AskObject, Good
<1>2. CASE t.id \in DOMAIN objects
  <2>1. PICK old : old = objects[t.id]
    OBVIOUS
  <2>2. old \in Objects /\ old \in Olds
    BY <1>2, <2>1 DEF BookTypeOK, TableOK, Objects, Olds
  <2>3. CASE t.op = "update object" /\ t.todo = <<"object">>
    <3>1. PICK more : more = UpdateChecks(t, old, t.input.family)
      OBVIOUS
    <3>2. /\ more \in Seq(Queries)
          /\ Elems(more) \subseteq {"free", "unused", "no groups"}
          /\ ("free" \in Elems(more)) <=> (old.name # t.input.name)
          /\ ("unused" \in Elems(more)) <=> (old.name # t.input.name \/ old.family # t.input.family)
          /\ "no groups" \in Elems(more) => old.family # t.input.family
          /\ old.family # t.input.family => "no groups" \in Elems(more)
      <4>1. PICK family : family = t.input.family
        OBVIOUS
      <4>2. more = UpdateChecks(t, old, family) /\ t.op = "update object"
        BY <2>3, <3>1, <4>1
      <4>3. /\ more \in Seq(Queries)
            /\ Elems(more) \subseteq {"free", "unused", "no groups"}
            /\ ("free" \in Elems(more)) <=> (old.name # t.input.name)
            /\ ("unused" \in Elems(more)) <=> (old.name # t.input.name \/ old.family # family)
            /\ "no groups" \in Elems(more) => old.family # family
            /\ old.family # family => "no groups" \in Elems(more)
        BY <4>2, ElemsMore
      <4>4. QED
        BY <4>1, <4>3
    <3>3. a = [t EXCEPT !.old = old, !.todo = more]
      <4>1. a = [t EXCEPT !.old = old, !.todo = Tail(t.todo) \o more]
        BY <1>2, <2>1, <2>3, <3>1 DEF AskObject, BookTasks
      <4>2. Tail(t.todo) \o more = more
        BY <2>3, <3>2, Tails, ConcatEmpty
      <4>3. QED
        BY <4>1, <4>2
    <3>4. a \in BookTasks /\ a.op = "update object" /\ a.id = t.id /\ a.input = t.input /\ a.stale = t.stale
          /\ a.old = old /\ a.todo = more
      BY <2>2, <2>3, <3>2, <3>3 DEF BookTasks
    <3>5. Open(a) = Elems(more)
      BY <3>4 DEF Open
    <3>6. Shape(a)
      BY <2>2, <2>3, <3>2, <3>4, <3>5, OpSets DEF Shape
    <3>7. Changes(a, a.input.family)
      BY <3>2, <3>4, <3>5 DEF Changes
    <3>8. Learned(a)
      BY <1>2, <2>1, <3>4, <3>7, OpSets DEF Learned
    <3>9. QED
      BY <2>3, <3>4, <3>6, <3>8 DEF Good, Likewise
  <2>4. CASE t.op = "delete object" /\ t.todo = <<"object", "no groups", "unused">>
    <3>1. a = [t EXCEPT !.old = old, !.todo = Tail(t.todo) \o <<>>]
      BY <1>2, <2>1, <2>4 DEF AskObject, BookTasks
    <3>3. <<"no groups", "unused">> \in Seq(Queries) /\ Elems(<<"no groups", "unused">>) = {"no groups", "unused"}
      <4>1. \A x, y \in Queries : <<x, y>> \in Seq(Queries) /\ Elems(<<x, y>>) = {x, y}
        BY ElemsFew
      <4>2. QED
        BY <4>1 DEF Queries
    <3>2. Tail(t.todo) \o <<>> = <<"no groups", "unused">>
      BY <2>4, <3>3, Tails, ConcatEmpty
    <3>4. a \in BookTasks /\ a.op = "delete object" /\ a.id = t.id /\ a.input = t.input /\ a.stale = t.stale
          /\ a.old = old /\ a.todo = <<"no groups", "unused">>
      BY <2>2, <2>4, <3>1, <3>2, <3>3 DEF BookTasks
    <3>5. Open(a) = {"no groups", "unused"}
      BY <3>3, <3>4 DEF Open
    <3>6. Shape(a)
      BY <2>2, <3>4, <3>5, OpSets DEF Shape
    <3>7. Learned(a)
      BY <1>2, <2>1, <3>4, <3>5, OpSets DEF Learned
    <3>8. QED
      BY <2>4, <3>4, <3>6, <3>7 DEF Good, Likewise
  <2>5. QED
    BY <2>3, <2>4, WhoAsks
<1>3. QED
  BY <1>1, <1>2

LEMMA OneLeft ==
  /\ Elems(<<>>) = {} /\ Elems(<<"members">>) = {"members"} /\ Elems(<<"unused">>) = {"unused"}
  /\ Elems(<<"free">>) = {"free"} /\ Elems(<<"dst">>) = {"dst"} /\ Elems(<<"dst group">>) = {"dst group"}
<1>1. \A a \in Queries : Elems(<<a>>) = {a}
  BY ElemsFew
<1>2. {"members", "unused", "free", "dst", "dst group"} \subseteq Queries
  BY DEF Queries
<1>3. QED
  BY <1>1, <1>2, ElemsFew

LEMMA FamiliesKnown ==
  ASSUME BookTypeOK, NEW i \in DOMAIN groups
  PROVE  GroupFamilies(i) \subseteq Families \union {None}
BY DEF BookTypeOK, TableOK, Objects, GroupFamilies

LEMMA GroupAnswer ==
  ASSUME BookTypeOK, NEW t \in BookTasks, t.op # None, Shape(t), t.todo # <<>>,
         Head(t.todo) = "group", NEW a \in AskGroup(t)
  PROVE  Good(t, a)
<1>1. CASE t.id \notin DOMAIN groups
  BY <1>1 DEF AskGroup, Good
<1>2. CASE t.id \in DOMAIN groups
  <2>1. PICK f \in GroupFamilies(t.id) : a = [Done(t) EXCEPT !.old = [name |-> groups[t.id].name, family |-> f]]
    BY <1>2 DEF AskGroup
  <2>2. PICK old : old = [name |-> groups[t.id].name, family |-> f]
    OBVIOUS
  <2>3. old \in Olds /\ old.name = groups[t.id].name /\ old.family \in GroupFamilies(t.id)
    BY <1>2, <2>2, FamiliesKnown DEF BookTypeOK, TableOK, Groups, Olds
  <2>4. PICK d : d = Done(t)
    OBVIOUS
  <2>5. Advanced(d, t) /\ d.todo = Tail(t.todo)
    BY <2>4, DoneIs DEF Done, BookTasks
  <2>6. a = [d EXCEPT !.old = old]
    BY <2>1, <2>2, <2>4
  <2>7. Likewise(a, t) /\ a.old = old /\ a.todo = Tail(t.todo) /\ a.left = t.left /\ a.family = t.family
    BY <2>3, <2>5, <2>6 DEF Advanced, Likewise, BookTasks
  <2>8. CASE t.op = "update group" /\ t.todo = <<"group", "members">>
    <3>1. a.todo = <<"members">>
      BY <2>7, <2>8, Tails
    <3>2. Open(a) = {"members"}
      BY <2>7, <3>1, OneLeft DEF Open
    <3>3. a.op = "update group" /\ t.op = "update group" /\ a.input = t.input /\ a.id = t.id
      BY <2>7, <2>8 DEF Likewise
    <3>4. Shape(a)
      BY <2>3, <2>7, <2>8, <3>1, <3>3, OpSets DEF Shape
    <3>5. Learned(t) => LookedUp(a)
      BY <2>7, <3>3 DEF Learned, LookedUp
    <3>6. Learned(t) => Learned(a)
      BY <1>2, <2>3, <2>7, <3>2, <3>3, <3>5, OpSets DEF Learned
    <3>7. QED
      BY <2>7, <3>4, <3>6 DEF Good
  <2>9. CASE t.op = "delete group" /\ t.todo = <<"group", "unused">>
    <3>1. a.todo = <<"unused">>
      BY <2>7, <2>9, Tails
    <3>2. Open(a) = {"unused"}
      BY <2>7, <3>1, OneLeft DEF Open
    <3>3. a.op = "delete group" /\ a.id = t.id
      BY <2>7, <2>9 DEF Likewise
    <3>4. Shape(a)
      BY <2>3, <2>7, <3>2, <3>3, OpSets DEF Shape
    <3>5. Learned(a)
      BY <1>2, <2>3, <2>7, <3>2, <3>3, OpSets DEF Learned
    <3>6. QED
      BY <2>7, <3>4, <3>5 DEF Good
  <2>10. QED
    BY <2>8, <2>9, WhoAsks
<1>3. QED
  BY <1>1, <1>2

\* The members of a group.
Looking(t) ==
  /\ t.op \in {"add group", "update group"} /\ t.input \in Requested.groups /\ t.left \subseteq t.input.members
  /\ t.op = "add group" => t.todo = <<"members", "free">> /\ t.id = 0
  /\ t.op = "update group" => t.todo = <<"members">> /\ t.old \in Olds
Asking(t) == IF t.op = "update group" THEN UpdateChecks(t, t.old, t.family) ELSE <<>>
Looked(t) == IF t.left # {} THEN t ELSE [t EXCEPT !.todo = Tail(@) \o Asking(t)]

LEMMA LookingShape ==
  ASSUME NEW t \in BookTasks, Looking(t)
  PROVE  Shape(t) /\ "members" \in Open(t)
<1>1. t.todo \in Seq(Queries) /\ t.todo # <<>> /\ Head(t.todo) = "members"
  <2>1. t.todo = <<"members">> \/ t.todo = <<"members", "free">>
    BY DEF Looking
  <2>2. t.todo \in Seq(Queries)
    BY DEF BookTasks
  <2>3. QED
    BY <2>1, <2>2, Heads
<1>2. "members" \in Open(t)
  BY <1>1, ElemsTail DEF Open
<1>3. Shape(t)
  BY OpSets DEF Shape, Looking
<1>4. QED
  BY <1>2, <1>3

LEMMA LookedUpdate ==
  ASSUME NEW t \in BookTasks, Looking(t), t.left = {}, t.op = "update group",
         NEW a, Advanced(a, t), a.todo = UpdateChecks(t, t.old, t.family)
  PROVE  Likewise(a, t) /\ Shape(a) /\ (Learned(t) => Learned(a))
<1>1. PICK family : family = t.family
  OBVIOUS
<1>2. PICK old : old = t.old
  OBVIOUS
<1>3. PICK more : more = UpdateChecks(t, old, family)
  OBVIOUS
<1>4. /\ more \in Seq(Queries)
      /\ Elems(more) \subseteq {"free", "unused", "no groups"}
      /\ ("free" \in Elems(more)) <=> (old.name # t.input.name)
      /\ ("unused" \in Elems(more)) <=> (old.name # t.input.name \/ old.family # family)
      /\ "no groups" \notin Elems(more)
  BY <1>3, ElemsMore
<1>5. a.todo = more
  BY <1>1, <1>2, <1>3
<1>6. Likewise(a, t) /\ a.todo = more /\ a.left = {} /\ a.old = old /\ a.family = family
  BY <1>1, <1>2, <1>5 DEF Advanced
<1>7. Open(a) = Elems(more) /\ Open(a) \subseteq {"free", "unused"}
  BY <1>4, <1>6 DEF Open
<1>8. /\ a.op = "update group" /\ a.input = t.input /\ a.id = t.id /\ a.old \in Olds /\ a.input \in Requested.groups
      /\ a.left \subseteq a.input.members /\ a.left = {}
  BY <1>2, <1>6 DEF Likewise, Looking
<1>9. Shape(a)
  BY <1>7, <1>8, OpSets DEF Shape
<1>10. Changes(a, a.family)
  BY <1>4, <1>6, <1>7, <1>8 DEF Changes
<1>11. t.todo = <<"members">> /\ Open(t) = {"members"}
  BY OneLeft DEF Looking, Open
<1>12. ASSUME Learned(t) PROVE Learned(a)
  <2>1. LookedUp(t) /\ t.id \in DOMAIN groups /\ t.old.name = groups[t.id].name /\ t.old.family \in GroupFamilies(t.id)
    BY <1>11, <1>12 DEF Learned
  <2>2. LookedUp(a)
    BY <1>1, <1>6, <1>8, <2>1 DEF LookedUp
  <2>3. QED
    BY <1>2, <1>6, <1>7, <1>8, <1>10, <2>1, <2>2, OpSets DEF Learned
<1>13. QED
  BY <1>6, <1>9, <1>12

LEMMA LookedAdd ==
  ASSUME NEW t \in BookTasks, Looking(t), t.left = {}, t.op = "add group",
         NEW a, Advanced(a, t), a.todo = <<"free">>
  PROVE  Likewise(a, t) /\ Shape(a) /\ (Learned(t) => Learned(a))
<1>1. Elems(<<"free">>) = {"free"}
  BY OneLeft
<1>2. Likewise(a, t) /\ a.todo = <<"free">> /\ a.left = {} /\ a.old = t.old /\ a.family = t.family
  BY DEF Advanced
<1>3. Open(a) = {"free"}
  BY <1>1, <1>2 DEF Open
<1>4. /\ a.op = "add group" /\ a.input = t.input /\ a.id = 0 /\ a.input \in Requested.groups
      /\ a.left \subseteq a.input.members /\ a.left = {}
  BY <1>2 DEF Likewise, Looking
<1>5. Shape(a)
  BY <1>3, <1>4, OpSets DEF Shape
<1>6. ASSUME Learned(t) PROVE Learned(a)
  <2>1. LookedUp(t)
    BY <1>6 DEF Learned
  <2>2. LookedUp(a)
    BY <1>2, <1>4, <2>1 DEF LookedUp
  <2>3. QED
    BY <1>3, <1>4, <2>2, OpSets DEF Learned
<1>7. QED
  BY <1>2, <1>5, <1>6

LEMMA LookedIs ==
  ASSUME NEW t \in BookTasks, Looking(t)
  PROVE  Likewise(Looked(t), t) /\ Shape(Looked(t)) /\ (Learned(t) => Learned(Looked(t)))
<1>1. CASE t.left # {}
  <2>1. Looked(t) = t
    BY <1>1 DEF Looked
  <2>2. QED
    BY <2>1, LookingShape DEF Likewise
<1>2. CASE t.left = {} /\ t.op = "add group"
  <2>1. <<"free">> \in Seq(Queries)
    <3>1. \A x \in Queries : <<x>> \in Seq(Queries)
      BY ElemsFew
    <3>2. QED
      BY <3>1 DEF Queries
  <2>2. Tail(t.todo) \o <<>> = <<"free">>
    BY <1>2, <2>1, Tails, ConcatEmpty DEF Looking
  <2>3. Looked(t) = [t EXCEPT !.todo = <<"free">>]
    BY <1>2, <2>2 DEF Looked, Asking, BookTasks
  <2>4. PICK a : a = Looked(t)
    OBVIOUS
  <2>5. Advanced(a, t) /\ a.todo = <<"free">>
    BY <2>1, <2>3, <2>4 DEF Advanced, Likewise, BookTasks
  <2>6. QED
    BY <1>2, <2>4, <2>5, LookedAdd
<1>3. CASE t.left = {} /\ t.op = "update group"
  <2>1. PICK more : more = UpdateChecks(t, t.old, t.family)
    OBVIOUS
  <2>2. more \in Seq(Queries)
    BY <2>1, ElemsMore
  <2>3. Tail(t.todo) \o more = more
    BY <1>3, <2>2, Tails, ConcatEmpty DEF Looking
  <2>4. Asking(t) = more
    BY <1>3, <2>1 DEF Asking
  <2>5. Looked(t) = [t EXCEPT !.todo = more]
    BY <1>3, <2>3, <2>4 DEF Looked, BookTasks
  <2>6. PICK a : a = Looked(t)
    OBVIOUS
  <2>7. Advanced(a, t) /\ a.todo = more
    BY <2>2, <2>5, <2>6 DEF Advanced, Likewise, BookTasks
  <2>8. QED
    BY <1>3, <2>1, <2>6, <2>7, LookedUpdate
<1>4. QED
  BY <1>1, <1>2, <1>3 DEF Looking

LEMMA ObjectFamilies ==
  ASSUME BookTypeOK, NEW i \in DOMAIN objects
  PROVE  objects[i].family \in Families /\ objects[i].name \in Names
         /\ \A m \in DOMAIN objects : objects[m].name = objects[i].name => m = i
BY DEF BookTypeOK, TableOK, Objects, Distinct

\* One member more has been found.
LEMMA FoundOne ==
  ASSUME BookTypeOK, NEW t \in BookTasks, Looking(t), LookedUp(t), NEW m \in t.left, NEW i \in FindObject(m),
         t.family \in {objects[i].family, None},
         NEW u, Likewise(u, t), u.left = t.left \ {m}, u.old = t.old, u.todo = t.todo, u.family = objects[i].family
  PROVE  LookedUp(u)
<1>1. m \in t.input.members /\ u.input = t.input
  BY DEF Looking, Likewise
<1>2. i \in DOMAIN objects /\ objects[i].name = m
  BY DEF FindObject
<1>3. FindObject(m) = {i}
  BY <1>2, ObjectFamilies DEF FindObject
<1>4. ASSUME NEW k \in u.input.members \ u.left, NEW j \in FindObject(k) PROVE objects[j].family = u.family
  <2>1. CASE k = m
    BY <1>3, <1>4, <2>1
  <2>2. CASE k # m
    <3>1. k \in t.input.members \ t.left
      BY <1>1, <1>4, <2>2
    <3>2. objects[j].family = t.family
      BY <1>4, <3>1 DEF LookedUp
    <3>3. objects[j].family \in Families
      BY <1>4, ObjectFamilies DEF FindObject
    <3>4. QED
      BY <3>2, <3>3, BookLimits
  <2>3. QED
    BY <2>1, <2>2
<1>5. QED
  BY <1>1, <1>4 DEF LookedUp

LEMMA MemberAnswer ==
  ASSUME BookTypeOK, NEW t \in BookTasks, t.op # None, Shape(t), t.todo # <<>>,
         Head(t.todo) = "members", NEW a \in AskMember(t)
  PROVE  Good(t, a)
<1>1. Looking(t)
  BY WhoAsks, OpSets DEF Shape, Looking
<1>2. CASE t.left = {}
  <2>1. a = Looked(t)
    BY <1>2 DEF AskMember, Looked, Asking
  <2>2. QED
    BY <1>1, <2>1, LookedIs DEF Good
<1>3. CASE t.left # {} /\ a # Idle
  <2>1. PICK m \in t.left :
          LET found == {objects[i].family : i \in FindObject(m)}
          IN /\ found # {} /\ t.family \in found \union {None}
             /\ a = Looked([t EXCEPT !.family = CHOOSE f \in found : TRUE, !.left = @ \ {m}])
    BY <1>3 DEF AskMember, Looked, Asking
  <2>2. PICK found : found = {objects[i].family : i \in FindObject(m)}
    OBVIOUS
  <2>3. PICK f : f = CHOOSE g \in found : TRUE
    OBVIOUS
  <2>4. PICK u : u = [t EXCEPT !.family = f, !.left = @ \ {m}]
    OBVIOUS
  <2>5. found # {} /\ t.family \in found \union {None} /\ a = Looked(u)
    BY <2>1, <2>2, <2>3, <2>4
  <2>6. f \in found
    BY <2>3, <2>5
  <2>7. PICK i \in FindObject(m) : f = objects[i].family
    BY <2>2, <2>6
  <2>8. i \in DOMAIN objects /\ objects[i].name = m /\ f \in Families
    BY <2>7, ObjectFamilies DEF FindObject
  <2>9. found = {f}
    BY <2>2, <2>7, <2>8, ObjectFamilies DEF FindObject
  <2>10. /\ Likewise(u, t) /\ u.left = t.left \ {m} /\ u.old = t.old /\ u.todo = t.todo
         /\ u.family = objects[i].family
    BY <2>4, <2>7, <2>8 DEF Likewise, BookTasks
  <2>11. Looking(u) /\ u \in BookTasks
    BY <1>1, <2>10 DEF Looking, Likewise
  <2>12. Likewise(a, u) /\ Shape(a) /\ (Learned(u) => Learned(a))
    BY <2>5, <2>11, LookedIs
  <2>13. Likewise(a, t)
    BY <2>10, <2>12 DEF Likewise
  <2>14. ASSUME Learned(t) PROVE Learned(u)
    <3>1. LookedUp(t)
      BY <1>1, <2>14 DEF Learned, Looking
    <3>2. LookedUp(u)
      BY <1>1, <2>5, <2>7, <2>9, <2>10, <3>1, FoundOne
    <3>3. Open(u) = Open(t) /\ u.op = t.op /\ u.id = t.id /\ u.input = t.input
      BY <2>10 DEF Open, Likewise
    <3>4. "members" \in Open(u)
      BY <2>11, LookingShape
    <3>5. u.op \in {"add group", "update group"}
      BY <2>11 DEF Looking
    <3>6. u.op = "add group" => "free" \in Open(u) \/ ~NameInUse(u.input.name)
      BY <2>14, <3>3 DEF Learned
    <3>7. u.op = "update group" /\ "group" \notin Open(u) =>
            /\ u.id \in DOMAIN groups /\ u.old.name = groups[u.id].name
            /\ u.old.family \in GroupFamilies(u.id)
      BY <2>10, <2>14, <3>3 DEF Learned
    <3>8. QED
      BY <3>2, <3>4, <3>5, <3>6, <3>7, OpSets DEF Learned
  <2>15. QED
    BY <2>12, <2>13, <2>14 DEF Good
<1>4. QED
  BY <1>2, <1>3 DEF Good

\* The ends of a rule.
SameVersion(a, t) == t.family = None \/ t.family = a.family

LEMMA MeansOn ==
  ASSUME NEW ref, NEW e, NEW f, NEW o, NEW g, Means(ref, e, o, g), e = None \/ e = f
  PROVE  Means(ref, f, o, g)
BY BookLimits DEF Means

LEMMA ResolvedIs ==
  ASSUME NEW t \in BookTasks, t.todo # <<>>, NEW f \in Families \union {None}, NEW a, a = Resolved(t, f), a # Idle
  PROVE  Likewise(a, t) /\ a.todo = Tail(t.todo) /\ a.family = f /\ f # None /\ SameVersion(a, t)
<1>1. PICK d : d = Done(t)
  OBVIOUS
<1>2. Advanced(d, t) /\ d.todo = Tail(t.todo)
  BY <1>1, DoneIs DEF Done, BookTasks
<1>3. a = [d EXCEPT !.family = f] /\ f # None /\ t.family \in {None, f}
  BY <1>1 DEF Resolved
<1>4. Likewise(a, t) /\ a.todo = Tail(t.todo) /\ a.family = f
  BY <1>2, <1>3 DEF Advanced, Likewise, BookTasks
<1>5. QED
  BY <1>3, <1>4 DEF SameVersion

LEMMA AskEndIs ==
  ASSUME BookTypeOK, NEW t \in BookTasks, t.todo # <<>>, NEW ref \in Refs, NEW group \in Queries,
         NEW a \in AskEnd(t, ref, group), a # Idle
  PROVE  /\ Likewise(a, t) /\ SameVersion(a, t)
         /\ \/ a.todo = Tail(t.todo) /\ Means(ref, a.family, objects, groups)
            \/ a.todo = <<group>> \o Tail(t.todo) /\ ref \in Names /\ FindObject(ref) = {}
<1>1. CASE ref = AnyAddress
  <2>1. a = Done(t)
    BY <1>1, BookLimits DEF AskEnd
  <2>2. Likewise(a, t) /\ a.todo = Tail(t.todo) /\ SameVersion(a, t)
    BY <2>1, DoneIs DEF Done, BookTasks, Advanced, SameVersion
  <2>3. QED
    BY <1>1, <2>2 DEF Means
<1>2. CASE ref \in Families
  <2>1. a = Resolved(t, ref)
    BY <1>2, BookLimits DEF AskEnd
  <2>2. QED
    BY <1>2, <2>1, ResolvedIs DEF Means
<1>3. CASE ref \in Names /\ FindObject(ref) # {}
  <2>1. PICK i \in FindObject(ref) : a = Resolved(t, objects[i].family)
    BY <1>3, BookLimits DEF AskEnd
  <2>2. i \in DOMAIN objects /\ objects[i].name = ref /\ objects[i].family \in Families
    BY <2>1, ObjectFamilies DEF FindObject
  <2>3. Likewise(a, t) /\ a.todo = Tail(t.todo) /\ a.family = objects[i].family /\ SameVersion(a, t)
    BY <2>1, <2>2, ResolvedIs
  <2>4. QED
    BY <2>2, <2>3 DEF Means
<1>4. CASE ref \in Names /\ FindObject(ref) = {}
  <2>1. a = [t EXCEPT !.todo = <<group>> \o Tail(@)]
    BY <1>4, BookLimits DEF AskEnd
  <2>2. <<group>> \in Seq(Queries) /\ Tail(t.todo) \in Seq(Queries)
    BY ElemsFew, ElemsTail DEF BookTasks
  <2>3. PICK todo : todo = <<group>> \o Tail(t.todo)
    OBVIOUS
  <2>4. todo \in Seq(Queries)
    BY <2>2, <2>3, ElemsConcat
  <2>5. a = [t EXCEPT !.todo = todo]
    BY <2>1, <2>3 DEF BookTasks
  <2>6. Likewise(a, t) /\ SameVersion(a, t) /\ a.todo = todo
    BY <2>4, <2>5 DEF Likewise, SameVersion, BookTasks
  <2>7. QED
    BY <1>4, <2>3, <2>6
<1>5. QED
  BY <1>1, <1>2, <1>3, <1>4 DEF Refs

LEMMA AskEndGroupIs ==
  ASSUME BookTypeOK, NEW t \in BookTasks, t.todo # <<>>, NEW ref, NEW a \in AskEndGroup(t, ref), a # Idle
  PROVE  /\ Likewise(a, t) /\ SameVersion(a, t) /\ a.todo = Tail(t.todo)
         /\ OneVersion /\ FindObject(ref) = {} => Means(ref, a.family, objects, groups)
<1>0. PICK i \in FindGroup(ref) : \E f \in GroupFamilies(i) : a = Resolved(t, f)
  BY DEF AskEndGroup
<1>1. PICK f \in GroupFamilies(i) : a = Resolved(t, f)
  BY <1>0
<1>2. i \in DOMAIN groups /\ groups[i].name = ref /\ f \in Families \union {None}
  BY <1>1, FamiliesKnown DEF FindGroup
<1>3. Likewise(a, t) /\ a.todo = Tail(t.todo) /\ a.family = f /\ f # None /\ SameVersion(a, t)
  BY <1>1, <1>2, ResolvedIs
<1>4. PICK m \in groups[i].members : f = objects[m].family
  BY <1>1, <1>3 DEF GroupFamilies
<1>5. f \in Families
  BY <1>2, <1>3
<1>6. ASSUME OneVersion, FindObject(ref) = {} PROVE Means(ref, a.family, objects, groups)
  <2>1. \A k \in DOMAIN objects : objects[k].name # ref
    BY <1>6 DEF FindObject
  <2>2. \A k \in groups[i].members : objects[k].family = f
    BY <1>2, <1>4, <1>6 DEF OneVersion
  <2>3. QED
    BY <1>2, <1>3, <1>4, <1>5, <2>1, <2>2 DEF Means
<1>7. QED
  BY <1>3, <1>6

\* A rule has got on with one of its ends.
LEMMA RuleGetsOn ==
  ASSUME NEW t \in BookTasks, t.op \in RuleOps, Shape(t), NEW a, Likewise(a, t),
         a.todo \in {<<"src group", "dst">>, <<"dst">>, <<"dst group">>, <<>>},
         OneVersion /\ Learned(t) => /\ EndKnown(a, "src", "src group", t.input.src)
                                     /\ EndKnown(a, "dst", "dst group", t.input.dst)
  PROVE  Good(t, a)
<1>1. a.op = t.op /\ a.id = t.id /\ a.input = t.input
  BY DEF Likewise
<1>2. a.op # "add object" /\ a.op # "update object" /\ a.op # "delete object"
      /\ a.op # "add group" /\ a.op # "update group" /\ a.op # "delete group"
  BY <1>1, OpSets
<1>3. t.input \in Requested.rules /\ (t.op = "add rule" => t.id = 0)
  BY DEF Shape
<1>4. Shape(a)
  BY <1>1, <1>2, <1>3 DEF Shape
<1>5. OneVersion /\ Learned(t) => Learned(a)
  BY <1>1, <1>2 DEF Learned
<1>6. QED
  BY <1>4, <1>5 DEF Good

LEMMA OpenRule ==
  ASSUME NEW t
  PROVE  /\ t.todo = <<"src", "dst">> => Open(t) = {"src", "dst"}
         /\ t.todo = <<"src group", "dst">> => Open(t) = {"src group", "dst"}
         /\ t.todo = <<"dst">> => Open(t) = {"dst"}
         /\ t.todo = <<"dst group">> => Open(t) = {"dst group"}
         /\ t.todo = <<>> => Open(t) = {}
<1>1. \A a, b \in Queries : Elems(<<a, b>>) = {a, b}
  BY ElemsFew
<1>2. Elems(<<"src", "dst">>) = {"src", "dst"} /\ Elems(<<"src group", "dst">>) = {"src group", "dst"}
  BY <1>1 DEF Queries
<1>3. QED
  BY <1>2, OneLeft DEF Open

LEMMA Pair ==
  ASSUME NEW a \in Queries, NEW b \in Queries
  PROVE  <<a>> \o <<b>> = <<a, b>>
<1>1. PICK s, r, q : s = <<a>> /\ r = <<b>> /\ q = <<a, b>>
  OBVIOUS
<1>2. /\ s \in Seq(Queries) /\ r \in Seq(Queries) /\ q \in Seq(Queries) /\ Len(s) = 1 /\ Len(r) = 1 /\ Len(q) = 2
      /\ s[1] = a /\ r[1] = b /\ q[1] = a /\ q[2] = b
  BY <1>1
<1>3. PICK p : p = s \o r
  OBVIOUS
<1>4. p \in Seq(Queries) /\ Len(p) = 2
  BY <1>2, <1>3, ConcatProperties
<1>5. p[1] = a /\ p[2] = b
  <2>1. \A i \in 1..2 : p[i] = IF i <= 1 THEN s[i] ELSE r[i - 1]
    BY <1>2, <1>3, ConcatProperties
  <2>2. QED
    BY <1>2, <2>1
<1>6. p = q
  BY <1>2, <1>4, <1>5, SeqEqual
<1>7. QED
  BY <1>1, <1>3, <1>6

LEMMA Joined ==
  /\ <<"src group">> \o <<"dst">> = <<"src group", "dst">>
  /\ <<"dst group">> \o <<>> = <<"dst group">>
<1>1. <<"src group">> \o <<"dst">> = <<"src group", "dst">>
  <2>1. "src group" \in Queries /\ "dst" \in Queries
    BY DEF Queries
  <2>2. QED
    BY <2>1, Pair
<1>2. <<"dst group">> \o <<>> = <<"dst group">>
  <2>1. \A a \in Queries : <<a>> \in Seq(Queries)
    BY ElemsFew
  <2>2. <<"dst group">> \in Seq(Queries)
    BY <2>1 DEF Queries
  <2>3. QED
    BY <2>2, ConcatEmpty
<1>3. QED
  BY <1>1, <1>2

LEMMA SrcAnswer ==
  ASSUME BookTypeOK, NEW t \in BookTasks, t.op # None, Shape(t), t.todo # <<>>,
         Head(t.todo) \in {"src", "src group"}, NEW a \in Answers(t)
  PROVE  Good(t, a)
<1> SUFFICES ASSUME a # Idle PROVE Good(t, a)
  BY DEF Good
<1>1. t.op \in RuleOps /\ t.todo \in {<<"src", "dst">>, <<"src group", "dst">>}
      /\ (Head(t.todo) = "src" => t.todo = <<"src", "dst">>)
      /\ (Head(t.todo) = "src group" => t.todo = <<"src group", "dst">>)
  BY WhoAsks
<1>2. Tail(t.todo) = <<"dst">> /\ Open(t) \subseteq {"src", "src group", "dst"}
  BY <1>1, Tails, OpenRule
<1>3. PICK ref : ref = t.input.src
  OBVIOUS
<1>4. ref \in Refs
  BY <1>1, <1>3, BookLimits DEF Shape, Rules
<1>5. ASSUME a.todo = <<"dst">>, OneVersion /\ Learned(t) => Means(ref, a.family, objects, groups), Likewise(a, t)
      PROVE  Good(t, a)
  <2>1. Open(a) = {"dst"}
    BY <1>5, OpenRule
  <2>2. OneVersion /\ Learned(t) => /\ EndKnown(a, "src", "src group", t.input.src)
                                    /\ EndKnown(a, "dst", "dst group", t.input.dst)
    BY <1>3, <1>5, <2>1 DEF EndKnown
  <2>3. QED
    BY <1>1, <1>5, <2>2, RuleGetsOn
<1>6. CASE Head(t.todo) = "src"
  <2>1. a \in AskEnd(t, ref, "src group")
    BY <1>3, <1>6 DEF Answers
  <2>2. "src group" \in Queries
    BY DEF Queries
  <2>3. /\ Likewise(a, t)
        /\ \/ a.todo = <<"dst">> /\ Means(ref, a.family, objects, groups)
           \/ a.todo = <<"src group">> \o <<"dst">> /\ ref \in Names /\ FindObject(ref) = {}
    BY <1>2, <1>4, <2>1, <2>2, AskEndIs
  <2>4. CASE a.todo = <<"dst">> /\ Means(ref, a.family, objects, groups)
    BY <1>5, <2>3, <2>4
  <2>5. CASE a.todo = <<"src group">> \o <<"dst">> /\ ref \in Names /\ FindObject(ref) = {}
    <3>1. a.todo = <<"src group", "dst">> /\ Open(a) = {"src group", "dst"}
      BY <2>5, Joined, OpenRule
    <3>2. EndKnown(a, "src", "src group", t.input.src) /\ EndKnown(a, "dst", "dst group", t.input.dst)
      BY <1>3, <2>5, <3>1 DEF EndKnown
    <3>3. QED
      BY <1>1, <2>3, <3>1, <3>2, RuleGetsOn
  <2>6. QED
    BY <2>3, <2>4, <2>5
<1>7. CASE Head(t.todo) = "src group"
  <2>1. a \in AskEndGroup(t, ref)
    BY <1>3, <1>7 DEF Answers
  <2>2. Likewise(a, t) /\ a.todo = <<"dst">>
        /\ (OneVersion /\ FindObject(ref) = {} => Means(ref, a.family, objects, groups))
    BY <1>2, <2>1, AskEndGroupIs
  <2>3. Open(t) = {"src group", "dst"}
    BY <1>1, <1>7, OpenRule
  <2>4. Learned(t) => FindObject(ref) = {}
    BY <1>1, <1>3, <2>3 DEF Learned, EndKnown
  <2>5. QED
    BY <1>5, <2>2, <2>4
<1>8. QED
  BY <1>6, <1>7

LEMMA DstAnswer ==
  ASSUME BookTypeOK, NEW t \in BookTasks, t.op # None, Shape(t), t.todo # <<>>,
         Head(t.todo) \in {"dst", "dst group"}, NEW a \in Answers(t)
  PROVE  Good(t, a)
<1> SUFFICES ASSUME a # Idle PROVE Good(t, a)
  BY DEF Good
<1>1. t.op \in RuleOps /\ t.todo \in {<<"dst">>, <<"dst group">>}
      /\ (Head(t.todo) = "dst" => t.todo = <<"dst">>)
      /\ (Head(t.todo) = "dst group" => t.todo = <<"dst group">>)
  BY WhoAsks
<1>2. Tail(t.todo) = <<>> /\ Open(t) \subseteq {"dst", "dst group"}
  BY <1>1, Tails, OpenRule
<1>3. PICK ref : ref = t.input.dst
  OBVIOUS
<1>4. ref \in Refs
  BY <1>1, <1>3, BookLimits DEF Shape, Rules
<1>5. Learned(t) => Means(t.input.src, t.family, objects, groups)
  BY <1>1, <1>2 DEF Learned, EndKnown
<1>6. ASSUME SameVersion(a, t), Likewise(a, t), a.todo \in {<<>>, <<"dst group">>}
      PROVE  Learned(t) => EndKnown(a, "src", "src group", t.input.src)
  <2>1. Learned(t) => Means(t.input.src, a.family, objects, groups)
    BY <1>5, <1>6, MeansOn DEF SameVersion
  <2>2. Open(a) \subseteq {"dst group"}
    BY <1>6, OpenRule
  <2>3. QED
    BY <2>1, <2>2 DEF EndKnown
<1>7. ASSUME a.todo = <<>>, OneVersion /\ Learned(t) => Means(ref, a.family, objects, groups), Likewise(a, t),
             SameVersion(a, t)
      PROVE  Good(t, a)
  <2>1. Open(a) = {}
    BY <1>7, OpenRule
  <2>2. OneVersion /\ Learned(t) => /\ EndKnown(a, "src", "src group", t.input.src)
                                    /\ EndKnown(a, "dst", "dst group", t.input.dst)
    BY <1>3, <1>6, <1>7, <2>1 DEF EndKnown
  <2>3. QED
    BY <1>1, <1>7, <2>2, RuleGetsOn
<1>8. CASE Head(t.todo) = "dst"
  <2>1. a \in AskEnd(t, ref, "dst group")
    BY <1>3, <1>8 DEF Answers
  <2>2. "dst group" \in Queries
    BY DEF Queries
  <2>3. /\ Likewise(a, t) /\ SameVersion(a, t)
        /\ \/ a.todo = <<>> /\ Means(ref, a.family, objects, groups)
           \/ a.todo = <<"dst group">> \o <<>> /\ ref \in Names /\ FindObject(ref) = {}
    BY <1>2, <1>4, <2>1, <2>2, AskEndIs
  <2>4. CASE a.todo = <<>> /\ Means(ref, a.family, objects, groups)
    BY <1>7, <2>3, <2>4
  <2>5. CASE a.todo = <<"dst group">> \o <<>> /\ ref \in Names /\ FindObject(ref) = {}
    <3>1. a.todo = <<"dst group">> /\ Open(a) = {"dst group"}
      BY <2>5, Joined, OpenRule
    <3>2. EndKnown(a, "dst", "dst group", t.input.dst)
      BY <1>3, <2>5, <3>1 DEF EndKnown
    <3>3. QED
      BY <1>1, <1>6, <2>3, <3>1, <3>2, RuleGetsOn
  <2>6. QED
    BY <2>3, <2>4, <2>5
<1>9. CASE Head(t.todo) = "dst group"
  <2>1. a \in AskEndGroup(t, ref)
    BY <1>3, <1>9 DEF Answers
  <2>2. Likewise(a, t) /\ a.todo = <<>> /\ SameVersion(a, t)
        /\ (OneVersion /\ FindObject(ref) = {} => Means(ref, a.family, objects, groups))
    BY <1>2, <2>1, AskEndGroupIs
  <2>3. Open(t) = {"dst group"}
    BY <1>1, <1>9, OpenRule
  <2>4. Learned(t) => FindObject(ref) = {}
    BY <1>1, <1>3, <2>3 DEF Learned, EndKnown
  <2>5. QED
    BY <1>7, <2>2, <2>4
<1>10. QED
  BY <1>8, <1>9

LEMMA AnswerStep ==
  ASSUME BookTypeOK, NEW t \in BookTasks, t.op # None, Shape(t), t.todo # <<>>, NEW a \in Answers(t)
  PROVE  Good(t, a)
<1>1. Head(t.todo) \in Queries
  BY WhoAsks
<1>2. CASE Head(t.todo) \in {"free", "unused", "no groups"}
  BY <1>2, CheckAnswer
<1>3. CASE Head(t.todo) \in {"src", "src group"}
  BY <1>3, SrcAnswer
<1>4. CASE Head(t.todo) \in {"dst", "dst group"}
  BY <1>4, DstAnswer
<1>5. CASE Head(t.todo) = "object"
  <2>1. a \in AskObject(t)
    BY <1>5 DEF Answers
  <2>2. QED
    BY <1>5, <2>1, ObjectAnswer
<1>6. CASE Head(t.todo) = "group"
  <2>1. a \in AskGroup(t)
    BY <1>6 DEF Answers
  <2>2. QED
    BY <1>6, <2>1, GroupAnswer
<1>7. CASE Head(t.todo) = "members"
  <2>1. a \in AskMember(t)
    BY <1>7 DEF Answers
  <2>2. QED
    BY <1>7, <2>1, MemberAnswer
<1>8. QED
  BY <1>1, <1>2, <1>3, <1>4, <1>5, <1>6, <1>7 DEF Queries

-----------------------------------------------------------------------------
(* Type correctness, in two parts *)

TablesOK ==
  /\ TableOK(objects, "objects", Objects) /\ TableOK(groups, "groups", Groups)
  /\ TableOK(rules, "rules", Rules)
  /\ \A i \in DOMAIN groups : groups[i].members \subseteq DOMAIN objects
  /\ Distinct(objects) /\ Distinct(groups)
  /\ last \in [{"objects", "groups", "rules"} -> Nat] /\ \A t \in DOMAIN last : last[t] <= MaxId[t]
RestOK ==
  /\ saved # None => TableOK(saved.rules, "rules", Rules)
  /\ sound \in BOOLEAN /\ writes \in 0..MaxWrites

LEMMA TypeParts ==
  ASSUME BookTypeOK
  PROVE  TablesOK /\ RestOK
BY DEF BookTypeOK, TablesOK, RestOK

LEMMA TypeKept ==
  ASSUME TablesOK', RestOK', TasksInv'
  PROVE  BookTypeOK'
<1>1. ASSUME NEW h \in Handlers
      PROVE  /\ tasks'[h].op \in ObjectOps \union GroupOps \union RuleOps \union {None}
             /\ tasks'[h].family \in Families \union {None} /\ tasks'[h].stale \in BOOLEAN
             /\ tasks'[h].old # None => tasks'[h].old \in [name : Names, family : Families \union {None}]
             /\ tasks'[h].op = None => tasks'[h] = Idle
  <2>1. tasks'[h] \in BookTasks
    BY DEF TasksInv
  <2>2. tasks'[h].op = None => tasks'[h] = Idle
    BY DEF TasksInv, Known
  <2>3. QED
    BY <2>1, <2>2 DEF BookTasks, Olds
<1>2. QED
  BY <1>1 DEF BookTypeOK, TablesOK, RestOK

LEMMA TypeFirst ==
  ASSUME TablesOK, RestOK, tasks = [h \in Handlers |-> Idle]
  PROVE  BookTypeOK
BY BookLimits DEF BookTypeOK, TablesOK, RestOK, Idle

LEMMA IdleIs == Idle \in BookTasks /\ Idle.op = None /\ Known(Idle)
<1>1. <<>> \in Seq(Queries)
  BY ElemsFew
<1>2. Idle \in BookTasks /\ Idle.op = None
  BY <1>1 DEF Idle, BookTasks, BookInputs
<1>3. QED
  BY <1>2 DEF Known

LEMMA LearnedKept ==
  ASSUME objects' = objects, groups' = groups, NEW t, Learned(t),
         \A name : UsedByRules(name)' => UsedByRules(name)
  PROVE  Learned(t)'
<1>1. /\ NameInUse(t.input.name)' <=> NameInUse(t.input.name)
      /\ GroupsUsing(t.id)' = GroupsUsing(t.id) /\ GroupFamilies(t.id)' = GroupFamilies(t.id)
      /\ LookedUp(t)' <=> LookedUp(t)
  BY DEF NameInUse, FindObject, FindGroup, GroupsUsing, GroupFamilies, LookedUp
<1>2. UsedByRules(t.old.name)' => UsedByRules(t.old.name)
  OBVIOUS
<1>3. ASSUME NEW family, Changes(t, family) PROVE Changes(t, family)'
  BY <1>1, <1>2, <1>3 DEF Changes
<1>4. ASSUME NEW end, NEW group, NEW ref, EndKnown(t, end, group, ref) PROVE EndKnown(t, end, group, ref)'
  BY <1>4 DEF EndKnown, FindObject
<1>5. QED
  BY <1>1, <1>2, <1>3, <1>4 DEF Learned

LEMMA StaleIs ==
  ASSUME NEW t \in BookTasks, Known(t), NEW u, u = Stale(t)
  PROVE  /\ u \in BookTasks /\ (u.op = None => u = Idle) /\ (u.op # None => Shape(u))
         /\ u.op # None => u.stale
<1>1. CASE t.op = None
  BY <1>1, IdleIs DEF Stale, Known
<1>2. CASE t.op # None
  <2>1. u = [t EXCEPT !.stale = TRUE]
    BY <1>2 DEF Stale
  <2>2. /\ u \in BookTasks /\ u.op = t.op /\ u.id = t.id /\ u.input = t.input /\ u.left = t.left /\ u.old = t.old
        /\ u.todo = t.todo /\ u.stale
    BY <2>1 DEF BookTasks
  <2>3. Shape(t)
    BY <1>2 DEF Known
  <2>4. Shape(u)
    BY <2>2, <2>3 DEF Shape, Open
  <2>5. QED
    BY <1>2, <2>2, <2>4
<1>3. QED
  BY <1>1, <1>2

\* A query changes nothing but the handler's own task.
LEMMA TablesKept ==
  ASSUME TablesOK, RestOK, UNCHANGED <<tables, saved, sound, writes>>
  PROVE  TablesOK' /\ RestOK'
BY DEF TablesOK, RestOK, tables, TableOK, Distinct

LEMMA RowsKept ==
  ASSUME RowsInv, SavedInv, UNCHANGED <<tables, saved, sound, writes>>
  PROVE  RowsInv' /\ SavedInv'
<1>1. RowsInv'
  BY DEF RowsInv, tables, SharedNamespace, OneVersion
<1>2. SavedInv'
  BY DEF SavedInv, tables, TableOK
<1>3. QED
  BY <1>1, <1>2

LEMMA KnownKept ==
  ASSUME NEW t, Known(t), UNCHANGED <<tables, sound>>
  PROVE  Known(t)'
<1>1. \A name : UsedByRules(name)' => UsedByRules(name)
  BY DEF UsedByRules, tables
<1>2. Learned(t) => Learned(t)'
  BY <1>1, LearnedKept DEF tables
<1>3. QED
  BY <1>2 DEF Known

LEMMA OneTaskStep ==
  ASSUME BookInv, NEW h \in Handlers, NEW a \in BookTasks, Known(a), tasks' = [tasks EXCEPT ![h] = a],
         UNCHANGED <<tables, saved, sound, writes>>
  PROVE  BookInv'
<1>1. TablesOK' /\ RestOK' /\ RowsInv' /\ SavedInv'
  BY TypeParts, TablesKept, RowsKept DEF BookInv
<1>2. Known(a)'
  BY KnownKept DEF tables
<1>3. ASSUME NEW g \in Handlers PROVE Known(tasks[g])'
  <2>1. CASE g = h
    BY <1>2, <2>1 DEF BookInv, TasksInv
  <2>2. CASE g # h
    <3>1. PICK t : t = tasks[g]
      OBVIOUS
    <3>2. Known(t) /\ tasks'[g] = t
      BY <2>2, <3>1 DEF BookInv, TasksInv
    <3>3. Known(t)'
      BY <3>2, KnownKept DEF tables
    <3>4. QED
      BY <3>2, <3>3
  <2>3. QED
    BY <2>1, <2>2
<1>4. tasks' \in [Handlers -> BookTasks]
  BY DEF BookInv, TasksInv
<1>5. TasksInv'
  BY <1>3, <1>4 DEF TasksInv
<1>6. QED
  BY <1>1, <1>5, TypeKept DEF BookInv

LEMMA QueryStep ==
  ASSUME BookInv, NEW h \in Handlers, NEW t \in BookTasks, t.op # None, t.todo # <<>>, Known(t), Query(h, t)
  PROVE  BookInv'
<1>1. PICK a \in Answers(t) : tasks' = [tasks EXCEPT ![h] = a]
  BY DEF Query
<1>2. Good(t, a)
  BY AnswerStep DEF BookInv, Known
<1>3. a \in BookTasks /\ Known(a)
  <2>1. CASE a = Idle
    BY <2>1, IdleIs
  <2>2. CASE a # Idle
    <3>1. Likewise(a, t) /\ Shape(a) /\ (OneVersion /\ Learned(t) => Learned(a))
      BY <1>2, <2>2 DEF Good
    <3>2. sound /\ ~a.stale => OneVersion /\ Learned(t)
      BY <3>1 DEF Known, BookInv, RowsInv, Likewise
    <3>3. QED
      BY <3>1, <3>2 DEF Known, Likewise
  <2>3. QED
    BY <2>1, <2>2
<1>4. QED
  BY <1>1, <1>3, OneTaskStep DEF Query

LEMMA ContinueStep ==
  ASSUME BookInv, NEW h \in Handlers, Continue(h)
  PROVE  BookInv'
<1>1. PICK t : t = tasks[h]
  OBVIOUS
<1>2. t \in BookTasks /\ Known(t) /\ t.todo # <<>> /\ Query(h, t)
  BY <1>1 DEF Continue, BookInv, TasksInv
<1>3. t.op # None
  BY <1>2 DEF Known, Idle
<1>4. QED
  BY <1>2, <1>3, QueryStep

LEMMA FirstQueries ==
  /\ \A op \in ObjectOps \union GroupOps \union RuleOps : Checks(op) \in Seq(Queries) /\ Checks(op) # <<>>
  /\ Checks("add object") = <<"free">> /\ Elems(Checks("add object")) = {"free"}
  /\ Checks("update object") = <<"object">> /\ Elems(Checks("update object")) = {"object"}
  /\ Checks("delete object") = <<"object", "no groups", "unused">>
  /\ Elems(Checks("delete object")) = {"object", "no groups", "unused"}
  /\ Checks("add group") = <<"members", "free">> /\ Elems(Checks("add group")) = {"members", "free"}
  /\ Checks("update group") = <<"group", "members">> /\ Elems(Checks("update group")) = {"group", "members"}
  /\ Checks("delete group") = <<"group", "unused">> /\ Elems(Checks("delete group")) = {"group", "unused"}
  /\ \A op \in RuleOps : Checks(op) = <<"src", "dst">> /\ Elems(Checks(op)) = {"src", "dst"}
<1>1. /\ Checks("add object") = <<"free">> /\ Checks("update object") = <<"object">>
      /\ Checks("delete object") = <<"object", "no groups", "unused">>
      /\ Checks("add group") = <<"members", "free">> /\ Checks("update group") = <<"group", "members">>
      /\ Checks("delete group") = <<"group", "unused">>
  BY OpSets DEF Checks
<1>2. ASSUME NEW op \in RuleOps PROVE Checks(op) = <<"src", "dst">>
  <2>1. op = "add rule" \/ op = "update rule"
    BY OpSets
  <2>2. QED
    BY <2>1, OpSets DEF Checks
<1>3. \A a \in Queries : <<a>> \in Seq(Queries) /\ Elems(<<a>>) = {a} /\ <<a>> # <<>>
  BY ElemsFew
<1>4. \A a, b \in Queries : <<a, b>> \in Seq(Queries) /\ Elems(<<a, b>>) = {a, b} /\ <<a, b>> # <<>>
  BY ElemsFew
<1>5. \A a, b, c \in Queries : <<a, b, c>> \in Seq(Queries) /\ Elems(<<a, b, c>>) = {a, b, c} /\ <<a, b, c>> # <<>>
  BY ElemsFew
<1>6. {"object", "group", "members", "free", "unused", "no groups", "src", "dst"} \subseteq Queries
  BY DEF Queries
<1>7. /\ <<"free">> \in Seq(Queries) /\ Elems(<<"free">>) = {"free"} /\ <<"free">> # <<>>
      /\ <<"object">> \in Seq(Queries) /\ Elems(<<"object">>) = {"object"} /\ <<"object">> # <<>>
  BY <1>3, <1>6
<1>8. /\ <<"members", "free">> \in Seq(Queries) /\ Elems(<<"members", "free">>) = {"members", "free"}
      /\ <<"group", "members">> \in Seq(Queries) /\ Elems(<<"group", "members">>) = {"group", "members"}
      /\ <<"group", "unused">> \in Seq(Queries) /\ Elems(<<"group", "unused">>) = {"group", "unused"}
      /\ <<"src", "dst">> \in Seq(Queries) /\ Elems(<<"src", "dst">>) = {"src", "dst"}
      /\ <<"members", "free">> # <<>> /\ <<"group", "members">> # <<>> /\ <<"group", "unused">> # <<>>
      /\ <<"src", "dst">> # <<>>
  BY <1>4, <1>6
<1>9. /\ <<"object", "no groups", "unused">> \in Seq(Queries)
      /\ Elems(<<"object", "no groups", "unused">>) = {"object", "no groups", "unused"}
      /\ <<"object", "no groups", "unused">> # <<>>
  BY <1>5, <1>6
<1>10. ASSUME NEW op \in ObjectOps \union GroupOps \union RuleOps
       PROVE  Checks(op) \in Seq(Queries) /\ Checks(op) # <<>>
  <2>1. CASE op \in RuleOps
    BY <1>2, <1>8, <2>1
  <2>2. CASE op \in {"add object", "update object", "delete object", "add group", "update group", "delete group"}
    BY <1>1, <1>7, <1>8, <1>9, <2>2
  <2>3. QED
    BY <2>1, <2>2, OpSets
<1>11. QED
  BY <1>1, <1>2, <1>7, <1>8, <1>9, <1>10

\* A request as it comes in: nothing is known yet, and everything is asked.
Asked(t) ==
  /\ t \in BookTasks /\ t.op # None /\ t.todo = Checks(t.op) /\ t.family = None
  /\ t.op \in {"add object", "update object"} => t.input \in Objects
  /\ t.op \in {"add group", "update group"} => t.input \in Requested.groups /\ t.left = t.input.members
  /\ t.op \in RuleOps => t.input \in Requested.rules
  /\ t.op \in {"add object", "add group", "add rule"} => t.id = 0

LEMMA AskedShape ==
  ASSUME NEW t, Asked(t)
  PROVE  Shape(t)
<1>1. t.op \in ObjectOps \union GroupOps \union RuleOps
  BY DEF Asked, BookTasks
<1>2. CASE t.op \in RuleOps
  BY <1>2, FirstQueries, OpSets DEF Asked, Shape
<1>3. CASE t.op = "add object"
  BY <1>3, FirstQueries, OpSets DEF Asked, Shape, Open
<1>4. CASE t.op = "update object" \/ t.op = "delete object"
  BY <1>4, FirstQueries, OpSets DEF Asked, Shape
<1>5. CASE t.op = "add group" \/ t.op = "update group" \/ t.op = "delete group"
  BY <1>5, FirstQueries, OpSets DEF Asked, Shape
<1>6. QED
  BY <1>1, <1>2, <1>3, <1>4, <1>5, OpSets

LEMMA AskedLearned ==
  ASSUME NEW t, Asked(t)
  PROVE  Learned(t)
<1>1. t.op \in ObjectOps \union GroupOps \union RuleOps /\ Open(t) = Elems(Checks(t.op))
  BY DEF Asked, BookTasks, Open
<1>2. CASE t.op \in RuleOps
  <2>1. Open(t) = {"src", "dst"}
    BY <1>1, <1>2, FirstQueries
  <2>2. QED
    BY <1>2, <2>1, OpSets DEF Learned, EndKnown
<1>3. CASE t.op = "add object"
  <2>1. Open(t) = {"free"}
    BY <1>1, <1>3, FirstQueries
  <2>2. QED
    BY <1>3, <2>1, OpSets DEF Learned
<1>4. CASE t.op = "update object"
  <2>1. Open(t) = {"object"}
    BY <1>1, <1>4, FirstQueries
  <2>2. QED
    BY <1>4, <2>1, OpSets DEF Learned
<1>5. CASE t.op = "delete object"
  <2>1. Open(t) = {"object", "no groups", "unused"}
    BY <1>1, <1>5, FirstQueries
  <2>2. QED
    BY <1>5, <2>1, OpSets DEF Learned
<1>6. CASE t.op = "add group"
  <2>1. Open(t) = {"members", "free"}
    BY <1>1, <1>6, FirstQueries
  <2>2. LookedUp(t)
    BY <1>6 DEF Asked, LookedUp
  <2>3. QED
    BY <1>6, <2>1, <2>2, OpSets DEF Learned
<1>7. CASE t.op = "update group"
  <2>1. Open(t) = {"group", "members"}
    BY <1>1, <1>7, FirstQueries
  <2>2. LookedUp(t)
    BY <1>7 DEF Asked, LookedUp
  <2>3. QED
    BY <1>7, <2>1, <2>2, OpSets DEF Learned
<1>8. CASE t.op = "delete group"
  <2>1. Open(t) = {"group", "unused"}
    BY <1>1, <1>8, FirstQueries
  <2>2. QED
    BY <1>8, <2>1, OpSets DEF Learned
<1>9. QED
  BY <1>1, <1>2, <1>3, <1>4, <1>5, <1>6, <1>7, <1>8, OpSets

LEMMA AskStep ==
  ASSUME BookInv, NEW h \in Handlers, NEW op \in ObjectOps \union GroupOps \union RuleOps, NEW id \in Nat,
         NEW input \in BookInputs, Request(h, op, id, input),
         op \in {"add object", "update object"} => input \in Objects,
         op \in {"add group", "update group"} => input \in Requested.groups,
         op \in RuleOps => input \in Requested.rules,
         op \in {"add object", "add group", "add rule"} => id = 0
  PROVE  BookInv'
<1>1. PICK left : left = IF op \in {"add group", "update group"} THEN input.members ELSE {}
  OBVIOUS
<1>2. left \in SUBSET Names
  BY <1>1, BookLimits
<1>3. PICK todo : todo = Checks(op)
  OBVIOUS
<1>4. todo \in Seq(Queries) /\ todo # <<>>
  BY <1>3, FirstQueries
<1>5. PICK t : t = [Idle EXCEPT !.op = op, !.id = id, !.input = input, !.todo = Checks(op),
                    !.left = IF op \in {"add group", "update group"} THEN input.members ELSE {}]
  OBVIOUS
<1>6. Query(h, t)
  BY <1>5 DEF Request
<1>7. t \in BookTasks /\ t.op = op /\ t.id = id /\ t.input = input /\ t.left = left /\ t.family = None /\ t.todo = todo
  <2>1. t = [op |-> op, id |-> id, input |-> input, left |-> left, old |-> None, family |-> None,
             todo |-> todo, stale |-> FALSE]
    BY <1>1, <1>3, <1>5 DEF Idle
  <2>2. QED
    BY <1>2, <1>4, <2>1 DEF BookTasks
<1>8. op # None
  BY BookLimits
<1>9. Asked(t)
  BY <1>1, <1>3, <1>7, <1>8 DEF Asked
<1>10. Known(t)
  BY <1>7, <1>8, <1>9, AskedShape, AskedLearned DEF Known
<1>11. QED
  BY <1>4, <1>6, <1>7, <1>8, <1>10, QueryStep

LEMMA RequestStep ==
  ASSUME BookInv, NEW h \in Handlers, RequestObject(h) \/ RequestGroup(h) \/ RequestRule(h)
  PROVE  BookInv'
<1>1. DOMAIN objects \subseteq Nat /\ DOMAIN groups \subseteq Nat /\ DOMAIN rules \subseteq Nat /\ 0 \in Nat
  BY BookLimits DEF BookInv, BookTypeOK, TableOK
<1>2. None \in BookInputs /\ Objects \subseteq BookInputs /\ Requested.groups \subseteq BookInputs
      /\ Requested.rules \subseteq BookInputs
  BY DEF BookInputs
<1>3. CASE RequestObject(h)
  <2>1. CASE \E o \in Objects : Request(h, "add object", 0, o)
    BY <1>1, <1>2, <2>1, AskStep, OpSets
  <2>2. CASE \E o \in Objects : \E i \in DOMAIN objects : Request(h, "update object", i, o)
    BY <1>1, <1>2, <2>2, AskStep, OpSets
  <2>3. CASE \E i \in DOMAIN objects : Request(h, "delete object", i, None)
    BY <1>1, <1>2, <2>3, AskStep, OpSets
  <2>4. QED
    BY <1>3, <2>1, <2>2, <2>3 DEF RequestObject
<1>4. CASE RequestGroup(h)
  <2>1. CASE \E g \in Requested.groups : Request(h, "add group", 0, g)
    BY <1>1, <1>2, <2>1, AskStep, OpSets
  <2>2. CASE \E g \in Requested.groups : \E i \in DOMAIN groups : Request(h, "update group", i, g)
    BY <1>1, <1>2, <2>2, AskStep, OpSets
  <2>3. CASE \E i \in DOMAIN groups : Request(h, "delete group", i, None)
    BY <1>1, <1>2, <2>3, AskStep, OpSets
  <2>4. QED
    BY <1>4, <2>1, <2>2, <2>3 DEF RequestGroup
<1>5. CASE RequestRule(h)
  <2>1. CASE \E r \in Requested.rules : Request(h, "add rule", 0, r)
    BY <1>1, <1>2, <2>1, AskStep, OpSets
  <2>2. CASE \E r \in Requested.rules : \E i \in DOMAIN rules : Request(h, "update rule", i, r)
    BY <1>1, <1>2, <2>2, AskStep, OpSets
  <2>3. QED
    BY <1>5, <2>1, <2>2 DEF RequestRule
<1>6. QED
  BY <1>3, <1>4, <1>5

-----------------------------------------------------------------------------
(* The steps that write no object and no group *)

LEMMA WriteNothingStep ==
  ASSUME BookInv, NEW h \in Handlers, WriteNothing(h)
  PROVE  BookInv'
BY IdleIs, OneTaskStep DEF WriteNothing

LEMMA TasksKept ==
  ASSUME TasksInv, objects' = objects, groups' = groups, tasks' = tasks, sound' = sound,
         \A name : UsedByRules(name)' => UsedByRules(name)
  PROVE  TasksInv'
<1>1. ASSUME NEW h \in Handlers PROVE Known(tasks[h])'
  <2>1. PICK t : t = tasks[h]
    OBVIOUS
  <2>2. Known(t) /\ tasks'[h] = t
    BY <2>1 DEF TasksInv
  <2>3. Learned(t) => Learned(t)'
    BY LearnedKept
  <2>4. Known(t)'
    BY <2>2, <2>3 DEF Known
  <2>5. QED
    BY <2>2, <2>4
<1>2. QED
  BY <1>1 DEF TasksInv

LEMMA StaleTasks ==
  ASSUME TasksInv, tasks' = [g \in Handlers |-> tasks'[g]],
         \A g \in Handlers : tasks'[g] = Idle \/ tasks'[g] = Stale(tasks[g])
  PROVE  TasksInv'
<1>1. ASSUME NEW g \in Handlers PROVE tasks'[g] \in BookTasks /\ Known(tasks[g])'
  <2>1. PICK t, u : t = tasks[g] /\ u = tasks'[g]
    OBVIOUS
  <2>2. t \in BookTasks /\ Known(t) /\ (u = Idle \/ u = Stale(t))
    BY <2>1 DEF TasksInv
  <2>3. /\ u \in BookTasks /\ (u.op = None => u = Idle) /\ (u.op # None => Shape(u))
        /\ u.op # None => u.stale
    BY <2>2, IdleIs, StaleIs
  <2>4. Known(u)'
    BY <2>3 DEF Known
  <2>5. QED
    BY <2>1, <2>3, <2>4
<1>2. QED
  BY <1>1 DEF TasksInv

LEMMA DeleteRuleStep ==
  ASSUME BookInv, NEW i \in DOMAIN rules, DeleteRule(i)
  PROVE  BookInv'
<1>1. DOMAIN rules' = DOMAIN rules \ {i} /\ \A k \in DOMAIN rules' : rules'[k] = rules[k]
  BY DEF DeleteRule, Without
<1>2. \A name : UsedByRules(name)' => UsedByRules(name)
  BY <1>1 DEF UsedByRules
<1>3. TasksInv'
  BY <1>2, TasksKept DEF DeleteRule, BookInv
<1>4. TablesOK /\ RestOK
  BY TypeParts DEF BookInv
<1>5. TablesOK'
  BY <1>1, <1>4 DEF TablesOK, TableOK, Distinct, DeleteRule
<1>6. RestOK'
  BY <1>4 DEF RestOK, TableOK, DeleteRule
<1>7. RowsInv'
  BY <1>1 DEF RowsInv, SharedNamespace, OneVersion, DeleteRule, BookInv
<1>8. SavedInv'
  BY DEF SavedInv, TableOK, DeleteRule, BookInv
<1>9. QED
  BY <1>3, <1>5, <1>6, <1>7, <1>8, TypeKept DEF BookInv

LEMMA CommitStep ==
  ASSUME BookInv, Commit
  PROVE  BookInv'
<1>1. TablesOK /\ RestOK
  BY TypeParts DEF BookInv
<1>2. TablesOK'
  BY <1>1 DEF TablesOK, TableOK, Distinct, Commit, tables
<1>3. saved'.rules = rules /\ saved'.objects = objects /\ saved'.groups = groups
  BY DEF Commit
<1>4. TableOK(saved.rules, "rules", Rules)'
  BY <1>1, <1>3 DEF TablesOK, TableOK, Commit, tables
<1>5. RestOK'
  BY <1>1, <1>4 DEF RestOK, Commit
<1>6. \A name : UsedByRules(name)' => UsedByRules(name)
  BY DEF UsedByRules, Commit, tables
<1>7. TasksInv'
  BY <1>6, TasksKept DEF Commit, tables, BookInv
<1>8. RowsInv'
  BY DEF RowsInv, SharedNamespace, OneVersion, Commit, tables, BookInv
<1>9. sound' => \A i \in DOMAIN rules : InForce(rules[i], objects, groups)
  BY DEF RowsInv, Commit, BookInv
<1>10. SavedInv'
  BY <1>3, <1>4, <1>9 DEF SavedInv
<1>11. QED
  BY <1>2, <1>5, <1>7, <1>8, <1>10, TypeKept DEF BookInv

LEMMA RollbackStep ==
  ASSUME BookInv, Rollback
  PROVE  BookInv'
<1>1. TablesOK /\ RestOK
  BY TypeParts DEF BookInv
<1>2. TableOK(saved.rules, "rules", Rules) /\ rules' = saved.rules
  BY <1>1 DEF RestOK, Rollback
<1>3. TablesOK'
  BY <1>1, <1>2 DEF TablesOK, TableOK, Distinct, Rollback
<1>4. RestOK'
  BY <1>1 DEF RestOK, TableOK, Rollback
<1>5. TasksInv'
  <2>1. \A g \in Handlers : tasks'[g] = Stale(tasks[g])
    BY DEF Rollback
  <2>2. tasks' = [g \in Handlers |-> tasks'[g]]
    BY DEF Rollback
  <2>3. QED
    BY <2>1, <2>2, StaleTasks DEF BookInv
<1>6. RowsInv'
  <2>1. sound' => sound /\ saved.objects = objects /\ saved.groups = groups
    BY DEF Rollback
  <2>2. sound' => SharedNamespace' /\ OneVersion'
    BY <2>1 DEF RowsInv, SharedNamespace, OneVersion, Rollback, BookInv
  <2>3. sound' => \A i \in DOMAIN rules' : InForce(rules'[i], objects, groups)
    BY <1>2, <2>1 DEF SavedInv, Rollback, BookInv
  <2>4. QED
    BY <2>2, <2>3 DEF RowsInv, Rollback
<1>7. SavedInv'
  BY DEF SavedInv, TableOK, Rollback, BookInv
<1>8. QED
  BY <1>3, <1>4, <1>5, <1>6, <1>7, TypeKept DEF BookInv

-----------------------------------------------------------------------------
(* The writes: what a reference of a rule means stays so *)

RulesMean == \A i \in DOMAIN rules : InForce(rules[i], objects, groups)
KeptRef(ref) ==
  /\ FindObject(ref)' = FindObject(ref) /\ FindGroup(ref)' = FindGroup(ref)
  /\ \A f : Means(ref, f, objects, groups) => Means(ref, f, objects', groups')
RefsKept == \A ref \in Names : UsedByRules(ref) => KeptRef(ref)

LEMMA UsedIsInUse ==
  ASSUME RulesMean, NEW ref \in Names, UsedByRules(ref)
  PROVE  NameInUse(ref)
<1>1. PICK i \in DOMAIN rules : ref \in {rules[i].src, rules[i].dst}
  BY DEF UsedByRules
<1>2. PICK f : Means(ref, f, objects, groups)
  BY <1>1 DEF RulesMean, InForce
<1>3. ref # AnyAddress /\ ref \notin Families
  BY BookLimits
<1>4. \/ \E k \in DOMAIN objects : objects[k].name = ref
      \/ \E k \in DOMAIN groups : groups[k].name = ref
  BY <1>2, <1>3 DEF Means
<1>5. QED
  BY <1>4 DEF NameInUse, FindObject, FindGroup

LEMMA MeansOther ==
  ASSUME BookTypeOK, NEW ref, ref \notin Names, NEW f, Means(ref, f, objects, groups), NEW o, NEW g
  PROVE  Means(ref, f, o, g)
<1>1. \A i \in DOMAIN objects : objects[i].name # ref
  BY DEF BookTypeOK, TableOK, Objects
<1>2. \A i \in DOMAIN groups : groups[i].name # ref
  BY DEF BookTypeOK, TableOK, Groups
<1>3. QED
  BY <1>1, <1>2 DEF Means

LEMMA MeaningKept ==
  ASSUME BookTypeOK, RulesMean, RefsKept, NEW r \in Rules, InForce(r, objects, groups),
         \A ref \in {r.src, r.dst} : UsedByRules(ref)
  PROVE  InForce(r, objects', groups')
<1>1. PICK f \in Families \union {None} : Means(r.src, f, objects, groups) /\ Means(r.dst, f, objects, groups)
  BY DEF InForce
<1>2. ASSUME NEW ref \in {r.src, r.dst}, Means(ref, f, objects, groups) PROVE Means(ref, f, objects', groups')
  <2>1. CASE ref \in Names
    BY <1>2, <2>1 DEF RefsKept, KeptRef
  <2>2. CASE ref \notin Names
    <3>1. PICK o, g : o = objects' /\ g = groups'
      OBVIOUS
    <3>2. Means(ref, f, o, g)
      BY <1>2, <2>2, MeansOther
    <3>3. QED
      BY <3>1, <3>2
  <2>3. QED
    BY <2>1, <2>2
<1>3. QED
  BY <1>1, <1>2 DEF InForce

LEMMA RulesMeanKept ==
  ASSUME BookTypeOK, RulesMean, RefsKept, rules' = rules
  PROVE  RulesMean'
<1>1. ASSUME NEW i \in DOMAIN rules PROVE InForce(rules[i], objects', groups')
  <2>1. PICK r : r = rules[i]
    OBVIOUS
  <2>2. r \in Rules /\ InForce(r, objects, groups) /\ \A ref \in {r.src, r.dst} : UsedByRules(ref)
    BY <2>1 DEF BookTypeOK, TableOK, RulesMean, UsedByRules
  <2>3. QED
    BY <2>1, <2>2, MeaningKept
<1>2. QED
  BY <1>1 DEF RulesMean

\* A row put into a table, or taken out of it.
PutInto(t, u, id, row) ==
  /\ DOMAIN u = DOMAIN t \union {id} /\ u[id] = row
  /\ \A i \in DOMAIN t : i # id => u[i] = t[i]
TakenFrom(t, u, id) == DOMAIN u = DOMAIN t \ {id} /\ \A i \in DOMAIN u : u[i] = t[i]

LEMMA PutIs ==
  ASSUME NEW t, NEW id, NEW row
  PROVE  PutInto(t, Put(t, id, row), id, row)
BY DEF Put, PutInto

LEMMA WithoutIs ==
  ASSUME NEW t, NEW id
  PROVE  TakenFrom(t, Without(t, id), id)
BY DEF Without, TakenFrom

\* What a handler must know before it puts a row: the name is new to the book, or the one
\* the row had; only a name that no rule uses is given up.
NameFree(t, id, name) ==
  IF id \in DOMAIN t THEN t[id].name = name \/ (~NameInUse(name) /\ ~UsedByRules(t[id].name))
  ELSE ~NameInUse(name)

LEMMA ObjectPutFamilies ==
  ASSUME BookTypeOK, NEW id, NEW o \in Objects, PutInto(objects, objects', id, o),
         id \in DOMAIN objects => objects[id].family = o.family \/ GroupsUsing(id) = {}
  PROVE  \A i \in DOMAIN groups : \A m \in groups[i].members : objects'[m].family = objects[m].family
<1> SUFFICES ASSUME NEW i \in DOMAIN groups, NEW m \in groups[i].members
             PROVE  objects'[m].family = objects[m].family
  OBVIOUS
<1>1. m \in DOMAIN objects
  BY DEF BookTypeOK
<1>2. CASE m # id
  BY <1>1, <1>2 DEF PutInto
<1>3. CASE m = id
  <2>1. GroupsUsing(id) # {}
    BY <1>3 DEF GroupsUsing
  <2>2. QED
    BY <1>1, <1>3, <2>1 DEF PutInto
<1>4. QED
  BY <1>2, <1>3

LEMMA ObjectPutRefs ==
  ASSUME BookTypeOK, RulesMean, NEW id, NEW o \in Objects, PutInto(objects, objects', id, o), groups' = groups,
         NameFree(objects, id, o.name),
         id \in DOMAIN objects =>
           objects[id].family = o.family \/ (GroupsUsing(id) = {} /\ ~UsedByRules(objects[id].name))
  PROVE  RefsKept
<1> SUFFICES ASSUME NEW ref \in Names, UsedByRules(ref) PROVE KeptRef(ref)
  BY DEF RefsKept
<1>1. NameInUse(ref)
  BY UsedIsInUse
<1>2. id \in DOMAIN objects /\ objects[id].name = ref => o.name = ref /\ objects[id].family = o.family
  BY DEF NameFree
<1>3. o.name = ref => id \in DOMAIN objects /\ objects[id].name = ref
  BY <1>1 DEF NameFree
<1>4. \A i \in DOMAIN objects' : (objects'[i].name = ref) <=> (i \in DOMAIN objects /\ objects[i].name = ref)
  BY <1>2, <1>3 DEF PutInto
<1>5. \A i \in DOMAIN objects : i \in DOMAIN objects'
  BY DEF PutInto
<1>6. FindObject(ref)' = FindObject(ref)
  BY <1>4, <1>5 DEF FindObject
<1>7. \A i \in DOMAIN objects : objects[i].name = ref => objects'[i].family = objects[i].family
  BY <1>2 DEF PutInto
<1>8. \A i \in DOMAIN groups : \A m \in groups[i].members : objects'[m].family = objects[m].family
  BY ObjectPutFamilies
<1>9. ASSUME NEW f, Means(ref, f, objects, groups) PROVE Means(ref, f, objects', groups)
  <2>1. CASE ref = AnyAddress \/ ref = f
    BY <1>9, <2>1 DEF Means
  <2>2. CASE \E i \in DOMAIN objects : objects[i].name = ref /\ objects[i].family = f
    BY <1>4, <1>5, <1>7, <1>9, <2>2 DEF Means
  <2>3. CASE /\ \A i \in DOMAIN objects : objects[i].name # ref
             /\ \E i \in DOMAIN groups : /\ groups[i].name = ref /\ groups[i].members # {}
                                         /\ \A m \in groups[i].members : objects[m].family = f
    <3>1. \A i \in DOMAIN objects' : objects'[i].name # ref
      BY <1>4, <2>3
    <3>2. \E i \in DOMAIN groups : /\ groups[i].name = ref /\ groups[i].members # {}
                                   /\ \A m \in groups[i].members : objects'[m].family = f
      BY <1>8, <2>3
    <3>3. QED
      BY <1>9, <3>1, <3>2 DEF Means
  <2>4. QED
    BY <1>9, <2>1, <2>2, <2>3 DEF Means
<1>10. FindGroup(ref)' = FindGroup(ref)
  BY DEF FindGroup
<1>11. QED
  BY <1>6, <1>9, <1>10 DEF KeptRef

LEMMA ObjectPutBook ==
  ASSUME BookTypeOK, SharedNamespace, OneVersion, NEW id, NEW o \in Objects,
         PutInto(objects, objects', id, o), groups' = groups, NameFree(objects, id, o.name),
         id \in DOMAIN objects => objects[id].family = o.family \/ GroupsUsing(id) = {}
  PROVE  SharedNamespace' /\ OneVersion'
<1>1. \A i \in DOMAIN groups : \A m \in groups[i].members : objects'[m].family = objects[m].family
  BY ObjectPutFamilies
<1>2. OneVersion'
  BY <1>1 DEF OneVersion
<1>3. ASSUME NEW i \in DOMAIN objects', NEW m \in DOMAIN groups PROVE objects'[i].name # groups[m].name
  <2>1. CASE i # id
    BY <1>3, <2>1 DEF PutInto, SharedNamespace
  <2>2. CASE i = id
    <3>1. objects'[i].name = o.name
      BY <2>2 DEF PutInto
    <3>2. CASE ~NameInUse(o.name)
      BY <3>1, <3>2 DEF NameInUse, FindGroup
    <3>3. CASE id \in DOMAIN objects /\ objects[id].name = o.name
      BY <1>3, <3>1, <3>3 DEF SharedNamespace
    <3>4. QED
      BY <3>2, <3>3 DEF NameFree
  <2>3. QED
    BY <2>1, <2>2
<1>4. QED
  BY <1>2, <1>3 DEF SharedNamespace

LEMMA ObjectGoneRefs ==
  ASSUME BookTypeOK, RulesMean, NEW id \in DOMAIN objects, TakenFrom(objects, objects', id), groups' = groups,
         GroupsUsing(id) = {}, ~UsedByRules(objects[id].name)
  PROVE  RefsKept
<1> SUFFICES ASSUME NEW ref \in Names, UsedByRules(ref) PROVE KeptRef(ref)
  BY DEF RefsKept
<1>1. objects[id].name # ref
  OBVIOUS
<1>2. \A i \in DOMAIN objects : objects[i].name = ref => i \in DOMAIN objects' /\ objects'[i] = objects[i]
  BY <1>1 DEF TakenFrom
<1>3. \A i \in DOMAIN objects' : i \in DOMAIN objects /\ objects'[i] = objects[i]
  BY DEF TakenFrom
<1>4. FindObject(ref)' = FindObject(ref)
  BY <1>2, <1>3 DEF FindObject
<1>5. \A i \in DOMAIN groups : \A m \in groups[i].members : objects'[m] = objects[m]
  <2> SUFFICES ASSUME NEW i \in DOMAIN groups, NEW m \in groups[i].members PROVE objects'[m] = objects[m]
    OBVIOUS
  <2>1. m \in DOMAIN objects /\ m # id
    BY DEF BookTypeOK, GroupsUsing
  <2>2. QED
    BY <2>1 DEF TakenFrom
<1>6. ASSUME NEW f, Means(ref, f, objects, groups) PROVE Means(ref, f, objects', groups)
  <2>1. CASE ref = AnyAddress \/ ref = f
    BY <1>6, <2>1 DEF Means
  <2>2. CASE \E i \in DOMAIN objects : objects[i].name = ref /\ objects[i].family = f
    BY <1>2, <1>6, <2>2 DEF Means
  <2>3. CASE /\ \A i \in DOMAIN objects : objects[i].name # ref
             /\ \E i \in DOMAIN groups : /\ groups[i].name = ref /\ groups[i].members # {}
                                         /\ \A m \in groups[i].members : objects[m].family = f
    <3>1. \A i \in DOMAIN objects' : objects'[i].name # ref
      BY <1>3, <2>3
    <3>2. \E i \in DOMAIN groups : /\ groups[i].name = ref /\ groups[i].members # {}
                                   /\ \A m \in groups[i].members : objects'[m].family = f
      BY <1>5, <2>3
    <3>3. QED
      BY <1>6, <3>1, <3>2 DEF Means
  <2>4. QED
    BY <1>6, <2>1, <2>2, <2>3 DEF Means
<1>7. FindGroup(ref)' = FindGroup(ref)
  BY DEF FindGroup
<1>8. QED
  BY <1>4, <1>6, <1>7 DEF KeptRef

LEMMA ObjectGoneBook ==
  ASSUME BookTypeOK, SharedNamespace, OneVersion, NEW id, TakenFrom(objects, objects', id), groups' = groups,
         GroupsUsing(id) = {}
  PROVE  SharedNamespace' /\ OneVersion'
<1>1. ASSUME NEW i \in DOMAIN groups, NEW m \in groups[i].members PROVE objects'[m] = objects[m]
  <2>1. m \in DOMAIN objects /\ m # id
    BY <1>1 DEF BookTypeOK, GroupsUsing
  <2>2. QED
    BY <2>1 DEF TakenFrom
<1>2. OneVersion'
  BY <1>1 DEF OneVersion
<1>3. SharedNamespace'
  BY DEF SharedNamespace, TakenFrom
<1>4. QED
  BY <1>2, <1>3

\* The members a handler gives a group are of the version the group has in the rules.
AllOf(members, f) == members # {} /\ \A m \in members : objects[m].family = f

LEMMA GroupPutRefs ==
  ASSUME BookTypeOK, RulesMean, NEW id, NEW g \in Groups, PutInto(groups, groups', id, g), objects' = objects,
         NameFree(groups, id, g.name),
         id \in DOMAIN groups /\ UsedByRules(groups[id].name) =>
           \A f : AllOf(groups[id].members, f) => AllOf(g.members, f)
  PROVE  RefsKept
<1> SUFFICES ASSUME NEW ref \in Names, UsedByRules(ref) PROVE KeptRef(ref)
  BY DEF RefsKept
<1>1. NameInUse(ref)
  BY UsedIsInUse
<1>2. id \in DOMAIN groups /\ groups[id].name = ref => g.name = ref
  BY DEF NameFree
<1>3. g.name = ref => id \in DOMAIN groups /\ groups[id].name = ref
  BY <1>1 DEF NameFree
<1>4. \A i \in DOMAIN groups' : (groups'[i].name = ref) <=> (i \in DOMAIN groups /\ groups[i].name = ref)
  BY <1>2, <1>3 DEF PutInto
<1>5. \A i \in DOMAIN groups : i \in DOMAIN groups'
  BY DEF PutInto
<1>6. FindGroup(ref)' = FindGroup(ref)
  BY <1>4, <1>5 DEF FindGroup
<1>7. ASSUME NEW i \in DOMAIN groups, groups[i].name = ref, NEW f, AllOf(groups[i].members, f)
      PROVE  AllOf(groups'[i].members, f)
  <2>1. CASE i = id
    BY <1>7, <2>1 DEF PutInto
  <2>2. CASE i # id
    BY <1>7, <2>2 DEF PutInto
  <2>3. QED
    BY <2>1, <2>2
<1>8. ASSUME NEW f, Means(ref, f, objects, groups) PROVE Means(ref, f, objects, groups')
  <2>1. CASE ref = AnyAddress \/ ref = f
    BY <1>8, <2>1 DEF Means
  <2>2. CASE \E i \in DOMAIN objects : objects[i].name = ref /\ objects[i].family = f
    BY <1>8, <2>2 DEF Means
  <2>3. CASE /\ \A i \in DOMAIN objects : objects[i].name # ref
             /\ \E i \in DOMAIN groups : /\ groups[i].name = ref /\ groups[i].members # {}
                                         /\ \A m \in groups[i].members : objects[m].family = f
    <3>1. PICK i \in DOMAIN groups : groups[i].name = ref /\ AllOf(groups[i].members, f)
      BY <2>3 DEF AllOf
    <3>2. i \in DOMAIN groups' /\ groups'[i].name = ref /\ AllOf(groups'[i].members, f)
      BY <1>4, <1>5, <1>7, <3>1
    <3>3. QED
      BY <1>8, <2>3, <3>2 DEF Means, AllOf
  <2>4. QED
    BY <1>8, <2>1, <2>2, <2>3 DEF Means
<1>9. FindObject(ref)' = FindObject(ref)
  BY DEF FindObject
<1>10. QED
  BY <1>6, <1>8, <1>9 DEF KeptRef

LEMMA GroupPutBook ==
  ASSUME SharedNamespace, OneVersion, NEW id, NEW g \in Groups,
         PutInto(groups, groups', id, g), objects' = objects, NameFree(groups, id, g.name),
         \A i, m \in g.members : objects[i].family = objects[m].family
  PROVE  SharedNamespace' /\ OneVersion'
<1>1. OneVersion'
  BY DEF OneVersion, PutInto
<1>2. ASSUME NEW i \in DOMAIN objects, NEW m \in DOMAIN groups' PROVE objects[i].name # groups'[m].name
  <2>1. CASE m # id
    BY <1>2, <2>1 DEF PutInto, SharedNamespace
  <2>2. CASE m = id
    <3>1. groups'[m].name = g.name
      BY <2>2 DEF PutInto
    <3>2. CASE ~NameInUse(g.name)
      BY <3>1, <3>2 DEF NameInUse, FindObject
    <3>3. CASE id \in DOMAIN groups /\ groups[id].name = g.name
      BY <1>2, <3>1, <3>3 DEF SharedNamespace
    <3>4. QED
      BY <3>2, <3>3 DEF NameFree
  <2>3. QED
    BY <2>1, <2>2
<1>3. QED
  BY <1>1, <1>2 DEF SharedNamespace

LEMMA GroupGoneRefs ==
  ASSUME NEW id \in DOMAIN groups, TakenFrom(groups, groups', id), objects' = objects,
         ~UsedByRules(groups[id].name)
  PROVE  RefsKept
<1> SUFFICES ASSUME NEW ref \in Names, UsedByRules(ref) PROVE KeptRef(ref)
  BY DEF RefsKept
<1>1. groups[id].name # ref
  OBVIOUS
<1>2. \A i \in DOMAIN groups : groups[i].name = ref => i \in DOMAIN groups' /\ groups'[i] = groups[i]
  BY <1>1 DEF TakenFrom
<1>3. \A i \in DOMAIN groups' : i \in DOMAIN groups /\ groups'[i] = groups[i]
  BY DEF TakenFrom
<1>4. FindGroup(ref)' = FindGroup(ref) /\ FindObject(ref)' = FindObject(ref)
  BY <1>2, <1>3 DEF FindGroup, FindObject
<1>5. ASSUME NEW f, Means(ref, f, objects, groups) PROVE Means(ref, f, objects, groups')
  BY <1>2, <1>5 DEF Means
<1>6. QED
  BY <1>4, <1>5 DEF KeptRef

LEMMA GroupGoneBook ==
  ASSUME SharedNamespace, OneVersion, NEW id, TakenFrom(groups, groups', id), objects' = objects
  PROVE  SharedNamespace' /\ OneVersion'
BY DEF SharedNamespace, OneVersion, TakenFrom

-----------------------------------------------------------------------------
(* The tables after a write *)

LastKept ==
  /\ last' \in [{"objects", "groups", "rules"} -> Nat]
  /\ \A t \in {"objects", "groups", "rules"} : last[t] <= last'[t] /\ last'[t] <= MaxId[t]

LEMMA LastSame ==
  ASSUME TablesOK, last' = last
  PROVE  LastKept
BY DEF TablesOK, LastKept

LEMMA GiveIdIs ==
  ASSUME TablesOK, NEW t \in {"objects", "groups", "rules"}, GiveId(t)
  PROVE  LastKept /\ last'[t] = last[t] + 1
<1>1. last \in [{"objects", "groups", "rules"} -> Nat] /\ \A u \in {"objects", "groups", "rules"} : last[u] <= MaxId[u]
  BY DEF TablesOK
<1>2. last' = [last EXCEPT ![t] = last[t] + 1] /\ last[t] < MaxId[t]
  BY DEF GiveId, Room
<1>3. MaxId \in [{"objects", "groups", "rules"} -> Nat]
  BY BookAssumption
<1>4. last'[t] = last[t] + 1 /\ \A u \in {"objects", "groups", "rules"} : u # t => last'[u] = last[u]
  BY <1>1, <1>2
<1>5. last' \in [{"objects", "groups", "rules"} -> Nat]
  BY <1>1, <1>2
<1>6. ASSUME NEW u \in {"objects", "groups", "rules"} PROVE last[u] <= last'[u] /\ last'[u] <= MaxId[u]
  <2>1. last[u] \in Nat /\ MaxId[u] \in Nat /\ last[u] <= MaxId[u]
    BY <1>1, <1>3
  <2>2. CASE u = t
    BY <1>2, <1>4, <2>1, <2>2
  <2>3. CASE u # t
    BY <1>4, <2>1, <2>3
  <2>4. QED
    BY <2>2, <2>3
<1>7. QED
  BY <1>4, <1>5, <1>6 DEF LastKept

LEMMA TableStays ==
  ASSUME TablesOK, LastKept, NEW t, NEW name \in {"objects", "groups", "rules"}, NEW values, TableOK(t, name, values)
  PROVE  DOMAIN t \subseteq 1..last'[name] /\ \A i \in DOMAIN t : t[i] \in values
<1>1. last[name] \in Nat /\ last'[name] \in Nat /\ last[name] <= last'[name]
  BY DEF TablesOK, LastKept
<1>2. QED
  BY <1>1 DEF TableOK

LEMMA TableGrows ==
  ASSUME TablesOK, LastKept, NEW t, NEW name \in {"objects", "groups", "rules"}, NEW values, TableOK(t, name, values),
         NEW u, NEW id \in 1..last'[name], NEW row \in values, PutInto(t, u, id, row)
  PROVE  DOMAIN u \subseteq 1..last'[name] /\ \A i \in DOMAIN u : u[i] \in values
BY TableStays DEF PutInto

LEMMA TableShrinks ==
  ASSUME TablesOK, LastKept, NEW t, NEW name \in {"objects", "groups", "rules"}, NEW values, TableOK(t, name, values),
         NEW u, NEW id, TakenFrom(t, u, id)
  PROVE  DOMAIN u \subseteq 1..last'[name] /\ \A i \in DOMAIN u : u[i] \in values
BY TableStays DEF TakenFrom

LEMMA ObjectPutTables ==
  ASSUME TablesOK, LastKept, NEW id \in 1..last'["objects"], NEW o \in Objects, PutInto(objects, objects', id, o),
         FindObject(o.name) \subseteq {id}, groups' = groups, rules' = rules
  PROVE  TablesOK'
<1>1. TableOK(objects, "objects", Objects)' /\ TableOK(groups, "groups", Groups)' /\ TableOK(rules, "rules", Rules)'
  BY TableGrows, TableStays DEF TablesOK, TableOK
<1>2. \A i \in DOMAIN groups : groups[i].members \subseteq DOMAIN objects'
  BY DEF TablesOK, PutInto
<1>3. Distinct(objects)'
  BY DEF TablesOK, Distinct, PutInto, FindObject
<1>4. Distinct(groups)'
  BY DEF TablesOK, Distinct
<1>5. QED
  BY <1>1, <1>2, <1>3, <1>4 DEF TablesOK, LastKept

LEMMA ObjectGoneTables ==
  ASSUME TablesOK, LastKept, NEW id, TakenFrom(objects, objects', id),
         GroupsUsing(id) = {}, groups' = groups, rules' = rules
  PROVE  TablesOK'
<1>1. TableOK(objects, "objects", Objects)' /\ TableOK(groups, "groups", Groups)' /\ TableOK(rules, "rules", Rules)'
  BY TableShrinks, TableStays DEF TablesOK, TableOK
<1>2. \A i \in DOMAIN groups : groups[i].members \subseteq DOMAIN objects'
  BY DEF TablesOK, TakenFrom, GroupsUsing
<1>3. Distinct(objects)' /\ Distinct(groups)'
  BY DEF TablesOK, Distinct, TakenFrom
<1>4. QED
  BY <1>1, <1>2, <1>3 DEF TablesOK, LastKept

LEMMA GroupPutTables ==
  ASSUME TablesOK, LastKept, NEW id \in 1..last'["groups"], NEW g \in Groups, PutInto(groups, groups', id, g),
         FindGroup(g.name) \subseteq {id}, g.members \subseteq DOMAIN objects, objects' = objects, rules' = rules
  PROVE  TablesOK'
<1>1. TableOK(objects, "objects", Objects)' /\ TableOK(groups, "groups", Groups)' /\ TableOK(rules, "rules", Rules)'
  BY TableGrows, TableStays DEF TablesOK, TableOK
<1>2. \A i \in DOMAIN groups' : groups'[i].members \subseteq DOMAIN objects
  BY DEF TablesOK, PutInto
<1>3. Distinct(groups)'
  BY DEF TablesOK, Distinct, PutInto, FindGroup
<1>4. Distinct(objects)'
  BY DEF TablesOK, Distinct
<1>5. QED
  BY <1>1, <1>2, <1>3, <1>4 DEF TablesOK, LastKept

LEMMA GroupGoneTables ==
  ASSUME TablesOK, LastKept, NEW id, TakenFrom(groups, groups', id), objects' = objects, rules' = rules
  PROVE  TablesOK'
<1>1. TableOK(objects, "objects", Objects)' /\ TableOK(groups, "groups", Groups)' /\ TableOK(rules, "rules", Rules)'
  BY TableShrinks, TableStays DEF TablesOK, TableOK
<1>2. \A i \in DOMAIN groups' : groups'[i].members \subseteq DOMAIN objects
  BY DEF TablesOK, TakenFrom
<1>3. Distinct(objects)' /\ Distinct(groups)'
  BY DEF TablesOK, Distinct, TakenFrom
<1>4. QED
  BY <1>1, <1>2, <1>3 DEF TablesOK, LastKept

LEMMA RulePutTables ==
  ASSUME TablesOK, LastKept, NEW id \in 1..last'["rules"], NEW r \in Rules, PutInto(rules, rules', id, r),
         objects' = objects, groups' = groups
  PROVE  TablesOK'
<1>1. TableOK(objects, "objects", Objects)' /\ TableOK(groups, "groups", Groups)' /\ TableOK(rules, "rules", Rules)'
  BY TableGrows, TableStays DEF TablesOK, TableOK
<1>2. Distinct(objects)' /\ Distinct(groups)'
  BY DEF TablesOK, Distinct
<1>3. QED
  BY <1>1, <1>2 DEF TablesOK, LastKept

LEMMA WriteEnds ==
  ASSUME BookInv, NEW h \in Handlers, Written(h), TablesOK', LastKept,
         sound' => SharedNamespace' /\ OneVersion' /\ RulesMean'
  PROVE  BookInv'
<1>1. TasksInv'
  <2>1. \A g \in Handlers : tasks'[g] = Idle \/ tasks'[g] = Stale(tasks[g])
    BY DEF Written
  <2>2. tasks' = [g \in Handlers |-> tasks'[g]]
    BY DEF Written
  <2>3. QED
    BY <2>1, <2>2, StaleTasks DEF BookInv
<1>2. TablesOK /\ RestOK
  BY TypeParts DEF BookInv
<1>3. saved # None => DOMAIN saved.rules \subseteq 1..last'["rules"] /\ \A i \in DOMAIN saved.rules : saved.rules[i] \in Rules
  BY <1>2, TableStays DEF RestOK
<1>4. RestOK'
  <2>1. writes' \in 0..MaxWrites /\ sound' \in BOOLEAN
    BY <1>2, BookLimits DEF RestOK, Written
  <2>2. QED
    BY <1>3, <2>1 DEF RestOK, TableOK, Written
<1>5. RowsInv'
  BY DEF RowsInv, RulesMean
<1>6. SavedInv'
  BY <1>3 DEF SavedInv, TableOK, Written, BookInv
<1>7. QED
  BY <1>1, <1>4, <1>5, <1>6, TypeKept DEF BookInv

-----------------------------------------------------------------------------
(* The writes of the handlers *)

\* What the steps prove of a write of an object or a group.
GoodWrite == BookInv' /\ (sound' => RefsKept)

LEMMA FinishingTask ==
  ASSUME BookInv, NEW h \in Handlers, NEW op \in ObjectOps \union GroupOps \union RuleOps, Finishing(h, op), Written(h),
         NEW t, t = tasks[h]
  PROVE  /\ t \in BookTasks /\ t.op = op /\ t.op # None /\ Shape(t) /\ Open(t) = {} /\ t.todo = <<>>
         /\ sound' => sound /\ SharedNamespace /\ OneVersion /\ RulesMean /\ Learned(t)
<1>1. t \in BookTasks /\ Known(t) /\ t.op = op /\ t.todo = <<>>
  BY DEF BookInv, TasksInv, Finishing
<1>2. op # None
  BY BookLimits
<1>3. Open(t) = {}
  BY <1>1, OneLeft DEF Open
<1>4. sound' => sound /\ ~t.stale
  BY DEF Written
<1>5. sound => SharedNamespace /\ OneVersion /\ RulesMean
  BY DEF BookInv, RowsInv, RulesMean
<1>6. QED
  BY <1>1, <1>2, <1>3, <1>4, <1>5 DEF Known

LEMMA NoTodo ==
  /\ <<"object">> # <<>> /\ <<"object", "no groups", "unused">> # <<>> /\ <<"members", "free">> # <<>>
  /\ <<"group", "members">> # <<>> /\ <<"members">> # <<>> /\ <<"group", "unused">> # <<>>
OBVIOUS

\* An id is new when it is given out, and never 0.
LEMMA NewId ==
  ASSUME NEW i \in Nat, NEW ids, ids \subseteq 1..i
  PROVE  i + 1 \in 1..(i + 1) /\ i + 1 \notin ids /\ 0 \notin ids
<1>1. i + 1 \in 1..(i + 1) /\ i + 1 \notin 1..i /\ 0 \notin 1..i
  OBVIOUS
<1>2. QED
  BY <1>1

LEMMA AddObjectStep ==
  ASSUME BookInv, NEW h \in Handlers, Finishing(h, "add object"), UniqueObject(tasks[h]), GiveId("objects"),
         objects' = Put(objects, last'["objects"], tasks[h].input), Written(h), UNCHANGED <<groups, rules>>
  PROVE  GoodWrite
<1>1. PICK t : t = tasks[h]
  OBVIOUS
<1>2. PICK id : id = last'["objects"]
  OBVIOUS
<1>3. PICK o : o = t.input
  OBVIOUS
<1>4. /\ t.op = "add object" /\ Shape(t) /\ Open(t) = {}
      /\ sound' => sound /\ SharedNamespace /\ OneVersion /\ RulesMean /\ Learned(t)
  BY <1>1, FinishingTask, OpSets
<1>5. o \in Objects /\ t.id = 0
  BY <1>3, <1>4 DEF Shape
<1>6. TablesOK /\ BookTypeOK
  BY TypeParts DEF BookInv
<1>7. LastKept /\ id = last["objects"] + 1
  BY <1>2, <1>6, GiveIdIs
<1>8. last["objects"] \in Nat /\ DOMAIN objects \subseteq 1..last["objects"]
  BY <1>6 DEF TablesOK, TableOK
<1>9. id \in 1..last'["objects"] /\ id \notin DOMAIN objects /\ 0 \notin DOMAIN objects
  BY <1>2, <1>7, <1>8, NewId
<1>10. PutInto(objects, objects', id, o)
  BY <1>1, <1>2, <1>3, PutIs
<1>11. FindObject(o.name) \subseteq {id}
  BY <1>1, <1>3, <1>5, <1>9 DEF UniqueObject, FindObject
<1>12. TablesOK'
  BY <1>5, <1>6, <1>7, <1>9, <1>10, <1>11, ObjectPutTables
<1>13. sound' => NameFree(objects, id, o.name)
  BY <1>3, <1>4, <1>9 DEF Learned, NameFree
<1>14. sound' => RefsKept
  BY <1>4, <1>5, <1>6, <1>9, <1>10, <1>13, ObjectPutRefs
<1>15. sound' => SharedNamespace' /\ OneVersion'
  BY <1>4, <1>5, <1>6, <1>9, <1>10, <1>13, ObjectPutBook
<1>16. sound' => RulesMean'
  BY <1>4, <1>6, <1>14, RulesMeanKept
<1>17. BookInv'
  BY <1>7, <1>12, <1>15, <1>16, WriteEnds
<1>18. QED
  BY <1>14, <1>17 DEF GoodWrite

LEMMA UpdateObjectStep ==
  ASSUME BookInv, NEW h \in Handlers, Finishing(h, "update object"), tasks[h].id \in DOMAIN objects,
         UniqueObject(tasks[h]), objects' = Put(objects, tasks[h].id, tasks[h].input), Written(h),
         UNCHANGED <<groups, rules, last>>
  PROVE  GoodWrite
<1>1. PICK t : t = tasks[h]
  OBVIOUS
<1>2. PICK id : id = t.id
  OBVIOUS
<1>3. PICK o : o = t.input
  OBVIOUS
<1>4. /\ t.op = "update object" /\ Shape(t) /\ Open(t) = {} /\ t.todo = <<>>
      /\ sound' => sound /\ SharedNamespace /\ OneVersion /\ RulesMean /\ Learned(t)
  BY <1>1, FinishingTask, OpSets
<1>5. o \in Objects /\ id \in DOMAIN objects
  BY <1>1, <1>2, <1>3, <1>4 DEF Shape
<1>6. TablesOK /\ BookTypeOK
  BY TypeParts DEF BookInv
<1>7. LastKept
  BY <1>6, LastSame
<1>8. id \in 1..last'["objects"]
  BY <1>5, <1>6 DEF TablesOK, TableOK
<1>9. PutInto(objects, objects', id, o)
  BY <1>1, <1>2, <1>3, PutIs
<1>10. FindObject(o.name) \subseteq {id}
  BY <1>1, <1>2, <1>3 DEF UniqueObject
<1>11. TablesOK'
  BY <1>5, <1>6, <1>7, <1>8, <1>9, <1>10, ObjectPutTables
<1>12. sound' => t.old = objects[id] /\ Changes(t, o.family)
  BY <1>2, <1>3, <1>4 DEF Learned
<1>13. sound' => NameFree(objects, id, o.name)
  BY <1>3, <1>4, <1>5, <1>12 DEF Changes, NameFree
<1>14. sound' => objects[id].family = o.family \/ (GroupsUsing(id) = {} /\ ~UsedByRules(objects[id].name))
  BY <1>2, <1>4, <1>12 DEF Changes
<1>15. sound' => RefsKept
  BY <1>4, <1>5, <1>6, <1>9, <1>13, <1>14, ObjectPutRefs
<1>16. sound' => SharedNamespace' /\ OneVersion'
  BY <1>4, <1>5, <1>6, <1>9, <1>13, <1>14, ObjectPutBook
<1>17. sound' => RulesMean'
  BY <1>4, <1>6, <1>15, RulesMeanKept
<1>18. BookInv'
  BY <1>7, <1>11, <1>16, <1>17, WriteEnds
<1>19. QED
  BY <1>15, <1>18 DEF GoodWrite

LEMMA DeleteObjectStep ==
  ASSUME BookInv, NEW h \in Handlers, Finishing(h, "delete object"), tasks[h].id \in DOMAIN objects,
         GroupsUsing(tasks[h].id) = {}, objects' = Without(objects, tasks[h].id), Written(h),
         UNCHANGED <<groups, rules, last>>
  PROVE  GoodWrite
<1>1. PICK t : t = tasks[h]
  OBVIOUS
<1>2. PICK id : id = t.id
  OBVIOUS
<1>3. /\ t.op = "delete object" /\ Shape(t) /\ Open(t) = {}
      /\ sound' => sound /\ SharedNamespace /\ OneVersion /\ RulesMean /\ Learned(t)
  BY <1>1, FinishingTask, OpSets
<1>4. id \in DOMAIN objects /\ GroupsUsing(id) = {}
  BY <1>1, <1>2
<1>5. TablesOK /\ BookTypeOK
  BY TypeParts DEF BookInv
<1>6. LastKept
  BY <1>5, LastSame
<1>7. TakenFrom(objects, objects', id)
  BY <1>1, <1>2, WithoutIs
<1>8. TablesOK'
  BY <1>4, <1>5, <1>6, <1>7, ObjectGoneTables
<1>9. sound' => ~UsedByRules(objects[id].name)
  BY <1>2, <1>3 DEF Learned
<1>10. sound' => RefsKept
  BY <1>3, <1>4, <1>5, <1>7, <1>9, ObjectGoneRefs
<1>11. sound' => SharedNamespace' /\ OneVersion'
  BY <1>3, <1>4, <1>5, <1>7, ObjectGoneBook
<1>12. sound' => RulesMean'
  BY <1>3, <1>5, <1>10, RulesMeanKept
<1>13. BookInv'
  BY <1>6, <1>8, <1>11, <1>12, WriteEnds
<1>14. QED
  BY <1>10, <1>13 DEF GoodWrite

LEMMA GroupRowIs ==
  ASSUME TablesOK, NEW t, t.input \in Requested.groups, NEW g, g = GroupRow(t)
  PROVE  /\ g \in Groups /\ g.name = t.input.name /\ g.members \subseteq DOMAIN objects
         /\ \A i \in g.members : \E m \in t.input.members : i \in FindObject(m)
         /\ \A m \in t.input.members : FindObject(m) \subseteq g.members
<1>1. t.input.name \in Names
  BY BookLimits
<1>2. g.name = t.input.name /\ g.members = UNION {FindObject(m) : m \in t.input.members}
  BY DEF GroupRow
<1>3. \A i \in g.members : \E m \in t.input.members : i \in FindObject(m)
  BY <1>2
<1>4. \A m \in t.input.members : FindObject(m) \subseteq g.members
  BY <1>2
<1>5. g.members \subseteq DOMAIN objects
  BY <1>3 DEF FindObject
<1>6. DOMAIN objects \subseteq 1..MaxId["objects"]
  <2>1. last["objects"] \in Nat /\ MaxId["objects"] \in Nat /\ last["objects"] <= MaxId["objects"]
    BY BookLimits DEF TablesOK
  <2>2. QED
    BY <2>1 DEF TablesOK, TableOK
<1>7. g \in Groups
  <2>1. g = [name |-> t.input.name, members |-> g.members]
    BY <1>2 DEF GroupRow
  <2>2. g.members \in SUBSET (1..MaxId["objects"])
    BY <1>5, <1>6
  <2>3. QED
    BY <1>1, <2>1, <2>2 DEF Groups
<1>8. QED
  BY <1>2, <1>3, <1>4, <1>5, <1>7

LEMMA GroupRowVersion ==
  ASSUME NEW t, NEW g, t.left = {}, LookedUp(t),
         \A i \in g.members : \E m \in t.input.members : i \in FindObject(m)
  PROVE  \A i \in g.members : objects[i].family = t.family
BY DEF LookedUp

LEMMA AddGroupStep ==
  ASSUME BookInv, NEW h \in Handlers, Finishing(h, "add group"), UniqueGroup(tasks[h]), GiveId("groups"),
         groups' = Put(groups, last'["groups"], GroupRow(tasks[h])), Written(h), UNCHANGED <<objects, rules>>
  PROVE  GoodWrite
<1>1. PICK t : t = tasks[h]
  OBVIOUS
<1>2. PICK id : id = last'["groups"]
  OBVIOUS
<1>3. PICK g : g = GroupRow(t)
  OBVIOUS
<1>4. /\ t.op = "add group" /\ Shape(t) /\ Open(t) = {} /\ t.todo = <<>>
      /\ sound' => sound /\ SharedNamespace /\ OneVersion /\ RulesMean /\ Learned(t)
  BY <1>1, FinishingTask, OpSets
<1>5. t.input \in Requested.groups /\ t.id = 0 /\ t.left = {}
  BY <1>4, NoTodo DEF Shape
<1>6. TablesOK /\ BookTypeOK
  BY TypeParts DEF BookInv
<1>7. /\ g \in Groups /\ g.name = t.input.name /\ g.members \subseteq DOMAIN objects
      /\ \A i \in g.members : \E m \in t.input.members : i \in FindObject(m)
  BY <1>3, <1>5, <1>6, GroupRowIs
<1>8. LastKept /\ id = last["groups"] + 1
  BY <1>2, <1>6, GiveIdIs
<1>9. last["groups"] \in Nat /\ DOMAIN groups \subseteq 1..last["groups"]
  BY <1>6 DEF TablesOK, TableOK
<1>10. id \in 1..last'["groups"] /\ id \notin DOMAIN groups /\ 0 \notin DOMAIN groups
  BY <1>2, <1>8, <1>9, NewId
<1>11. PutInto(groups, groups', id, g)
  BY <1>1, <1>2, <1>3, PutIs
<1>12. FindGroup(g.name) \subseteq {id}
  BY <1>1, <1>5, <1>7, <1>10 DEF UniqueGroup, FindGroup
<1>13. TablesOK'
  BY <1>6, <1>7, <1>8, <1>10, <1>11, <1>12, GroupPutTables
<1>14. sound' => NameFree(groups, id, g.name)
  BY <1>4, <1>7, <1>10 DEF Learned, NameFree
<1>15. sound' => \A i \in g.members : objects[i].family = t.family
  BY <1>4, <1>5, <1>7, GroupRowVersion DEF Learned
<1>16. sound' => RefsKept
  BY <1>4, <1>6, <1>7, <1>10, <1>11, <1>14, GroupPutRefs
<1>17. sound' => SharedNamespace' /\ OneVersion'
  <2>1. sound' => \A i, m \in g.members : objects[i].family = objects[m].family
    BY <1>15
  <2>2. QED
    BY <1>4, <1>7, <1>11, <1>14, <2>1, GroupPutBook
<1>18. sound' => RulesMean'
  BY <1>4, <1>6, <1>16, RulesMeanKept
<1>19. BookInv'
  BY <1>8, <1>13, <1>17, <1>18, WriteEnds
<1>20. QED
  BY <1>16, <1>19 DEF GoodWrite

LEMMA UpdateGroupStep ==
  ASSUME BookInv, NEW h \in Handlers, Finishing(h, "update group"), tasks[h].id \in DOMAIN groups,
         UniqueGroup(tasks[h]), MembersExist(tasks[h]), groups' = Put(groups, tasks[h].id, GroupRow(tasks[h])),
         Written(h), UNCHANGED <<objects, rules, last>>
  PROVE  GoodWrite
<1>1. PICK t : t = tasks[h]
  OBVIOUS
<1>2. PICK id : id = t.id
  OBVIOUS
<1>3. PICK g : g = GroupRow(t)
  OBVIOUS
<1>4. /\ t.op = "update group" /\ Shape(t) /\ Open(t) = {} /\ t.todo = <<>>
      /\ sound' => sound /\ SharedNamespace /\ OneVersion /\ RulesMean /\ Learned(t)
  BY <1>1, FinishingTask, OpSets
<1>5. t.input \in Requested.groups /\ t.left = {} /\ id \in DOMAIN groups
  BY <1>1, <1>2, <1>4, NoTodo DEF Shape
<1>6. TablesOK /\ BookTypeOK
  BY TypeParts DEF BookInv
<1>7. /\ g \in Groups /\ g.name = t.input.name /\ g.members \subseteq DOMAIN objects
      /\ \A i \in g.members : \E m \in t.input.members : i \in FindObject(m)
      /\ \A m \in t.input.members : FindObject(m) \subseteq g.members
  BY <1>3, <1>5, <1>6, GroupRowIs
<1>8. LastKept
  BY <1>6, LastSame
<1>9. id \in 1..last'["groups"]
  BY <1>5, <1>6 DEF TablesOK, TableOK
<1>10. PutInto(groups, groups', id, g)
  BY <1>1, <1>2, <1>3, PutIs
<1>11. FindGroup(g.name) \subseteq {id}
  BY <1>1, <1>2, <1>7 DEF UniqueGroup
<1>12. TablesOK'
  BY <1>6, <1>7, <1>8, <1>9, <1>10, <1>11, GroupPutTables
<1>13. sound' => /\ t.old.name = groups[id].name /\ t.old.family \in GroupFamilies(id)
                 /\ Changes(t, t.family) /\ LookedUp(t)
  BY <1>2, <1>4 DEF Learned
<1>14. sound' => NameFree(groups, id, g.name)
  BY <1>4, <1>5, <1>7, <1>13 DEF Changes, NameFree
<1>15. sound' => \A i \in g.members : objects[i].family = t.family
  BY <1>5, <1>7, <1>13, GroupRowVersion
<1>16. ASSUME sound', UsedByRules(groups[id].name), NEW f, AllOf(groups[id].members, f) PROVE AllOf(g.members, f)
  <2>1. GroupFamilies(id) = {f} /\ f \in Families
    <3>1. PICK m \in groups[id].members : TRUE
      BY <1>16 DEF AllOf
    <3>2. m \in DOMAIN objects /\ objects[m].family = f
      BY <1>5, <1>6, <1>16 DEF TablesOK, AllOf
    <3>3. QED
      BY <1>6, <1>16, <3>1, <3>2, ObjectFamilies DEF AllOf, GroupFamilies
  <2>2. t.family = f
    BY <1>4, <1>13, <1>16, <2>1 DEF Changes
  <2>3. t.input.members # {}
    BY <1>5, <1>13, <1>16, <2>1, <2>2, BookLimits DEF LookedUp
  <2>4. g.members # {}
    BY <1>1, <1>7, <2>3 DEF MembersExist
  <2>5. QED
    BY <1>15, <1>16, <2>2, <2>4 DEF AllOf
<1>17. sound' => RefsKept
  BY <1>4, <1>6, <1>7, <1>10, <1>14, <1>16, GroupPutRefs
<1>18. sound' => SharedNamespace' /\ OneVersion'
  <2>1. sound' => \A i, m \in g.members : objects[i].family = objects[m].family
    BY <1>15
  <2>2. QED
    BY <1>4, <1>7, <1>10, <1>14, <2>1, GroupPutBook
<1>19. sound' => RulesMean'
  BY <1>4, <1>6, <1>17, RulesMeanKept
<1>20. BookInv'
  BY <1>8, <1>12, <1>18, <1>19, WriteEnds
<1>21. QED
  BY <1>17, <1>20 DEF GoodWrite

LEMMA DeleteGroupStep ==
  ASSUME BookInv, NEW h \in Handlers, Finishing(h, "delete group"), tasks[h].id \in DOMAIN groups,
         groups' = Without(groups, tasks[h].id), Written(h), UNCHANGED <<objects, rules, last>>
  PROVE  GoodWrite
<1>1. PICK t : t = tasks[h]
  OBVIOUS
<1>2. PICK id : id = t.id
  OBVIOUS
<1>3. /\ t.op = "delete group" /\ Shape(t) /\ Open(t) = {}
      /\ sound' => sound /\ SharedNamespace /\ OneVersion /\ RulesMean /\ Learned(t)
  BY <1>1, FinishingTask, OpSets
<1>4. TablesOK /\ BookTypeOK
  BY TypeParts DEF BookInv
<1>5. LastKept
  BY <1>4, LastSame
<1>6. TakenFrom(groups, groups', id) /\ id \in DOMAIN groups
  BY <1>1, <1>2, WithoutIs
<1>7. TablesOK'
  BY <1>4, <1>5, <1>6, GroupGoneTables
<1>8. sound' => ~UsedByRules(groups[id].name)
  BY <1>2, <1>3 DEF Learned
<1>9. sound' => RefsKept
  BY <1>6, <1>8, GroupGoneRefs
<1>10. sound' => SharedNamespace' /\ OneVersion'
  BY <1>3, <1>6, GroupGoneBook
<1>11. sound' => RulesMean'
  BY <1>3, <1>4, <1>9, RulesMeanKept
<1>12. BookInv'
  BY <1>5, <1>7, <1>10, <1>11, WriteEnds
<1>13. QED
  BY <1>9, <1>12 DEF GoodWrite

LEMMA RuleStep ==
  ASSUME BookInv, NEW h \in Handlers, NEW op \in RuleOps, Finishing(h, op), NEW id \in 1..last'["rules"], LastKept,
         rules' = Put(rules, id, tasks[h].input), Written(h), UNCHANGED <<objects, groups>>
  PROVE  BookInv'
<1>1. PICK t : t = tasks[h]
  OBVIOUS
<1>2. PICK r : r = t.input
  OBVIOUS
<1>3. /\ t \in BookTasks /\ t.op = op /\ Shape(t) /\ Open(t) = {}
      /\ sound' => sound /\ SharedNamespace /\ OneVersion /\ RulesMean /\ Learned(t)
  BY <1>1, FinishingTask, OpSets
<1>4. r \in Rules
  BY <1>2, <1>3, BookLimits DEF Shape
<1>5. TablesOK
  BY TypeParts DEF BookInv
<1>6. PutInto(rules, rules', id, r)
  BY <1>1, <1>2, PutIs
<1>7. TablesOK'
  BY <1>4, <1>5, <1>6, RulePutTables
<1>8. sound' => InForce(r, objects, groups)
  <2>1. ASSUME sound' PROVE Means(r.src, t.family, objects, groups) /\ Means(r.dst, t.family, objects, groups)
    BY <1>2, <1>3, <2>1 DEF Learned, EndKnown
  <2>2. t.family \in Families \union {None}
    BY <1>3 DEF BookTasks
  <2>3. QED
    BY <2>1, <2>2 DEF InForce
<1>9. sound' => RulesMean'
  <2>1. ASSUME sound', NEW i \in DOMAIN rules' PROVE InForce(rules'[i], objects, groups)
    <3>1. CASE i = id
      BY <1>6, <1>8, <2>1, <3>1 DEF PutInto
    <3>2. CASE i # id
      BY <1>3, <1>6, <2>1, <3>2 DEF PutInto, RulesMean
    <3>3. QED
      BY <3>1, <3>2
  <2>2. QED
    BY <2>1 DEF RulesMean
<1>10. sound' => SharedNamespace' /\ OneVersion'
  BY <1>3 DEF SharedNamespace, OneVersion
<1>11. QED
  BY <1>7, <1>9, <1>10, WriteEnds

-----------------------------------------------------------------------------
(* Every step *)

Undisturbed == objects' = objects /\ groups' = groups

LEMMA WriteObjectStep ==
  ASSUME BookInv, NEW h \in Handlers, WriteObject(h)
  PROVE  GoodWrite
BY AddObjectStep, UpdateObjectStep, DeleteObjectStep DEF WriteObject

LEMMA WriteGroupStep ==
  ASSUME BookInv, NEW h \in Handlers, WriteGroup(h)
  PROVE  GoodWrite
BY AddGroupStep, UpdateGroupStep, DeleteGroupStep DEF WriteGroup

LEMMA WriteRuleStep ==
  ASSUME BookInv, NEW h \in Handlers, WriteRule(h)
  PROVE  BookInv' /\ Undisturbed
<1>1. TablesOK
  BY TypeParts DEF BookInv
<1>2. CASE Finishing(h, "add rule") /\ GiveId("rules") /\ rules' = Put(rules, last'["rules"], tasks[h].input)
           /\ Written(h) /\ UNCHANGED <<objects, groups>>
  <2>1. LastKept /\ last'["rules"] = last["rules"] + 1
    BY <1>1, <1>2, GiveIdIs
  <2>2. last["rules"] \in Nat
    BY <1>1 DEF TablesOK
  <2>3. last'["rules"] \in 1..last'["rules"]
    BY <2>1, <2>2
  <2>4. QED
    BY <1>2, <2>1, <2>3, RuleStep, OpSets DEF Undisturbed
<1>3. CASE Finishing(h, "update rule") /\ tasks[h].id \in DOMAIN rules /\ rules' = Put(rules, tasks[h].id, tasks[h].input)
           /\ Written(h) /\ UNCHANGED <<objects, groups, last>>
  <2>1. LastKept /\ tasks[h].id \in 1..last'["rules"]
    BY <1>1, <1>3, LastSame DEF TablesOK, TableOK
  <2>2. PICK id : id = tasks[h].id
    OBVIOUS
  <2>3. QED
    BY <1>3, <2>1, <2>2, RuleStep, OpSets DEF Undisturbed
<1>4. QED
  BY <1>2, <1>3 DEF WriteRule

LEMMA AskedUndisturbed ==
  ASSUME NEW h \in Handlers, RequestObject(h) \/ RequestGroup(h) \/ RequestRule(h) \/ Continue(h)
  PROVE  Undisturbed
BY DEF RequestObject, RequestGroup, RequestRule, Continue, Request, Query, tables, Undisturbed

LEMMA EveryStep ==
  ASSUME BookInv, [BookNext]_bookVars
  PROVE  BookInv' /\ (Undisturbed \/ (sound' => RefsKept))
<1>1. ASSUME NEW h \in Handlers, RequestObject(h) \/ RequestGroup(h) \/ RequestRule(h)
      PROVE  BookInv' /\ Undisturbed
  BY <1>1, RequestStep, AskedUndisturbed
<1>2. ASSUME NEW h \in Handlers, Continue(h) PROVE BookInv' /\ Undisturbed
  BY <1>2, ContinueStep, AskedUndisturbed
<1>3. ASSUME NEW h \in Handlers, WriteObject(h) \/ WriteGroup(h) PROVE BookInv' /\ (sound' => RefsKept)
  BY <1>3, WriteObjectStep, WriteGroupStep DEF GoodWrite
<1>4. ASSUME NEW h \in Handlers, WriteRule(h) PROVE BookInv' /\ Undisturbed
  BY <1>4, WriteRuleStep
<1>5. ASSUME NEW h \in Handlers, WriteNothing(h) PROVE BookInv' /\ Undisturbed
  BY <1>5, WriteNothingStep DEF WriteNothing, tables, Undisturbed
<1>6. ASSUME NEW i \in DOMAIN rules, DeleteRule(i) PROVE BookInv' /\ Undisturbed
  BY <1>6, DeleteRuleStep DEF DeleteRule, Undisturbed
<1>7. ASSUME Commit PROVE BookInv' /\ Undisturbed
  BY <1>7, CommitStep DEF Commit, tables, Undisturbed
<1>8. ASSUME Rollback PROVE BookInv' /\ Undisturbed
  BY <1>8, RollbackStep DEF Rollback, Undisturbed
<1>9. CASE UNCHANGED bookVars
  <2>1. TablesOK' /\ RestOK' /\ RowsInv' /\ SavedInv'
    BY <1>9, TypeParts, TablesKept, RowsKept DEF bookVars, BookInv
  <2>2. \A name : UsedByRules(name)' => UsedByRules(name)
    BY <1>9 DEF UsedByRules, bookVars, tables
  <2>3. TasksInv'
    BY <1>9, <2>2, TasksKept DEF bookVars, tables, BookInv
  <2>4. QED
    BY <1>9, <2>1, <2>3, TypeKept DEF bookVars, tables, BookInv, Undisturbed
<1>10. QED
  BY <1>1, <1>2, <1>3, <1>4, <1>5, <1>6, <1>7, <1>8, <1>9 DEF BookNext

LEMMA BookBegins ==
  ASSUME BookInit
  PROVE  BookInv
<1>1. PICK i \in 0..MaxId["objects"], m \in 0..MaxId["groups"] :
        /\ last = [objects |-> i, groups |-> m, rules |-> 0]
        /\ objects \in [1..i -> Objects]
        /\ groups \in [1..m -> [name : Names, members : SUBSET (1..i)]]
  BY DEF BookInit
<1>2. i \in Nat /\ m \in Nat /\ i <= MaxId["objects"] /\ m <= MaxId["groups"] /\ 0 <= MaxId["rules"]
  BY BookLimits
<1>3. TableOK(objects, "objects", Objects)
  BY <1>1, <1>2 DEF TableOK
<1>4. TableOK(groups, "groups", Groups)
  <2>1. 1..i \subseteq 1..MaxId["objects"]
    BY <1>2, BookLimits
  <2>2. [name : Names, members : SUBSET (1..i)] \subseteq Groups
    BY <2>1 DEF Groups
  <2>3. QED
    BY <1>1, <1>2, <2>2 DEF TableOK
<1>5. DOMAIN rules = {}
  BY DEF BookInit
<1>6. \A k \in DOMAIN groups : groups[k].members \subseteq DOMAIN objects
  BY <1>1
<1>7. last \in [{"objects", "groups", "rules"} -> Nat] /\ \A t \in DOMAIN last : last[t] <= MaxId[t]
  <2>1. DOMAIN last = {"objects", "groups", "rules"} /\ last["objects"] = i /\ last["groups"] = m /\ last["rules"] = 0
    BY <1>1
  <2>2. last = [t \in {"objects", "groups", "rules"} |-> last[t]]
    BY <1>1
  <2>3. QED
    BY <1>2, <2>1, <2>2
<1>8. TablesOK
  BY <1>3, <1>4, <1>5, <1>6, <1>7 DEF TablesOK, TableOK, BookInit
<1>9. RestOK
  BY BookLimits DEF RestOK, BookInit
<1>10. BookTypeOK
  BY <1>8, <1>9, TypeFirst DEF BookInit
<1>11. TasksInv
  BY IdleIs DEF TasksInv, BookInit
<1>12. RowsInv
  BY <1>5 DEF RowsInv, OneVersion, BookInit
<1>13. SavedInv
  BY DEF SavedInv, BookInit
<1>14. QED
  BY <1>10, <1>11, <1>12, <1>13 DEF BookInv

-----------------------------------------------------------------------------
(* Theorems *)

\* The invariant holds in every reachable state.
THEOREM BookInvHolds == BookSpec => []BookInv
<1>1. BookInit => BookInv
  BY BookBegins
<1>2. BookInv /\ [BookNext]_bookVars => BookInv'
  BY EveryStep
<1>3. QED
  BY <1>1, <1>2, PTL DEF BookSpec

\* Every variable stays in its type; names are unique in each table, and the members of a
\* group exist.
THEOREM BookTypeCorrect == BookSpec => []BookTypeOK
<1>1. BookInv => BookTypeOK
  BY DEF BookInv
<1>2. QED
  BY <1>1, BookInvHolds, PTL

\* A group whose members agree has one version.
LEMMA GroupOfOneVersion ==
  ASSUME BookTypeOK, OneVersion, NEW i \in DOMAIN groups
  PROVE  Cardinality(GroupFamilies(i)) = 1
<1>1. PICK f : GroupFamilies(i) = {f}
  <2>1. CASE groups[i].members = {}
    BY <2>1 DEF GroupFamilies
  <2>2. CASE groups[i].members # {}
    <3>1. PICK m \in groups[i].members : TRUE
      BY <2>2
    <3>2. \A k \in groups[i].members : objects[k].family = objects[m].family
      BY DEF OneVersion
    <3>3. GroupFamilies(i) = {objects[m].family}
      BY <2>2, <3>2 DEF GroupFamilies
    <3>4. QED
      BY <3>3
  <2>3. QED
    BY <2>1, <2>2
<1>2. QED
  BY <1>1, FS_Singleton

\* As long as no write relied on a query that was out of date, no object has the name of a
\* group, and no group mixes IPv4 and IPv6, which would make nft refuse the whole ruleset.
THEOREM BookIsOne == BookSpec => []OneBook
<1>1. BookInv => OneBook
  BY GroupOfOneVersion DEF BookInv, RowsInv, OneBook
<1>2. QED
  BY <1>1, BookInvHolds, PTL

\* The generator finds the one version of a reference.
LEMMA SetOfOneVersion ==
  ASSUME BookTypeOK, NEW ref \in Refs, ref # AnyAddress, NEW f, Means(ref, f, objects, groups)
  PROVE  SetFamilies(ref) = {f}
<1>1. f \in Families
  BY DEF Means
<1>2. CASE ref \in Families
  <2>1. ref \notin Names
    BY <1>2, BookLimits
  <2>2. (\A i \in DOMAIN objects : objects[i].name # ref) /\ (\A i \in DOMAIN groups : groups[i].name # ref)
    BY <2>1 DEF BookTypeOK, TableOK, Objects, Groups
  <2>3. ref = f
    BY <2>2 DEF Means
  <2>4. QED
    BY <1>2, <2>3 DEF SetFamilies
<1>3. CASE ref \in Names /\ FindObject(ref) # {}
  <2>1. PICK i \in FindObject(ref) : TRUE
    BY <1>3
  <2>2. i \in DOMAIN objects /\ objects[i].name = ref
    BY <2>1 DEF FindObject
  <2>3. FindObject(ref) = {i}
    BY <2>2, ObjectFamilies DEF FindObject
  <2>4. objects[i].family = f
    BY <1>1, <1>3, <2>2, ObjectFamilies, BookLimits DEF Means
  <2>5. ref \notin Families
    BY <1>3, BookLimits
  <2>6. Target(ref) = [kind : {"object"}, id : {i}]
    BY <2>3 DEF Target
  <2>7. \A x \in Target(ref) : x.kind = "object" /\ x.id = i
    BY <2>6
  <2>8. [kind |-> "object", id |-> i] \in Target(ref)
    BY <2>6
  <2>9. SetFamilies(ref) =
          UNION {IF x.kind = "object" THEN {objects[x.id].family} ELSE GroupFamilies(x.id) \ {None} : x \in Target(ref)}
    BY <2>5 DEF SetFamilies
  <2>10. \A x \in Target(ref) :
           (IF x.kind = "object" THEN {objects[x.id].family} ELSE GroupFamilies(x.id) \ {None}) = {f}
    BY <2>4, <2>7
  <2>11. QED
    BY <2>8, <2>9, <2>10
<1>4. CASE ref \in Names /\ FindObject(ref) = {}
  <2>1. ref \notin Families /\ ref # f
    BY <1>1, <1>4, BookLimits
  <2>2. PICK i \in DOMAIN groups : /\ groups[i].name = ref /\ groups[i].members # {}
                                   /\ \A m \in groups[i].members : objects[m].family = f
    BY <1>4, <2>1 DEF Means, FindObject
  <2>3. FindGroup(ref) = {i}
    BY <2>2 DEF FindGroup, BookTypeOK, Distinct
  <2>4. GroupFamilies(i) = {f}
    BY <2>2 DEF GroupFamilies
  <2>5. GroupFamilies(i) \ {None} = {f}
    BY <1>1, <2>4, BookLimits
  <2>6. Target(ref) = [kind : {"group"}, id : {i}]
    BY <1>4, <2>3 DEF Target
  <2>7. \A x \in Target(ref) : x.kind = "group" /\ x.id = i
    BY <2>6
  <2>8. [kind |-> "group", id |-> i] \in Target(ref)
    BY <2>6
  <2>9. SetFamilies(ref) =
          UNION {IF x.kind = "object" THEN {objects[x.id].family} ELSE GroupFamilies(x.id) \ {None} : x \in Target(ref)}
    BY <2>1 DEF SetFamilies
  <2>10. \A x \in Target(ref) :
           (IF x.kind = "object" THEN {objects[x.id].family} ELSE GroupFamilies(x.id) \ {None}) = {f}
    BY <2>5, <2>7
  <2>11. QED
    BY <2>8, <2>9, <2>10
<1>5. QED
  BY <1>2, <1>3, <1>4 DEF Refs

\* So it writes the rule.
LEMMA RuleEmitted ==
  ASSUME BookTypeOK, NEW i \in DOMAIN rules, InForce(rules[i], objects, groups)
  PROVE  i \in Emitted
<1>1. PICK ends : ends = {rules[i].src, rules[i].dst} \ {AnyAddress}
  OBVIOUS
<1>2. PICK f : Means(rules[i].src, f, objects, groups) /\ Means(rules[i].dst, f, objects, groups)
  BY DEF InForce
<1>3. rules[i].src \in Refs /\ rules[i].dst \in Refs
  BY DEF BookTypeOK, TableOK, Rules
<1>4. \A ref \in ends : SetFamilies(ref) = {f}
  BY <1>1, <1>2, <1>3, SetOfOneVersion
<1>5. PICK all : all = UNION {SetFamilies(ref) : ref \in ends}
  OBVIOUS
<1>6. all = {} \/ all = {f}
  BY <1>4, <1>5
<1>7. Cardinality(all) <= 1
  <2>1. Cardinality({}) = 0
    BY FS_EmptySet
  <2>2. Cardinality({f}) = 1
    BY FS_Singleton
  <2>3. QED
    BY <1>6, <2>1, <2>2
<1>8. \A ref \in ends : SetFamilies(ref) # {}
  BY <1>4
<1>9. QED
  BY <1>1, <1>5, <1>7, <1>8 DEF Emitted

\* Then the generator leaves out no enabled rule: what a rule refers to is there, is not
\* empty, and is of one IP version, whatever was renamed, changed, deleted or rolled back.
THEOREM BookKeepsRules == BookSpec => []RulesInForce
<1>1. BookInv => RulesInForce
  <2>1. SUFFICES ASSUME BookInv, sound PROVE Emitted = DOMAIN rules
    BY DEF RulesInForce
  <2>2. \A i \in DOMAIN rules : i \in Emitted
    BY <2>1, RuleEmitted DEF BookInv, RowsInv
  <2>3. Emitted \subseteq DOMAIN rules
    BY DEF Emitted
  <2>4. QED
    BY <2>2, <2>3
<1>2. QED
  BY <1>1, BookInvHolds, PTL

\* And nothing that is written to the book makes a rule stand for another object or group
\* than the one it stood for.
THEOREM BookKeepsTargets == BookSpec => RulesKeepTarget
<1> DEFINE Step == sound' => \A i \in DOMAIN rules \intersect DOMAIN rules' : rules'[i] = rules[i] =>
       \A ref \in {rules[i].src, rules[i].dst} \intersect Names : Target(ref)' = Target(ref)
<1>1. BookInv /\ [BookNext]_bookVars => Step
  <2>1. SUFFICES ASSUME BookInv, [BookNext]_bookVars, sound', NEW i \in DOMAIN rules,
                        NEW ref \in {rules[i].src, rules[i].dst} \intersect Names
                 PROVE  Target(ref)' = Target(ref)
    OBVIOUS
  <2>2. Undisturbed \/ RefsKept
    BY <2>1, EveryStep
  <2>3. CASE Undisturbed
    BY <2>3 DEF Undisturbed, Target, FindObject, FindGroup
  <2>4. CASE RefsKept
    <3>1. UsedByRules(ref)
      BY DEF UsedByRules
    <3>2. FindObject(ref)' = FindObject(ref) /\ FindGroup(ref)' = FindGroup(ref)
      BY <2>4, <3>1 DEF RefsKept, KeptRef
    <3>3. QED
      BY <3>2 DEF Target
  <2>5. QED
    BY <2>2, <2>3, <2>4
<1>2. BookInv /\ [BookNext]_bookVars => [Step]_bookVars
  BY <1>1
<1>3. QED
  BY <1>2, BookInvHolds, PTL DEF BookSpec, RulesKeepTarget

=================================================================================
