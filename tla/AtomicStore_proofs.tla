------------------------- MODULE AtomicStore_proofs -------------------------
(***************************************************************************)
(* Proofs about the atomic snapshot store.                                 *)
(***************************************************************************)
EXTENDS AtomicStore, SnapshotFiles_proofs

-----------------------------------------------------------------------------
(***************************************************************************)
(* Type correctness.                                                       *)
(***************************************************************************)
LEMMA InitTypes == Init => TypeOK /\ OperationInv
    BY ContentTypes, EmptySeq
    DEF Init, TypeOK, OperationInv, Steps, Request, NoRequest, Kinds, Outcomes,
        SaveSteps, Recording

LEMMA SetFileType ==
    ASSUME files \in [AllPaths -> Content], NEW p \in AllPaths, NEW c \in Content,
           SetFile(p, c)
    PROVE  files' \in [AllPaths -> Content]
    BY DEF SetFile

LEMMA RenameType ==
    ASSUME files \in [AllPaths -> Content], NEW from \in AllPaths, NEW to \in AllPaths,
           Rename(from, to)
    PROVE  files' \in [AllPaths -> Content]
    BY ContentTypes DEF Rename

LEMMA SubjectType ==
    ASSUME TypeOK
    PROVE  Subject \in Seq(Payload)
    BY DEF TypeOK, Subject

LEMMA RecordedType ==
    ASSUME TypeOK, OperationInv, pc \in Recording
    PROVE  Ancestor(Subject, cursor) \in Seq(Payload)
    BY SubjectType, AncestorIsHistory DEF OperationInv

\* How an operation ends, as far as the types are concerned.
LEMMA ReturnTypes ==
    ASSUME TypeOK, NEW result \in Outcomes, Return(result),
           known' \in Seq(Payload), acked' \in SUBSET Seq(Payload)
    PROVE  TypeOK'
    BY EmptySeq
    DEF TypeOK, Return, Stop, diskVars, Steps, Request, NoRequest, Kinds

LEMMA RefuseTypes ==
    ASSUME TypeOK, NEW code \in Outcomes, Refuse(code)
    PROVE  TypeOK'
    BY ReturnTypes DEF TypeOK, Refuse

LEMMA StepTypeOK == TypeOK /\ OperationInv /\ [Next]_vars => TypeOK'
    <1> SUFFICES ASSUME TypeOK, OperationInv, [Next]_vars
                 PROVE  TypeOK'
        OBVIOUS
    <1> USE DEF TypeOK, Goto, Running, History, diskVars
    <1>1. CASE InspectEmpty
        BY <1>1, ContentTypes DEF InspectEmpty, SetFile, Rename, Clean, AllPaths, Steps, RecoverySteps, LineageSteps, SaveSteps, CleanupSteps
    <1>2. CASE InspectFencedTransients
        BY <1>2, ContentTypes DEF InspectFencedTransients, SetFile, Rename, Clean, AllPaths, Steps, RecoverySteps, LineageSteps, SaveSteps, CleanupSteps
    <1>3. CASE InspectRefuse
        BY <1>3, RefuseTypes DEF InspectRefuse, Outcomes, Refusals, Steps, RecoverySteps, LineageSteps, SaveSteps, CleanupSteps
    <1>4. CASE InspectSelect
        BY <1>4, HighestTypes, SelectedIsHighest DEF InspectSelect, Steps, RecoverySteps, CleanupSteps
    <1>5. CASE PromoteClear
        BY <1>5, ContentTypes DEF PromoteClear, SetFile, Rename, Clean, AllPaths, Steps, RecoverySteps, LineageSteps, SaveSteps, CleanupSteps
    <1>6. CASE PromoteOpen
        BY <1>6, ContentTypes DEF PromoteOpen, SetFile, Rename, Clean, AllPaths, Steps, RecoverySteps, LineageSteps, SaveSteps, CleanupSteps
    <1>7. CASE PromoteWrite
        BY <1>7, ContentTypes DEF PromoteWrite, SetFile, Rename, Clean, AllPaths, Steps, RecoverySteps, LineageSteps, SaveSteps, CleanupSteps
    <1>8. CASE PromoteRename
        <2>1. files' \in [AllPaths -> Content]
            BY <1>8, RenameType, ContentTypes DEF PromoteRename, AllPaths, CandidateRoles, TransientRoles
        <2>2. QED BY <1>8, <2>1 DEF PromoteRename, Steps, RecoverySteps, LineageSteps, SaveSteps, CleanupSteps
    <1>9. CASE PromoteVerify
        BY <1>9, RefuseTypes DEF PromoteVerify, Outcomes, Refusals, Steps, RecoverySteps, LineageSteps, SaveSteps, CleanupSteps
    <1>10. CASE CleanTemp
        BY <1>10, ContentTypes DEF CleanTemp, SetFile, Rename, Clean, AllPaths, Steps, RecoverySteps, LineageSteps, SaveSteps, CleanupSteps
    <1>11. CASE CleanRecoveryTemp
        BY <1>11, ContentTypes DEF CleanRecoveryTemp, SetFile, Rename, Clean, AllPaths, Steps, RecoverySteps, LineageSteps, SaveSteps, CleanupSteps
    <1>12. CASE CleanBackupTemp
        BY <1>12, ContentTypes DEF CleanBackupTemp, SetFile, Rename, Clean, AllPaths, Steps, RecoverySteps, LineageSteps, SaveSteps, CleanupSteps
    <1>13. CASE Recovered
        BY <1>13, RefuseTypes, ReturnTypes DEF Recovered, AfterRecovery, Outcomes, Refusals, Steps, RecoverySteps, LineageSteps, SaveSteps
    <1>14. CASE Reconcile
        BY <1>14, RefuseTypes DEF Reconcile, Outcomes, Refusals, Steps, RecoverySteps, LineageSteps, SaveSteps, CleanupSteps
    <1>15. CASE Record
        <2>1. tornRecords' \subseteq Seq(Payload) \/ TypeOK'
            BY <1>15, RecordedType, RefuseTypes DEF Record, Recording, Outcomes, Refusals
        <2>2. QED BY <1>15, <2>1, RefuseTypes DEF Record, Outcomes, Refusals, Steps, RecoverySteps, LineageSteps, SaveSteps, CleanupSteps
    <1>16. CASE RecordWrite
        <2>1. pc \in Recording BY <1>16 DEF RecordWrite, Recording
        <2>2. QED BY <1>16, <2>1, RecordedType DEF RecordWrite, Steps, RecoverySteps, LineageSteps, SaveSteps, CleanupSteps
    <1>17. CASE RecordVerify
        BY <1>17, RefuseTypes DEF RecordVerify, Outcomes, Refusals, Steps, RecoverySteps, LineageSteps, SaveSteps, CleanupSteps, VerifyUpTo
    <1>18. CASE VerifyChain
        <2>1. CASE request.kind = "load"
            BY <1>18, <2>1, RefuseTypes, ReturnTypes
            DEF VerifyChain, VerifyUpTo, Outcomes, Refusals
        <2>2. CASE request.kind # "load"
            BY <1>18, <2>2, RefuseTypes
            DEF VerifyChain, VerifyUpTo, Outcomes, Refusals, Steps, RecoverySteps, LineageSteps, SaveSteps, CleanupSteps
        <2>3. QED BY <2>1, <2>2
    <1>19. ASSUME NEW world \in Worlds, Build(world) PROVE TypeOK'
        <2>1. [world |-> world, token |-> request.policy] \in Payload
            BY <1>19 DEF Payload, Request
        <2>2. new' \in Seq(Payload)
            BY <1>19, <2>1, AppendIsChild DEF Build
        <2>3. SetFile("temp", Missing)
            BY <1>19 DEF Build
        <2>4. files' \in [AllPaths -> Content]
            BY <2>3, ContentTypes DEF SetFile, AllPaths
        <2>5. QED BY <1>19, <2>2, <2>4 DEF Build, Steps, RecoverySteps, LineageSteps, SaveSteps, CleanupSteps
    <1>20. CASE SaveOpen
        BY <1>20, ContentTypes DEF SaveOpen, SetFile, Rename, Clean, AllPaths, Steps, RecoverySteps, LineageSteps, SaveSteps, CleanupSteps
    <1>21. CASE SaveWrite
        BY <1>21, ContentTypes DEF SaveWrite, SetFile, Rename, Clean, AllPaths, Steps, RecoverySteps, LineageSteps, SaveSteps, CleanupSteps
    <1>22. CASE Backup
        BY <1>22, ContentTypes DEF Backup, SetFile, Rename, Clean, AllPaths, Steps, RecoverySteps, LineageSteps, SaveSteps, CleanupSteps
    <1>23. CASE BackupWrite
        <2>1. files' \in [AllPaths -> Content]
            BY <1>23, SetFileType, ContentTypes DEF BackupWrite, AllPaths, CandidateRoles, TransientRoles
        <2>2. QED BY <1>23, <2>1 DEF BackupWrite, Steps, RecoverySteps, LineageSteps, SaveSteps, CleanupSteps
    <1>24. CASE BackupRename
        <2>1. files' \in [AllPaths -> Content]
            BY <1>24, RenameType, ContentTypes DEF BackupRename, AllPaths, CandidateRoles, TransientRoles
        <2>2. QED BY <1>24, <2>1 DEF BackupRename, Steps, RecoverySteps, LineageSteps, SaveSteps, CleanupSteps
    <1>25. CASE Install
        <2>1. files' \in [AllPaths -> Content]
            BY <1>25, RenameType, ContentTypes DEF Install, AllPaths, CandidateRoles, TransientRoles
        <2>2. QED BY <1>25, <2>1 DEF Install, Steps, RecoverySteps, LineageSteps, SaveSteps, CleanupSteps
    <1>26. CASE VerifyPrimary
        BY <1>26, RefuseTypes DEF VerifyPrimary, Outcomes, Refusals, Steps, RecoverySteps, LineageSteps, SaveSteps, CleanupSteps
    <1>27. CASE Commit
        <2>1. files' \in [AllPaths -> Content]
            BY <1>27, SetFileType, ContentTypes DEF Commit, AllPaths
        <2>2. QED BY <1>27, <2>1, EmptySeq
            DEF Commit, Stop, Request, NoRequest, Kinds, Outcomes, Steps, RecoverySteps, LineageSteps, SaveSteps, CleanupSteps
    <1>28. CASE NewWriter
        BY <1>28, ContentTypes DEF NewWriter, SetFile, Rename, Clean, AllPaths, Steps, RecoverySteps, LineageSteps, SaveSteps, CleanupSteps
    <1>29. ASSUME NEW kind \in Kinds, NEW policy \in {0, epoch},
                 NEW check \in BOOLEAN, Begin(kind, policy, check)
          PROVE  TypeOK'
        <2>1. request' \in Request
            BY <1>29, EmptySeq DEF Begin, Request
        <2>2. QED BY <1>29, <2>1 DEF Begin, Outcomes, Steps, RecoverySteps, LineageSteps, SaveSteps, CleanupSteps
    <1>30. CASE Interrupt
        BY <1>30, RefuseTypes DEF Interrupt, Outcomes, Refusals, Steps, RecoverySteps, LineageSteps, SaveSteps, CleanupSteps
    <1>31. CASE UNCHANGED vars
        BY <1>31 DEF vars
    <1>32. QED
        BY <1>1, <1>2, <1>3, <1>4, <1>5, <1>6, <1>7, <1>8, <1>9, <1>10, <1>11, <1>12, <1>13, <1>14, <1>15, <1>16, <1>17, <1>18, <1>19, <1>20, <1>21, <1>22, <1>23, <1>24, <1>25, <1>26, <1>27, <1>28, <1>29, <1>30, <1>31
        DEF Next, Recovery, Lineage, Saving, Environment

LEMMA StepOperationInv ==
    TypeOK /\ OperationInv /\ [Next]_vars => OperationInv'
    <1> SUFFICES ASSUME TypeOK, OperationInv, [Next]_vars
                 PROVE  OperationInv'
        OBVIOUS
    <1> USE DEF OperationInv, Goto, Running, History, Recording, RecoverySteps,
                LineageSteps, SaveSteps, CleanupSteps
    <1>1. ASSUME NEW result, Stop(result) PROVE OperationInv'
        BY <1>1 DEF Stop
    <1>2. ASSUME NEW code, Refuse(code) PROVE OperationInv'
        BY <1>1, <1>2 DEF Refuse, Return
    <1>3. CASE Recovery
        <2>1. CASE InspectRefuse \/ PromoteVerify \/ Recovered
            BY <1>1, <1>2, <2>1
            DEF InspectRefuse, PromoteVerify, Recovered, AfterRecovery, Return
        <2>2. QED
            BY <1>3, <2>1
            DEF Recovery, InspectEmpty, InspectFencedTransients, InspectSelect,
                PromoteClear, PromoteOpen, PromoteWrite, PromoteRename, CleanTemp,
                CleanRecoveryTemp, CleanBackupTemp, Clean
    <1>4. CASE Reconcile
        BY <1>2, <1>4 DEF Reconcile, Subject, TypeOK
    <1>5. CASE Record \/ RecordWrite
        BY <1>2, <1>5 DEF Record, RecordWrite, Subject
    <1>6. CASE RecordVerify
        BY <1>2, <1>6, SubjectType, LenProperties DEF RecordVerify, VerifyUpTo, Subject
    <1>7. CASE VerifyChain
        BY <1>1, <1>2, <1>7 DEF VerifyChain, VerifyUpTo, Return
    <1>8. ASSUME NEW world \in Worlds, Build(world)
          PROVE  OperationInv'
        BY <1>8, AppendIsChild DEF Build, IsChild
    <1>9. CASE VerifyPrimary
        <2>1. pc = "verifyPrimary" /\ new \in Seq(Payload) /\ new # <<>>
            BY <1>9 DEF VerifyPrimary, TypeOK
        <2>2. Len(new) \in 1..Len(new)
            BY <2>1, EmptySeq, LenProperties
        <2>3. QED BY <1>2, <1>9, <2>1, <2>2 DEF VerifyPrimary, Subject
    <1>10. CASE SaveOpen \/ SaveWrite \/ Backup \/ BackupWrite \/ BackupRename \/ Install
        BY <1>10 DEF SaveOpen, SaveWrite, Backup, BackupWrite, BackupRename, Install
    <1>11. CASE Commit \/ Interrupt
        BY <1>1, <1>2, <1>11 DEF Commit, Interrupt
    <1>12. CASE NewWriter \/ UNCHANGED vars
        BY <1>12 DEF NewWriter, vars, diskVars, Subject
    <1>13. ASSUME NEW kind \in Kinds, NEW policy \in {0, epoch},
                  NEW check \in BOOLEAN, Begin(kind, policy, check)
           PROVE  OperationInv'
        BY <1>13 DEF Begin, Subject
    <1>14. QED
        BY <1>3, <1>4, <1>5, <1>6, <1>7, <1>8, <1>9, <1>10, <1>11, <1>12, <1>13
        DEF Next, Lineage, Saving, Environment

\* Every variable keeps its type, whatever is interrupted.
THEOREM TypeCorrect == Spec => []TypeOK
    <1>1. TypeOK /\ OperationInv /\ [Next]_vars => (TypeOK /\ OperationInv)'
        BY StepTypeOK, StepOperationInv
    <1>2. QED BY InitTypes, <1>1, PTL DEF Spec

-----------------------------------------------------------------------------
(***************************************************************************)
(* What the files offer to a reader.                                       *)
(***************************************************************************)
LEMMA FileTypes ==
    ASSUME TypeOK
    PROVE  /\ \A p \in AllPaths : files[p] \in Content /\ files[p].snap \in Seq(Payload)
           /\ Primary \in Seq(Payload)
    <1>1. \A p \in AllPaths : files[p] \in Content BY DEF TypeOK
    <1>2. \A c \in Content : c.snap \in Seq(Payload) BY DEF Content
    <1>3. QED BY <1>1, <1>2 DEF Primary, AllPaths, CandidateRoles

LEMMA DiskHasNoConflict ==
    ASSUME TypeOK, DiskInv
    PROVE  NoGenerationConflict
    BY ConsistentHasNoConflict DEF TypeOK, DiskInv, NoGenerationConflict

LEMMA DiskKeepsAcked ==
    ASSUME TypeOK, DiskInv
    PROVE  AckedSurvives
    BY ConsistentKeepsAcked DEF TypeOK, DiskInv, AckedSurvives

-----------------------------------------------------------------------------
(***************************************************************************)
(* The inductive invariant.                                                *)
(***************************************************************************)
LEMMA InitIInv == Init => IInv
    <1>1. IsPrefix(<<>>, <<>>)
        BY PrefixReflexive, EmptySeq
    <1>2. Init => DiskInv
        BY <1>1 DEF Init, DiskInv, Consistent, Missing, IsValid, AllPaths, CandidateRoles, Primary
    <1>3. Init => StageInv
        BY DEF Init, StageInv, Promoting, RecoverySteps, LineageSteps, SaveSteps,
               CleanupSteps, TempWritten, Recording, Missing, IsValid, AllPaths
    <1>4. QED BY <1>2, <1>3, InitTypes DEF IInv

LEMMA DiskUnchanged ==
    ASSUME DiskInv, UNCHANGED <<files, acked>>
    PROVE  DiskInv'
    BY DEF DiskInv, Consistent

\* The snapshot an operation works on, at the steps that touch the files.
LEMMA OperationTypes ==
    ASSUME IInv
    PROVE  /\ base \in Seq(Payload) /\ new \in Seq(Payload)
           /\ DOMAIN files = AllPaths
           /\ acked \subseteq Seq(Payload)
    BY DEF IInv, TypeOK

LEMMA StepDiskInv ==
    ASSUME IInv, [Next]_vars
    PROVE  DiskInv'
    <1> USE DEF IInv, DiskInv
    <1> files \in [AllPaths -> Content] /\ acked \in SUBSET Seq(Payload)
        BY DEF TypeOK
    <1>1. CASE UNCHANGED <<files, acked>>
        BY <1>1, DiskUnchanged
    <1>2. ASSUME NEW p \in {"temp", "recoveryTemp", "backupTemp"},
                 SetFile(p, Missing) \/ SetFile(p, Torn), acked' = acked
          PROVE  DiskInv'
        <2>1. \A q \in AllPaths : files'[q] = files[q] \/ (q = p /\ files'[q] \in {Missing, Torn})
            BY <1>2 DEF SetFile, AllPaths, CandidateRoles
        <2>2. QED BY <1>2, <2>1, ConsistentAfterClearing DEF TransientRoles
    <1>3. CASE PromoteWrite
        <2>1. /\ \A q \in AllPaths \ {"recoveryTemp"} : files'[q] = files[q]
              /\ files'["recoveryTemp"] = Holds(base) /\ acked' = acked
            BY <1>3, OperationTypes
            DEF PromoteWrite, SetFile, AllPaths, CandidateRoles, History
        <2>2. IsChild(base, Primary) /\ (IsValid(files["temp"]) => files["temp"].snap = base)
            BY <1>3 DEF PromoteWrite, StageInv, Promoting
        <2>3. QED BY <2>1, <2>2, ConsistentAfterWriting DEF Primary, TransientRoles
    <1>4. CASE PromoteRename
        <2>1. /\ files["recoveryTemp"] = Holds(base) /\ IsChild(base, Primary)
              /\ IsValid(files["temp"]) => files["temp"].snap = base
            BY <1>4 DEF PromoteRename, StageInv, Promoting
        <2>2. /\ files'["primary"] = files["recoveryTemp"]
              /\ ~IsValid(files'["recoveryTemp"])
              /\ \A q \in {"temp", "backup", "backupTemp"} : files'[q] = files[q]
              /\ acked' = acked
            BY <1>4, OperationTypes
            DEF PromoteRename, Rename, Missing, IsValid, AllPaths, CandidateRoles, History
        <2>3. QED BY <2>1, <2>2, OperationTypes, ConsistentAfterInstall DEF Primary
    <1>5. CASE SaveWrite
        <2>1. /\ \A q \in AllPaths \ {"temp"} : files'[q] = files[q]
              /\ files'["temp"] = Holds(new) /\ acked' = acked
            BY <1>5, OperationTypes
            DEF SaveWrite, SetFile, AllPaths, CandidateRoles, History
        <2>2. IsChild(new, Primary) /\ ~IsValid(files["recoveryTemp"])
            BY <1>5 DEF SaveWrite, StageInv, SaveSteps
        <2>3. QED BY <2>1, <2>2, ConsistentAfterWriting DEF Primary, TransientRoles
    <1>6. CASE BackupWrite
        <2>1. /\ \A q \in AllPaths \ {"backupTemp"} : files'[q] = files[q]
              /\ files'["backupTemp"] = files["primary"] /\ acked' = acked
            BY <1>6, OperationTypes
            DEF BackupWrite, SetFile, AllPaths, CandidateRoles, History
        <2>2. IsValid(files["primary"]) => files["primary"].exists
            BY DEF Consistent, AllPaths, CandidateRoles
        <2>3. QED BY <2>1, <2>2, ConsistentAfterCopying DEF AllPaths, CandidateRoles
    <1>7. CASE BackupRename
        <2>1. files["backupTemp"] = files["primary"]
            BY <1>7 DEF BackupRename, StageInv
        <2>2. /\ \A q \in CandidateRoles \ {"backup"} : files'[q] = files[q]
              /\ files'["backup"] = files["primary"] /\ files'["backupTemp"] = Missing
              /\ acked' = acked
            BY <1>7, <2>1, OperationTypes
            DEF BackupRename, Rename, AllPaths, CandidateRoles, History
        <2>3. QED BY <2>2, ConsistentAfterBackup
    <1>8. CASE Install
        <2>1. files["temp"] = Holds(new) /\ IsChild(new, Primary) /\ ~IsValid(files["recoveryTemp"])
            BY <1>8 DEF Install, StageInv, TempWritten, SaveSteps
        <2>2. /\ files'["primary"] = files["temp"]
              /\ ~IsValid(files'["temp"])
              /\ \A q \in {"recoveryTemp", "backup", "backupTemp"} : files'[q] = files[q]
              /\ ~IsValid(files'["recoveryTemp"])
              /\ acked' = acked
            BY <1>8, <2>1, OperationTypes
            DEF Install, Rename, Missing, IsValid, AllPaths, CandidateRoles, History
        <2>3. QED BY <2>1, <2>2, OperationTypes, ConsistentAfterInstall DEF Primary
    <1>9. CASE Commit
        <2>1. /\ \A q \in CandidateRoles : files'[q] = files[q]
              /\ files'["backupTemp"] = Missing /\ acked' = acked \cup {new}
            BY <1>9, OperationTypes DEF Commit, SetFile, AllPaths, CandidateRoles
        <2>2. new = Primary /\ new # <<>> /\ IsPrefix(new, new)
            BY <1>9, OperationTypes, PrefixReflexive
            DEF Commit, StageInv, CleanupSteps, Subject
        <2>3. Consistent(files', acked)
            BY <2>1, ConsistentAfterCopying DEF Missing, IsValid
        <2>4. files'["primary"].snap = new
            BY <2>1, <2>2 DEF Primary, CandidateRoles
        <2>5. QED BY <2>1, <2>2, <2>3, <2>4, ConsistentAfterCommit
    <1>10. CASE PromoteClear \/ PromoteOpen \/ CleanTemp \/ CleanRecoveryTemp
                \/ CleanBackupTemp \/ SaveOpen \/ \E world \in Worlds : Build(world)
        BY <1>2, <1>10
        DEF PromoteClear, PromoteOpen, CleanTemp, CleanRecoveryTemp, CleanBackupTemp,
            Clean, SaveOpen, Build, History
    <1>11. CASE Backup
        BY <1>1, <1>2, <1>11 DEF Backup, History
    <1>12. CASE UNCHANGED vars
        BY <1>1, <1>12 DEF vars
    <1>13. ASSUME NEW code, Refuse(code) PROVE DiskInv'
        BY <1>1, <1>13 DEF Refuse, Return, diskVars
    <1>14. CASE InspectRefuse \/ PromoteVerify \/ Recovered \/ Lineage \/ VerifyPrimary \/ Interrupt
        BY <1>1, <1>13, <1>14
        DEF InspectRefuse, PromoteVerify, Recovered, AfterRecovery, Lineage, Reconcile,
            Record, RecordWrite, RecordVerify, VerifyChain, VerifyUpTo, VerifyPrimary,
            Interrupt, Return, Goto, History, diskVars
    <1>15. CASE InspectEmpty \/ InspectFencedTransients \/ InspectSelect \/ NewWriter
                \/ \E kind \in Kinds, policy \in {0, epoch}, check \in BOOLEAN :
                      Begin(kind, policy, check)
        BY <1>1, <1>15
        DEF InspectEmpty, InspectFencedTransients, InspectSelect, NewWriter, Begin,
            History, diskVars
    <1>16. QED
        BY <1>3, <1>4, <1>5, <1>6, <1>7, <1>8, <1>9, <1>10, <1>11, <1>12, <1>14, <1>15
        DEF Next, Recovery, Lineage, Saving, Environment

LEMMA StepStageInv ==
    ASSUME IInv, [Next]_vars
    PROVE  StageInv'
    <1> USE DEF IInv, StageInv, Goto, Running, History, diskVars, Promoting, TempWritten,
                Recording, RecoverySteps, LineageSteps, SaveSteps, CleanupSteps
    <1>1. ASSUME NEW result, Stop(result) PROVE StageInv'
        BY <1>1 DEF Stop
    <1>2. ASSUME NEW code, Refuse(code) PROVE StageInv'
        BY <1>1, <1>2 DEF Refuse, Return
    <1>3. CASE InspectEmpty \/ InspectFencedTransients
        <2>1. Primary = <<>>
            BY <1>3, PrimaryIsEligible
            DEF InspectEmpty, InspectFencedTransients, FencedTransientsOnly, AnyExisting,
                DiskInv, Consistent, AllPaths, CandidateRoles, IsValid, Primary
        <2>2. CASE InspectEmpty
            <3>1. ~IsValid(files["temp"]) /\ ~IsValid(files["recoveryTemp"])
                BY <2>2 DEF InspectEmpty, AnyExisting, DiskInv, Consistent, AllPaths, CandidateRoles
            <3>2. QED BY <2>1, <2>2, <3>1 DEF InspectEmpty, Primary
        <2>3. CASE InspectFencedTransients
            BY <2>1, <2>3 DEF InspectFencedTransients, Subject, OperationInv, Primary
        <2>4. QED BY <1>3, <2>2, <2>3
    <1>4. CASE InspectSelect
        <2>1. CASE base' = Primary /\ files["primary"] = Holds(base')
            BY <1>4, <2>1 DEF InspectSelect, Subject, OperationInv, Primary
        <2>2. CASE /\ IsChild(base', Primary)
                   /\ IsValid(files["temp"]) => files["temp"].snap = base'
            <3>1. base' \in Seq(Payload)
                BY <1>4, SelectedIsHighest, HighestTypes DEF InspectSelect, TypeOK
            <3>2. base' # Primary
                BY <2>2, <3>1, FileTypes, ChildIsLonger, LenProperties
            <3>3. files["primary"] # Holds(base')
                BY <3>2 DEF Holds, Primary
            <3>4. QED BY <1>4, <2>2, <3>3 DEF InspectSelect, Primary
        <2>3. QED BY <1>4, <2>1, <2>2, SelectionOnDisk DEF InspectSelect, TypeOK, DiskInv, Primary
    <1>5. CASE PromoteClear
        BY <1>5, OperationTypes DEF PromoteClear, SetFile, AllPaths, CandidateRoles, Primary
    <1>6. CASE PromoteOpen
        BY <1>6, OperationTypes DEF PromoteOpen, SetFile, AllPaths, CandidateRoles, Primary
    <1>7. CASE PromoteWrite
        BY <1>7, OperationTypes DEF PromoteWrite, SetFile, AllPaths, CandidateRoles, Primary
    <1>8. CASE PromoteRename
        BY <1>8, OperationTypes
        DEF PromoteRename, Rename, AllPaths, CandidateRoles, Primary, Holds, Missing, IsValid
    <1>9. CASE PromoteVerify
        BY <1>2, <1>9 DEF PromoteVerify, Subject, OperationInv, Primary
    <1>10. CASE CleanTemp \/ CleanRecoveryTemp \/ CleanBackupTemp
        BY <1>10, OperationTypes
        DEF CleanTemp, CleanRecoveryTemp, CleanBackupTemp, Clean, SetFile, AllPaths,
            CandidateRoles, Primary, Missing, IsValid, Subject
    <1>11. CASE Recovered
        BY <1>1, <1>2, <1>11
        DEF Recovered, AfterRecovery, Return, OperationInv, Primary
    <1>12. CASE Reconcile
        BY <1>2, <1>12 DEF Reconcile, OperationInv, Subject, Primary
    <1>13. CASE Record \/ RecordWrite \/ RecordVerify
        BY <1>2, <1>13 DEF Record, RecordWrite, RecordVerify, VerifyUpTo, Subject, Primary
    <1>14. CASE VerifyChain
        BY <1>1, <1>2, <1>14 DEF VerifyChain, VerifyUpTo, Return, Primary
    <1>15. ASSUME NEW world \in Worlds, Build(world) PROVE StageInv'
        <2>1. [world |-> world, token |-> request.policy] \in Payload
            BY <1>15 DEF Payload, Request, TypeOK
        <2>2. IsChild(new', base)
            BY <1>15, <2>1, OperationTypes, AppendIsChild DEF Build
        <2>3. QED BY <1>15, <2>2, OperationTypes
            DEF Build, SetFile, AllPaths, CandidateRoles, Primary, Missing, IsValid
    <1>16. CASE SaveOpen
        BY <1>16, OperationTypes DEF SaveOpen, SetFile, AllPaths, CandidateRoles, Primary, Torn, IsValid
    <1>17. CASE SaveWrite
        BY <1>17, OperationTypes DEF SaveWrite, SetFile, AllPaths, CandidateRoles, Primary
    <1>18. CASE Backup \/ BackupWrite
        BY <1>18, OperationTypes
        DEF Backup, BackupWrite, SetFile, AllPaths, CandidateRoles, Primary
    <1>19. CASE BackupRename
        BY <1>19, OperationTypes DEF BackupRename, Rename, AllPaths, CandidateRoles, Primary
    <1>20. CASE Install
        BY <1>20, OperationTypes
        DEF Install, Rename, AllPaths, CandidateRoles, Primary, Holds, Missing, IsValid
    <1>21. CASE VerifyPrimary
        BY <1>2, <1>21 DEF VerifyPrimary, Subject, OperationInv, Primary
    <1>22. CASE Commit \/ Interrupt \/ InspectRefuse
        BY <1>1, <1>2, <1>22 DEF Commit, Interrupt, InspectRefuse
    <1>23. CASE NewWriter \/ UNCHANGED vars
        BY <1>23 DEF NewWriter, vars, Subject, Primary
    <1>24. ASSUME NEW kind \in Kinds, NEW policy \in {0, epoch},
                  NEW check \in BOOLEAN, Begin(kind, policy, check)
           PROVE  StageInv'
        BY <1>24 DEF Begin
    <1>25. QED
        BY <1>3, <1>4, <1>5, <1>6, <1>7, <1>8, <1>9, <1>10, <1>11, <1>12, <1>13, <1>14,
           <1>15, <1>16, <1>17, <1>18, <1>19, <1>20, <1>21, <1>22, <1>23, <1>24
        DEF Next, Recovery, Lineage, Saving, Environment

-----------------------------------------------------------------------------
(***************************************************************************)
(* The theorems.                                                           *)
(***************************************************************************)

\* The inductive invariant holds at every step of every operation, however
\* many operations are interrupted and at whatever call.
THEOREM InvariantHolds == Spec => []IInv
    <1>1. IInv /\ [Next]_vars => IInv'
        BY StepTypeOK, StepOperationInv, StepDiskInv, StepStageInv DEF IInv
    <1>2. QED BY InitIInv, <1>1, PTL DEF Spec

\* selectCandidate never finds two different worlds at the highest generation.
THEOREM NoConflictEver == Spec => []NoGenerationConflict
    <1>1. IInv => NoGenerationConflict
        BY DiskHasNoConflict DEF IInv
    <1>2. QED BY InvariantHolds, <1>1, PTL

\* A save that returned COMMITTED survives every later crash: whoever recovers
\* the store finds that snapshot or a descendant of it.
THEOREM AckedSurvivesAlways == Spec => []AckedSurvives
    <1>1. IInv => AckedSurvives
        BY DiskKeepsAcked DEF IInv
    <1>2. QED BY InvariantHolds, <1>1, PTL

LEMMA HeadIsPrimary == IInv => CommittedHead = Primary
    <1> SUFFICES ASSUME IInv PROVE CommittedHead = Primary
        OBVIOUS
    <1>1. CASE IsValid(files["primary"])
        BY <1>1 DEF CommittedHead, Primary
    <1>2. CASE ~IsValid(files["primary"])
        <2>1. /\ files["backup"].snap \in Seq(Payload)
              /\ IsPrefix(files["backup"].snap, <<>>) /\ Primary = <<>>
            BY <1>2, FileTypes
            DEF IInv, DiskInv, Consistent, IsValid, Primary, AllPaths, CandidateRoles
        <2>2. files["backup"].snap = <<>>
            BY <2>1, EmptySeq, LenProperties DEF IsPrefix
        <2>3. QED BY <1>2, <2>1, <2>2 DEF CommittedHead
    <1>3. QED BY <1>1, <1>2

LEMMA StepRefinesRegister ==
    ASSUME IInv, IInv', [Next]_vars
    PROVE  [Register!Next]_<<CommittedHead, acked>>
    <1>0. (IInv => CommittedHead = Primary)'
        BY HeadIsPrimary, PTL
    <1>1. CommittedHead = Primary /\ CommittedHead' = Primary'
        BY <1>0, HeadIsPrimary
    <1>2. CASE Commit
        <2>1. acked' = acked \cup {new} /\ Primary' = Primary
            BY <1>2, OperationTypes
            DEF Commit, SetFile, Primary, AllPaths, CandidateRoles
        <2>2. new = Primary /\ new # <<>>
            BY <1>2 DEF Commit, IInv, StageInv, CleanupSteps, Subject
        <2>3. QED BY <1>1, <2>1, <2>2 DEF Register!Next, Register!Acknowledge
    <1>3. CASE PromoteRename \/ Install
        <2>1. PICK s \in {base, new} : files'["primary"] = Holds(s) /\ IsChild(s, Primary)
            BY <1>3, OperationTypes
            DEF PromoteRename, Install, Rename, IInv, StageInv, Promoting, TempWritten,
                AllPaths, CandidateRoles
        <2>2. Primary' = s /\ acked' = acked
            BY <1>3, <2>1 DEF Primary, Holds, PromoteRename, Install, History
        <2>3. QED
            BY <1>1, <2>1, <2>2 DEF IsChild, Front, Register!Front, Register!Next, Register!Install
    <1>4. ASSUME Primary' = Primary, acked' = acked
          PROVE  [Register!Next]_<<CommittedHead, acked>>
        BY <1>1, <1>4
    <1>5. ASSUME NEW p \in AllPaths \ {"primary"}, NEW c, SetFile(p, c)
          PROVE  Primary' = Primary
        BY <1>5, OperationTypes DEF SetFile, Primary, AllPaths, CandidateRoles
    <1>6. CASE UNCHANGED <<files, acked>>
        BY <1>4, <1>6 DEF Primary
    <1>7. ASSUME NEW code, Refuse(code)
          PROVE  UNCHANGED <<files, acked>>
        BY <1>7 DEF Refuse, Return, diskVars
    <1>8. CASE PromoteClear \/ PromoteOpen \/ PromoteWrite \/ CleanTemp \/ CleanRecoveryTemp
               \/ CleanBackupTemp \/ (\E world \in Worlds : Build(world)) \/ SaveOpen
               \/ SaveWrite \/ BackupWrite
        BY <1>4, <1>5, <1>8
        DEF PromoteClear, PromoteOpen, PromoteWrite, CleanTemp, CleanRecoveryTemp,
            CleanBackupTemp, Clean, Build, SaveOpen, SaveWrite, BackupWrite, History,
            AllPaths, CandidateRoles
    <1>9. CASE Backup
        BY <1>4, <1>5, <1>6, <1>9 DEF Backup, History, AllPaths, CandidateRoles
    <1>10. CASE BackupRename
        <2>1. Primary' = Primary /\ acked' = acked
            BY <1>10, OperationTypes
            DEF BackupRename, Rename, Primary, History, AllPaths, CandidateRoles
        <2>2. QED BY <1>4, <2>1
    <1>11. CASE InspectRefuse \/ PromoteVerify \/ Recovered \/ Lineage \/ VerifyPrimary
                \/ Interrupt
        BY <1>6, <1>7, <1>11
        DEF InspectRefuse, PromoteVerify, Recovered, AfterRecovery, Lineage, Reconcile,
            Record, RecordWrite, RecordVerify, VerifyChain, VerifyUpTo, VerifyPrimary,
            Interrupt, Return, Goto, History, diskVars
    <1>12. CASE InspectEmpty \/ InspectFencedTransients \/ InspectSelect \/ NewWriter
                \/ (\E kind \in Kinds, policy \in {0, epoch}, check \in BOOLEAN :
                      Begin(kind, policy, check))
                \/ UNCHANGED vars
        BY <1>6, <1>12
        DEF InspectEmpty, InspectFencedTransients, InspectSelect, NewWriter, Begin,
            History, diskVars, vars
    <1>13. QED
        BY <1>2, <1>3, <1>8, <1>9, <1>10, <1>11, <1>12
        DEF Next, Recovery, Lineage, Saving, Environment

\* The store implements the register: its durable world moves only to a child
\* of itself, and only the durable world is ever acknowledged.
THEOREM Refinement == Spec => ImplementsRegister
    <1>1. Init => Register!Init
        BY DEF Init, Register!Init, CommittedHead, IsValid, Missing, AllPaths, CandidateRoles
    <1>2. IInv /\ IInv' /\ [Next]_vars => [Register!Next]_<<CommittedHead, acked>>
        BY StepRefinesRegister
    <1>3. QED
        BY InvariantHolds, <1>1, <1>2, PTL
        DEF Spec, ImplementsRegister, Register!Spec, Register!registerVars

-----------------------------------------------------------------------------
(***************************************************************************)
(* The lineage of what the files hold.                                     *)
(***************************************************************************)
LEMMA InitLineageInv == Init => LineageInv
    BY DEF Init, LineageInv, ParentRecorded, Missing, Promoting, SaveSteps, AllPaths,
           CandidateRoles

\* Every file holds what it held, what another file or the running operation
\* held, or nothing.
LEMMA LineageOfFiles ==
    ASSUME LineageInv, records \subseteq records',
           \A p \in AllPaths : \/ files'[p].snap = <<>>
                               \/ \E q \in AllPaths : files'[p] = files[q]
                               \/ ParentRecorded(files'[p].snap)
    PROVE  \A p \in AllPaths : ParentRecorded(files[p].snap)'
    <1>1. SUFFICES ASSUME NEW p \in AllPaths, files'[p].snap # <<>>
                   PROVE  ChainRecorded(records', Front(files'[p].snap))
        BY DEF ParentRecorded
    <1>2. ChainRecorded(records, Front(files'[p].snap))
        BY <1>1 DEF LineageInv, ParentRecorded
    <1>3. QED BY <1>2, ChainStaysRecorded

LEMMA StepLineageInv ==
    ASSUME TypeOK, OperationInv, LineageInv, [Next]_vars
    PROVE  LineageInv'
    <1> USE DEF Goto, Running, History, diskVars
    <1>0. files \in [AllPaths -> Content] /\ base \in Seq(Payload) /\ records \subseteq records
          /\ DOMAIN files = AllPaths
        BY DEF TypeOK
    <1>1. ASSUME records' = records, pc' \notin Promoting \cup SaveSteps,
                 \A p \in AllPaths : \/ files'[p].snap = <<>>
                                     \/ \E q \in AllPaths : files'[p] = files[q]
          PROVE  LineageInv'
        <2>1. \A p \in AllPaths : ParentRecorded(files[p].snap)'
            BY <1>0, <1>1, LineageOfFiles
        <2>2. QED BY <1>1, <2>1 DEF LineageInv, SaveSteps
    <1>2. ASSUME NEW result, Stop(result), UNCHANGED diskVars
          PROVE  LineageInv'
        BY <1>1, <1>2 DEF Stop, Promoting, SaveSteps
    <1>3. ASSUME NEW code, Refuse(code) PROVE LineageInv'
        BY <1>2, <1>3 DEF Refuse, Return
    <1>4. CASE InspectEmpty \/ InspectFencedTransients \/ NewWriter \/ Reconcile
               \/ (\E kind \in Kinds, policy \in {0, epoch}, check \in BOOLEAN :
                      Begin(kind, policy, check))
        BY <1>1, <1>3, <1>4
        DEF InspectEmpty, InspectFencedTransients, NewWriter, Reconcile, Begin, Promoting,
            SaveSteps
    <1>5. CASE InspectRefuse \/ Interrupt
        BY <1>3, <1>5 DEF InspectRefuse, Interrupt
    <1>6. CASE InspectSelect
        <2>1. base' \in EligibleValid(files, request.policy)
            BY <1>0, <1>6, SelectedIsHighest, HighestTypes DEF InspectSelect
        <2>2. PICK r \in CandidateRoles : base' = files[r].snap
            BY <2>1 DEF EligibleValid
        <2>3. ParentRecorded(base')
            BY <2>2 DEF LineageInv, AllPaths
        <2>4. pc' \in {"cleanTemp", "promoteClear"} /\ UNCHANGED <<files, records, new>>
            BY <1>6 DEF InspectSelect
        <2>5. QED BY <2>3, <2>4 DEF LineageInv, ParentRecorded, SaveSteps
    <1>7. ASSUME NEW p \in AllPaths, NEW c \in {Missing, Torn}, SetFile(p, c),
                 records' = records
          PROVE  \A q \in AllPaths : ParentRecorded(files[q].snap)'
        BY <1>0, <1>7, LineageOfFiles DEF SetFile, Missing, Torn
    <1>8. CASE PromoteClear \/ PromoteOpen
        BY <1>7, <1>8
        DEF PromoteClear, PromoteOpen, LineageInv, ParentRecorded, Promoting, SaveSteps,
            AllPaths, CandidateRoles
    <1>9. CASE PromoteWrite
        <2>1. \A q \in AllPaths : ParentRecorded(files[q].snap)'
            BY <1>0, <1>9, LineageOfFiles
            DEF PromoteWrite, SetFile, Holds, LineageInv, Promoting, AllPaths, CandidateRoles
        <2>2. QED BY <1>9, <2>1
            DEF PromoteWrite, LineageInv, ParentRecorded, Promoting, SaveSteps
    <1>10. ASSUME NEW from \in AllPaths, NEW to \in AllPaths, Rename(from, to),
                  records' = records
           PROVE  \A q \in AllPaths : ParentRecorded(files[q].snap)'
        BY <1>0, <1>10, LineageOfFiles DEF Rename, Missing
    <1>11. CASE PromoteRename
        BY <1>10, <1>11
        DEF PromoteRename, LineageInv, Promoting, SaveSteps, AllPaths, CandidateRoles
    <1>12. CASE PromoteVerify
        BY <1>1, <1>3, <1>12 DEF PromoteVerify, Promoting, SaveSteps
    <1>13. CASE CleanTemp \/ CleanRecoveryTemp \/ CleanBackupTemp
        BY <1>7, <1>13
        DEF CleanTemp, CleanRecoveryTemp, CleanBackupTemp, Clean, LineageInv, Promoting,
            SaveSteps, AllPaths, CandidateRoles
    <1>14. CASE Recovered
        <2>1. CASE request.kind = "acquire"
            BY <1>2, <1>14, <2>1 DEF Recovered, Return
        <2>2. CASE request.kind # "acquire" /\ base # <<>>
            BY <1>1, <1>3, <1>14, <2>2 DEF Recovered, AfterRecovery, Promoting, SaveSteps
        <2>3. CASE request.kind # "acquire" /\ base = <<>>
            BY <1>3, <1>14, <2>3, EmptyChainRecorded
            DEF Recovered, AfterRecovery, OperationInv, RecoverySteps, LineageInv,
                ParentRecorded, Promoting
        <2>4. QED BY <2>1, <2>2, <2>3
    <1>15. CASE Record
        BY <1>1, <1>3, <1>15 DEF Record, Promoting, SaveSteps
    <1>16. CASE RecordWrite
        <2>1. records \subseteq records' /\ files' = files /\ pc' = "recordVerify"
            BY <1>16 DEF RecordWrite
        <2>2. \A p \in AllPaths : ParentRecorded(files[p].snap)'
            BY <2>1, LineageOfFiles
        <2>3. QED BY <2>1, <2>2 DEF LineageInv, Promoting, SaveSteps
    <1>17. CASE RecordVerify
        BY <1>1, <1>3, <1>17 DEF RecordVerify, VerifyUpTo, Promoting, SaveSteps
    <1>18. CASE VerifyChain
        <2>1. CASE request.kind = "load"
            BY <1>2, <1>3, <1>18, <2>1 DEF VerifyChain, VerifyUpTo, Return
        <2>2. CASE request.kind # "load" /\ ~\E code \in Refusals : Refuse(code)
            <3>1. ChainRecorded(records, Ancestor(Subject, Len(base))) /\ pc' = "build"
                  /\ UNCHANGED <<files, records, base, new>>
                BY <1>18, <2>2 DEF VerifyChain, VerifyUpTo, Refusals
            <3>2. Ancestor(Subject, Len(base)) = base
                BY <1>0, <1>18, WholeAncestor DEF VerifyChain, OperationInv, Subject
            <3>3. new = <<>>
                BY <1>18 DEF VerifyChain, OperationInv
            <3>4. QED BY <3>1, <3>2, <3>3 DEF LineageInv, ParentRecorded, Promoting
        <2>3. QED BY <1>3, <2>1, <2>2
    <1>19. ASSUME NEW world \in Worlds, Build(world) PROVE LineageInv'
        <2>1. [world |-> world, token |-> request.policy] \in Payload
            BY <1>19 DEF Payload, Request, TypeOK
        <2>2. Front(new') = base
            BY <1>0, <1>19, <2>1, AppendIsChild DEF Build, IsChild
        <2>3. ChainRecorded(records, base)
            BY <1>19 DEF Build, LineageInv
        <2>4. \A q \in AllPaths : ParentRecorded(files[q].snap)'
            BY <1>7, <1>19 DEF Build, AllPaths, CandidateRoles
        <2>5. QED BY <1>19, <2>2, <2>3, <2>4
            DEF Build, LineageInv, ParentRecorded, Promoting
    <1>20. CASE SaveOpen
        BY <1>7, <1>20
        DEF SaveOpen, LineageInv, ParentRecorded, Promoting, SaveSteps, AllPaths, CandidateRoles
    <1>21. CASE SaveWrite
        <2>1. \A q \in AllPaths : ParentRecorded(files[q].snap)'
            BY <1>0, <1>21, LineageOfFiles
            DEF SaveWrite, SetFile, Holds, LineageInv, SaveSteps, AllPaths, CandidateRoles
        <2>2. QED BY <1>21, <2>1
            DEF SaveWrite, LineageInv, ParentRecorded, Promoting, SaveSteps
    <1>22. CASE Backup \/ BackupWrite
        <2>1. \A q \in AllPaths : ParentRecorded(files[q].snap)'
            BY <1>0, <1>22, LineageOfFiles
            DEF Backup, BackupWrite, SetFile, Torn, AllPaths, CandidateRoles
        <2>2. QED BY <1>22, <2>1
            DEF Backup, BackupWrite, LineageInv, ParentRecorded, Promoting, SaveSteps
    <1>23. CASE BackupRename \/ Install
        BY <1>10, <1>23
        DEF BackupRename, Install, LineageInv, ParentRecorded, Promoting, SaveSteps, AllPaths,
            CandidateRoles
    <1>24. CASE VerifyPrimary
        BY <1>1, <1>3, <1>24 DEF VerifyPrimary, Promoting, SaveSteps
    <1>25. CASE Commit
        BY <1>7, <1>25
        DEF Commit, Stop, LineageInv, Promoting, SaveSteps, AllPaths, CandidateRoles
    <1>26. CASE UNCHANGED vars
        BY <1>26 DEF vars, LineageInv, ParentRecorded
    <1>27. QED
        BY <1>4, <1>5, <1>6, <1>8, <1>9, <1>11, <1>12, <1>13, <1>14, <1>15, <1>16, <1>17,
           <1>18, <1>19, <1>20, <1>21, <1>22, <1>23, <1>24, <1>25, <1>26
        DEF Next, Recovery, Lineage, Saving, Environment

LEMMA LineageHasNoGap ==
    ASSUME TypeOK, LineageInv
    PROVE  LineageReconcilable
    <1>1. SUFFICES ASSUME NEW policy \in Policies, NEW s \in Highest(files, policy)
                   PROVE  ~ReconciliationGap(records, files, s)
        BY DEF LineageReconcilable
    <1>2. s \in EligibleValid(files, policy) /\ s \in Seq(Payload) /\ s # <<>>
        BY HighestTypes DEF TypeOK
    <1>3. PICK r \in CandidateRoles : s = files[r].snap
        BY <1>2 DEF EligibleValid
    <1>4. ChainRecorded(records, Front(s))
        BY <1>2, <1>3 DEF LineageInv, ParentRecorded, AllPaths
    <1>5. QED BY <1>2, <1>4, RecordedParentHasNoGap

\* The repair of a lineage never finds an ancestor that is neither recorded nor
\* still a candidate file, whatever saves and recoveries were interrupted.
THEOREM LineageAlwaysReconcilable == Spec => []LineageReconcilable
    <1>1. IInv /\ LineageInv /\ [Next]_vars => LineageInv'
        BY StepLineageInv DEF IInv
    <1>2. Spec => []LineageInv
        BY InvariantHolds, InitLineageInv, <1>1, PTL DEF Spec
    <1>3. IInv /\ LineageInv => LineageReconcilable
        BY LineageHasNoGap DEF IInv
    <1>4. QED BY InvariantHolds, <1>2, <1>3, PTL

=============================================================================
