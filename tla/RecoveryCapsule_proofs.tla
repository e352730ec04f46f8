----------------------- MODULE RecoveryCapsule_proofs -----------------------
(***************************************************************************)
(* Proofs about the recovery capsule and about a store whose primary is    *)
(* damaged from outside.                                                   *)
(***************************************************************************)
EXTENDS RecoveryCapsule, AtomicStore_proofs

-----------------------------------------------------------------------------
(***************************************************************************)
(* Files on one line of descent: what keeps them there.  fs is what the    *)
(* files were, gs what they become.                                        *)
(***************************************************************************)

\* Transient files are deleted or opened.
LEMMA InLineAfterClearing ==
    ASSUME NEW fs \in [AllPaths -> Content], NEW gs, NEW acks, InLine(fs, acks),
           \A q \in AllPaths : \/ gs[q] = fs[q]
                               \/ /\ q \in TransientRoles \cup {"backupTemp"}
                                  /\ gs[q] \in {Missing, Torn}
    PROVE  InLine(gs, acks)
    <1>1. \A q \in AllPaths : gs[q] = fs[q] \/ (gs[q].snap = <<>> /\ ~IsValid(gs[q]))
        BY DEF Missing, Torn, IsValid
    <1>2. gs["primary"] = fs["primary"] /\ gs["backup"] = fs["backup"]
        BY DEF AllPaths, CandidateRoles, TransientRoles
    <1>3. \A q \in AllPaths : IsPrefix(<<>>, fs[q].snap)
        BY SnapTypes, PrefixReflexive
    <1>4. QED BY <1>1, <1>2, <1>3 DEF InLine, AllPaths, CandidateRoles, TransientRoles

\* A descendant of backup and primary reaches a transient file.
LEMMA InLineAfterWriting ==
    ASSUME NEW fs \in [AllPaths -> Content], NEW gs, NEW acks, InLine(fs, acks),
           NEW s \in Seq(Payload), NEW p \in TransientRoles,
           gs[p] = Holds(s), \A q \in AllPaths \ {p} : gs[q] = fs[q],
           IsPrefix(fs["backup"].snap, s), IsPrefix(fs["primary"].snap, s),
           p = "recoveryTemp" /\ IsValid(fs["temp"]) => IsPrefix(s, fs["temp"].snap),
           p = "temp" => ~IsValid(fs["recoveryTemp"])
    PROVE  InLine(gs, acks)
    <1>1. gs["primary"] = fs["primary"] /\ gs["backup"] = fs["backup"]
        BY DEF AllPaths, CandidateRoles, TransientRoles
    <1>2. gs[p].exists /\ gs[p].snap = s
        BY DEF Holds
    <1>3. IsPrefix(<<>>, s)
        BY PrefixReflexive
    <1>4. CASE p = "temp"
        BY <1>1, <1>2, <1>3, <1>4
        DEF InLine, IsValid, AllPaths, CandidateRoles, TransientRoles
    <1>5. CASE p = "recoveryTemp"
        BY <1>1, <1>2, <1>3, <1>5
        DEF InLine, IsValid, AllPaths, CandidateRoles, TransientRoles
    <1>6. QED BY <1>4, <1>5 DEF TransientRoles

\* The copy for the backup changes, which no reader sees.
LEMMA InLineAfterCopying ==
    ASSUME NEW fs, NEW gs, NEW acks, InLine(fs, acks),
           \A q \in CandidateRoles : gs[q] = fs[q],
           IsValid(gs["backupTemp"]) => gs["backupTemp"].exists
    PROVE  InLine(gs, acks)
    BY DEF InLine, AllPaths, CandidateRoles, TransientRoles

\* The backup becomes the double of a primary that descends from it.
LEMMA InLineAfterBackup ==
    ASSUME NEW fs \in [AllPaths -> Content], NEW gs, NEW acks \in SUBSET Seq(Payload),
           InLine(fs, acks), IsPrefix(fs["backup"].snap, fs["primary"].snap),
           \A q \in CandidateRoles \ {"backup"} : gs[q] = fs[q],
           gs["backup"] = fs["primary"], gs["backupTemp"] = Missing
    PROVE  InLine(gs, acks)
    <1> DEFINE primary == fs["primary"].snap
    <1>1. primary \in Seq(Payload) /\ fs["backup"].snap \in Seq(Payload)
        BY SnapTypes DEF AllPaths, CandidateRoles
    <1>2. IsPrefix(primary, primary)
        BY <1>1, PrefixReflexive
    <1>3. ASSUME NEW a \in acks PROVE a # <<>> /\ IsPrefix(Front(a), primary)
        <2>1. a \in Seq(Payload) /\ a # <<>> /\ IsPrefix(Front(a), fs["backup"].snap)
            BY DEF InLine
        <2>2. Front(a) \in Seq(Payload)
            BY <2>1, FrontIsShorter
        <2>3. QED BY <1>1, <2>1, <2>2, PrefixTransitive
    <1>4. gs["primary"] = fs["primary"] /\ gs["temp"] = fs["temp"]
          /\ gs["recoveryTemp"] = fs["recoveryTemp"] /\ ~IsValid(gs["backupTemp"])
        BY DEF CandidateRoles, Missing, IsValid
    <1>5. QED BY <1>2, <1>3, <1>4 DEF InLine, AllPaths, CandidateRoles, TransientRoles

\* A descendant of the backup takes the primary's place.
LEMMA InLineAfterInstall ==
    ASSUME NEW fs \in [AllPaths -> Content], NEW gs, NEW acks, InLine(fs, acks),
           NEW s \in Seq(Payload), IsPrefix(fs["backup"].snap, s),
           gs["primary"] = Holds(s), ~IsValid(gs["recoveryTemp"]),
           gs["recoveryTemp"].snap = <<>>,
           IsValid(gs["temp"]) => gs["temp"] = fs["temp"] /\ IsPrefix(s, fs["temp"].snap),
           \A q \in {"backup", "backupTemp"} : gs[q] = fs[q]
    PROVE  InLine(gs, acks)
    <1>1. gs["primary"].exists /\ gs["primary"].snap = s
        BY DEF Holds
    <1>2. fs["temp"].snap \in Seq(Payload)
        BY SnapTypes DEF AllPaths, CandidateRoles
    <1>3. IsPrefix(<<>>, fs["temp"].snap)
        BY <1>2, PrefixReflexive
    <1>4. QED BY <1>1, <1>3 DEF InLine, AllPaths, CandidateRoles, TransientRoles

\* The parent of an acknowledged snapshot is in the backup.
LEMMA InLineAfterCommit ==
    ASSUME NEW fs, NEW acks, InLine(fs, acks), NEW s, s # <<>>,
           IsPrefix(Front(s), fs["backup"].snap)
    PROVE  InLine(fs, acks \cup {s})
    BY DEF InLine

\* The primary is damaged.
LEMMA InLineAfterDamage ==
    ASSUME NEW fs \in [AllPaths -> Content], NEW gs, NEW acks, InLine(fs, acks),
           gs["primary"] = Torn, \A q \in AllPaths \ {"primary"} : gs[q] = fs[q]
    PROVE  InLine(gs, acks)
    <1>1. gs["primary"].snap = <<>> /\ ~IsValid(gs["primary"])
        BY DEF Torn, IsValid
    <1>2. \A q \in AllPaths : IsPrefix(<<>>, fs[q].snap)
        BY SnapTypes, PrefixReflexive
    <1>3. QED BY <1>1, <1>2 DEF InLine, AllPaths, CandidateRoles, TransientRoles

\* All that is valid is a copy of one snapshot.
LEMMA InLineOfCopies ==
    ASSUME NEW fs, NEW gs, NEW acks, InLine(fs, acks), NEW s \in Seq(Payload),
           gs["backup"] = fs["backup"],
           \A q \in AllPaths : IsValid(gs[q]) => gs[q].exists,
           \A r \in CandidateRoles : IsValid(gs[r]) => gs[r].snap = s
    PROVE  InLine(gs, acks)
    <1>1. IsPrefix(s, s) /\ IsPrefix(<<>>, s)
        BY PrefixReflexive
    <1>2. \A r \in CandidateRoles : gs[r].snap \in {<<>>, s}
        BY DEF IsValid
    <1>3. QED BY <1>1, <1>2 DEF InLine, IsValid, CandidateRoles, TransientRoles

\* What a recovery selects descends from the primary and the backup.
LEMMA SelectionInLine ==
    ASSUME NEW fs \in [AllPaths -> Content], NEW acks, InLine(fs, acks), NEW policy,
           EligibleValid(fs, policy) # {}
    PROVE  LET s == Selected(fs, policy) IN
             /\ s \in Seq(Payload) /\ s # <<>>
             /\ IsPrefix(fs["backup"].snap, s)
             /\ IsPrefix(fs["primary"].snap, s)
             /\ IsValid(fs["temp"]) => IsPrefix(s, fs["temp"].snap)
    <1>1. PICK s : s = Selected(fs, policy) OBVIOUS
    <1>2. s \in Highest(fs, policy) /\ s \in EligibleValid(fs, policy)
          /\ s \in Seq(Payload) /\ s # <<>>
        BY <1>1, SelectedIsHighest, HighestTypes
    <1>3. PICK r \in CandidateRoles : s = fs[r].snap /\ IsValid(fs[r])
        BY <1>2 DEF EligibleValid
    <1>4. /\ fs["primary"].snap \in Seq(Payload) /\ fs["backup"].snap \in Seq(Payload)
          /\ IsPrefix(s, s) /\ IsPrefix(<<>>, s)
        BY <1>2, SnapTypes, PrefixReflexive DEF AllPaths, CandidateRoles
    <1>5. IsPrefix(fs["backup"].snap, s)
        BY <1>3 DEF InLine
    <1>6. IsPrefix(fs["primary"].snap, s)
        <2>1. CASE fs["primary"].snap = <<>>
            BY <1>4, <2>1
        <2>2. CASE r = "backup" /\ fs["primary"].snap # <<>>
            <3>1. IsPrefix(s, fs["primary"].snap)
                BY <1>3, <2>2 DEF InLine, CandidateRoles, IsValid
            <3>2. Len(s) >= Len(fs["primary"].snap)
                BY <1>2, <2>2, PrimaryIsEligible DEF Highest, Generation
            <3>3. s = fs["primary"].snap
                BY <1>2, <1>4, <3>1, <3>2, LongestPrefix
            <3>4. QED BY <1>4, <3>3
        <2>3. CASE r = "primary"
            BY <1>3, <1>4, <2>3
        <2>4. CASE r \in TransientRoles
            BY <1>3, <2>4 DEF InLine
        <2>5. QED BY <2>1, <2>2, <2>3, <2>4 DEF CandidateRoles, TransientRoles
    <1>7. IsValid(fs["temp"]) => IsPrefix(s, fs["temp"].snap)
        BY <1>3, <1>4 DEF InLine, CandidateRoles, TransientRoles
    <1>8. QED BY <1>1, <1>2, <1>5, <1>6, <1>7

\* Every reader finds the parent of an acknowledged snapshot or a descendant.
LEMMA InLineKeepsParents ==
    ASSUME NEW fs \in [AllPaths -> Content], NEW acks \in SUBSET Seq(Payload),
           InLine(fs, acks), NEW policy, NEW a \in acks, Front(a) # <<>>
    PROVE  /\ EligibleValid(fs, policy) # {}
           /\ \A s \in Highest(fs, policy) : IsPrefix(Front(a), s)
    <1> DEFINE backup == fs["backup"].snap
    <1>1. a # <<>> /\ IsPrefix(Front(a), backup)
        BY DEF InLine
    <1>2. Front(a) \in Seq(Payload) /\ backup \in Seq(Payload)
        BY <1>1, FrontIsShorter, SnapTypes DEF AllPaths, CandidateRoles
    <1>3. backup # <<>>
        BY <1>1, <1>2, EmptySeq, LenProperties DEF IsPrefix
    <1>4. backup \in EligibleValid(fs, policy)
        BY <1>3 DEF EligibleValid, Eligible, IsValid, CandidateRoles, TransientRoles
    <1>5. ASSUME NEW s \in Highest(fs, policy) PROVE IsPrefix(Front(a), s)
        <2>1. s \in EligibleValid(fs, policy) /\ s \in Seq(Payload)
            BY HighestTypes
        <2>2. IsPrefix(backup, s)
            BY <2>1 DEF EligibleValid, InLine
        <2>3. QED BY <1>1, <1>2, <2>1, <2>2, PrefixTransitive
    <1>6. QED BY <1>4, <1>5

-----------------------------------------------------------------------------
(***************************************************************************)
(* The steps of the store itself.                                          *)
(***************************************************************************)
LEMMA StoreStepLineInv ==
    ASSUME TypeOK, OperationInv, LineInv, DamageStageInv, [Next]_vars
    PROVE  LineInv'
    <1> USE DEF LineInv
    <1>0. files \in [AllPaths -> Content] /\ acked \in SUBSET Seq(Payload)
          /\ DOMAIN files = AllPaths /\ base \in Seq(Payload) /\ new \in Seq(Payload)
        BY DEF TypeOK
    <1>1. ASSUME UNCHANGED <<files, acked>> PROVE LineInv'
        BY <1>1 DEF InLine
    <1>2. ASSUME NEW p \in {"temp", "recoveryTemp", "backupTemp"},
                 SetFile(p, Missing) \/ SetFile(p, Torn), acked' = acked
          PROVE  LineInv'
        <2>1. \A q \in AllPaths :
                  files'[q] = files[q] \/ (q = p /\ files'[q] \in {Missing, Torn})
            BY <1>0, <1>2 DEF SetFile, AllPaths, CandidateRoles
        <2>2. QED BY <1>0, <1>2, <2>1, InLineAfterClearing DEF TransientRoles
    <1>3. CASE PromoteWrite
        <2>1. /\ \A q \in AllPaths \ {"recoveryTemp"} : files'[q] = files[q]
              /\ files'["recoveryTemp"] = Holds(base) /\ acked' = acked
            BY <1>0, <1>3 DEF PromoteWrite, SetFile, AllPaths, CandidateRoles, History
        <2>2. /\ IsPrefix(files["backup"].snap, base) /\ IsPrefix(files["primary"].snap, base)
              /\ IsValid(files["temp"]) => IsPrefix(base, files["temp"].snap)
            BY <1>3 DEF PromoteWrite, DamageStageInv, Promoting, Primary
        <2>3. QED BY <1>0, <2>1, <2>2, InLineAfterWriting DEF TransientRoles
    <1>4. CASE PromoteRename
        <2>1. /\ files["recoveryTemp"] = Holds(base) /\ IsPrefix(files["backup"].snap, base)
              /\ IsValid(files["temp"]) => IsPrefix(base, files["temp"].snap)
            BY <1>4 DEF PromoteRename, DamageStageInv, Promoting
        <2>2. /\ files'["primary"] = Holds(base) /\ files'["recoveryTemp"] = Missing
              /\ \A q \in {"temp", "backup", "backupTemp"} : files'[q] = files[q]
              /\ acked' = acked
            BY <1>0, <1>4, <2>1
            DEF PromoteRename, Rename, AllPaths, CandidateRoles, History
        <2>3. QED BY <1>0, <2>1, <2>2, InLineAfterInstall DEF Missing, IsValid
    <1>5. CASE SaveWrite
        <2>1. /\ \A q \in AllPaths \ {"temp"} : files'[q] = files[q]
              /\ files'["temp"] = Holds(new) /\ acked' = acked
            BY <1>0, <1>5 DEF SaveWrite, SetFile, AllPaths, CandidateRoles, History
        <2>2. /\ base = files["primary"].snap /\ (base = <<>> => files["backup"].snap = <<>>)
              /\ IsChild(new, base) /\ ~IsValid(files["recoveryTemp"])
            BY <1>5 DEF SaveWrite, DamageStageInv, SaveSteps, Primary, Installed
        <2>3. IsPrefix(base, new) /\ IsPrefix(<<>>, new)
            BY <1>0, <2>2, ChildIsLonger, PrefixReflexive
        <2>4. IsPrefix(files["backup"].snap, new)
            <3>1. CASE base = <<>>
                BY <2>2, <2>3, <3>1
            <3>2. CASE base # <<>>
                <4>1. IsPrefix(files["backup"].snap, base)
                    BY <2>2, <3>2 DEF InLine, IsValid, CandidateRoles
                <4>2. files["backup"].snap \in Seq(Payload)
                    BY <1>0, SnapTypes DEF AllPaths, CandidateRoles
                <4>3. QED BY <1>0, <2>3, <4>1, <4>2, PrefixTransitive
            <3>3. QED BY <3>1, <3>2
        <2>5. QED BY <1>0, <2>1, <2>2, <2>3, <2>4, InLineAfterWriting DEF TransientRoles
    <1>6. CASE BackupWrite
        <2>1. /\ \A q \in AllPaths \ {"backupTemp"} : files'[q] = files[q]
              /\ files'["backupTemp"] = files["primary"] /\ acked' = acked
            BY <1>0, <1>6 DEF BackupWrite, SetFile, AllPaths, CandidateRoles, History
        <2>2. IsValid(files["primary"]) => files["primary"].exists
            BY DEF InLine, AllPaths, CandidateRoles
        <2>3. QED BY <2>1, <2>2, InLineAfterCopying DEF AllPaths, CandidateRoles
    <1>7. CASE BackupRename
        <2>1. /\ files["backupTemp"] = files["primary"] /\ base = files["primary"].snap
              /\ base = <<>> => files["backup"].snap = <<>>
            BY <1>7 DEF BackupRename, DamageStageInv, TempWritten, Installed, Primary
        <2>2. /\ \A q \in CandidateRoles \ {"backup"} : files'[q] = files[q]
              /\ files'["backup"] = files["primary"] /\ files'["backupTemp"] = Missing
              /\ acked' = acked
            BY <1>0, <1>7, <2>1
            DEF BackupRename, Rename, AllPaths, CandidateRoles, History
        <2>3. IsPrefix(files["backup"].snap, files["primary"].snap)
            <3>1. CASE base = <<>>
                BY <1>0, <2>1, <3>1, PrefixReflexive
            <3>2. CASE base # <<>>
                BY <2>1, <3>2 DEF InLine, IsValid, CandidateRoles
            <3>3. QED BY <3>1, <3>2
        <2>4. QED BY <1>0, <2>2, <2>3, InLineAfterBackup
    <1>8. CASE Install
        <2>1. /\ files["temp"] = Holds(new) /\ ~IsValid(files["recoveryTemp"])
            BY <1>8 DEF Install, DamageStageInv, TempWritten, SaveSteps
        <2>2. /\ files'["primary"] = Holds(new) /\ files'["temp"] = Missing
              /\ \A q \in {"recoveryTemp", "backup", "backupTemp"} : files'[q] = files[q]
              /\ acked' = acked
            BY <1>0, <1>8, <2>1
            DEF Install, Rename, AllPaths, CandidateRoles, History
        <2>3. new # <<>>
            BY <1>8 DEF Install, OperationInv, SaveSteps
        <2>4. IsPrefix(files["backup"].snap, new)
            BY <2>1, <2>3 DEF InLine, IsValid, Holds, CandidateRoles
        <2>5. QED BY <1>0, <2>1, <2>2, <2>4, InLineAfterInstall DEF Missing, IsValid
    <1>9. CASE Commit
        <2>1. /\ \A q \in CandidateRoles : files'[q] = files[q]
              /\ files'["backupTemp"] = Missing /\ acked' = acked \cup {new}
            BY <1>0, <1>9 DEF Commit, SetFile, AllPaths, CandidateRoles
        <2>2. new # <<>> /\ IsPrefix(Front(new), files["backup"].snap)
            BY <1>9 DEF Commit, DamageStageInv, CleanupSteps
        <2>3. InLine(files', acked)
            BY <2>1, InLineAfterCopying DEF Missing, IsValid
        <2>4. IsPrefix(Front(new), files'["backup"].snap)
            BY <2>1, <2>2 DEF CandidateRoles
        <2>5. QED BY <2>1, <2>2, <2>3, <2>4, InLineAfterCommit
    <1>10. CASE PromoteClear \/ PromoteOpen \/ CleanTemp \/ CleanRecoveryTemp
                \/ CleanBackupTemp \/ SaveOpen \/ \E world \in Worlds : Build(world)
        BY <1>2, <1>10
        DEF PromoteClear, PromoteOpen, CleanTemp, CleanRecoveryTemp, CleanBackupTemp,
            Clean, SaveOpen, Build, History
    <1>11. CASE Backup
        BY <1>1, <1>2, <1>11 DEF Backup, History
    <1>12. CASE UNCHANGED vars
        BY <1>1, <1>12 DEF vars
    <1>13. ASSUME NEW code, Refuse(code) PROVE LineInv'
        BY <1>1, <1>13 DEF Refuse, Return, diskVars
    <1>14. CASE InspectRefuse \/ PromoteVerify \/ Recovered \/ Lineage \/ VerifyPrimary
                \/ Interrupt
        BY <1>1, <1>13, <1>14
        DEF InspectRefuse, PromoteVerify, Recovered, AfterRecovery, Lineage, Reconcile,
            Record, RecordWrite, RecordVerify, VerifyChain, VerifyUpTo, VerifyPrimary,
            Interrupt, Return, Goto, History, diskVars
    <1>15. CASE InspectEmpty \/ InspectFencedTransients \/ InspectSelect \/ NewWriter
                \/ \E kind \in Kinds, policy \in {0, epoch}, check \in BOOLEAN :
                      Begin(kind, policy, check)
        BY <1>1, <1>15
        DEF InspectEmpty, InspectFencedTransients, InspectSelect, NewWriter, Begin,
            History, diskVars
    <1>16. QED
        BY <1>3, <1>4, <1>5, <1>6, <1>7, <1>8, <1>9, <1>10, <1>11, <1>12, <1>14, <1>15
        DEF Next, Recovery, Lineage, Saving, Environment

LEMMA StoreStepDamageStageInv ==
    ASSUME TypeOK, OperationInv, LineInv, DamageStageInv, [Next]_vars
    PROVE  DamageStageInv'
    <1> USE DEF DamageStageInv, Installed, Goto, Running, History, diskVars, Promoting,
                TempWritten, Recording, RecoverySteps, LineageSteps, SaveSteps, CleanupSteps
    <1>0. files \in [AllPaths -> Content] /\ DOMAIN files = AllPaths
          /\ base \in Seq(Payload) /\ new \in Seq(Payload)
        BY DEF TypeOK
    <1>1. ASSUME NEW result, Stop(result) PROVE DamageStageInv'
        BY <1>1 DEF Stop
    <1>2. ASSUME NEW code, Refuse(code) PROVE DamageStageInv'
        BY <1>1, <1>2 DEF Refuse, Return
    <1>3. CASE InspectEmpty \/ InspectFencedTransients
        <2>1. Primary = <<>> /\ files["backup"].snap = <<>>
            BY <1>3
            DEF InspectEmpty, InspectFencedTransients, FencedTransientsOnly, AnyExisting,
                LineInv, InLine, AllPaths, CandidateRoles, TransientRoles, IsValid, Primary
        <2>2. CASE InspectEmpty
            <3>1. ~IsValid(files["temp"]) /\ ~IsValid(files["recoveryTemp"])
                BY <2>2 DEF InspectEmpty, AnyExisting, LineInv, InLine, AllPaths, CandidateRoles
            <3>2. QED BY <2>1, <2>2, <3>1 DEF InspectEmpty, Primary
        <2>3. CASE InspectFencedTransients
            BY <2>1, <2>3 DEF InspectFencedTransients, Subject, OperationInv, Primary
        <2>4. QED BY <1>3, <2>2, <2>3
    <1>4. CASE InspectSelect
        <2>1. /\ base' # <<>>
              /\ IsPrefix(files["backup"].snap, base') /\ IsPrefix(Primary, base')
              /\ IsValid(files["temp"]) => IsPrefix(base', files["temp"].snap)
            BY <1>0, <1>4, SelectionInLine DEF InspectSelect, LineInv, Primary
        <2>2. CASE files["primary"] = Holds(base')
            <3>1. Primary = base'
                BY <2>2 DEF Primary, Holds
            <3>2. QED BY <1>4, <2>1, <2>2, <3>1 DEF InspectSelect, Subject, OperationInv, Primary
        <2>3. CASE files["primary"] # Holds(base')
            BY <1>4, <2>1, <2>3 DEF InspectSelect, Primary
        <2>4. QED BY <2>2, <2>3
    <1>5. CASE PromoteClear
        BY <1>0, <1>5 DEF PromoteClear, SetFile, AllPaths, CandidateRoles, Primary
    <1>6. CASE PromoteOpen
        BY <1>0, <1>6 DEF PromoteOpen, SetFile, AllPaths, CandidateRoles, Primary
    <1>7. CASE PromoteWrite
        BY <1>0, <1>7 DEF PromoteWrite, SetFile, AllPaths, CandidateRoles, Primary
    <1>8. CASE PromoteRename
        BY <1>0, <1>8
        DEF PromoteRename, Rename, AllPaths, CandidateRoles, Primary, Holds, Missing, IsValid
    <1>9. CASE PromoteVerify
        BY <1>2, <1>9 DEF PromoteVerify, Subject, OperationInv, Primary
    <1>10. CASE CleanTemp \/ CleanRecoveryTemp \/ CleanBackupTemp
        BY <1>0, <1>10
        DEF CleanTemp, CleanRecoveryTemp, CleanBackupTemp, Clean, SetFile, AllPaths,
            CandidateRoles, Primary, Missing, IsValid, Subject
    <1>11. CASE Recovered
        BY <1>1, <1>2, <1>11
        DEF Recovered, AfterRecovery, Return, OperationInv, Primary
    <1>12. CASE Reconcile
        BY <1>2, <1>12 DEF Reconcile, OperationInv, Subject, Primary
    <1>13. CASE Record \/ RecordWrite \/ RecordVerify
        BY <1>2, <1>13 DEF Record, RecordWrite, RecordVerify, VerifyUpTo, Subject, Primary
    <1>14. CASE VerifyChain
        BY <1>1, <1>2, <1>14 DEF VerifyChain, VerifyUpTo, Return, Primary
    <1>15. ASSUME NEW world \in Worlds, Build(world) PROVE DamageStageInv'
        <2>1. [world |-> world, token |-> request.policy] \in Payload
            BY <1>15 DEF Payload, Request, TypeOK
        <2>2. IsChild(new', base)
            BY <1>0, <1>15, <2>1, AppendIsChild DEF Build
        <2>3. QED BY <1>0, <1>15, <2>2
            DEF Build, SetFile, AllPaths, CandidateRoles, Primary, Missing, IsValid
    <1>16. CASE SaveOpen
        BY <1>0, <1>16 DEF SaveOpen, SetFile, AllPaths, CandidateRoles, Primary, Torn, IsValid
    <1>17. CASE SaveWrite
        BY <1>0, <1>17 DEF SaveWrite, SetFile, AllPaths, CandidateRoles, Primary
    <1>18. CASE Backup
        <2>1. CASE files["primary"].exists
            BY <1>0, <1>18, <2>1 DEF Backup, SetFile, AllPaths, CandidateRoles, Primary
        <2>2. CASE ~files["primary"].exists
            <3>1. Front(new) = <<>>
                BY <1>18, <2>2
                DEF Backup, LineInv, InLine, AllPaths, CandidateRoles, IsValid, IsChild, Primary
            <3>2. IsPrefix(Front(new), files["backup"].snap)
                BY <1>0, <3>1, SnapTypes, PrefixReflexive DEF AllPaths, CandidateRoles
            <3>3. QED BY <1>18, <2>2, <3>2 DEF Backup, Primary
        <2>3. QED BY <2>1, <2>2
    <1>19. CASE BackupWrite
        BY <1>0, <1>19 DEF BackupWrite, SetFile, AllPaths, CandidateRoles, Primary
    <1>20. CASE BackupRename
        <2>1. /\ Primary' = Primary /\ files'["backup"].snap = Primary
              /\ files'["temp"] = files["temp"] /\ files'["recoveryTemp"] = files["recoveryTemp"]
            BY <1>0, <1>20 DEF BackupRename, Rename, AllPaths, CandidateRoles, Primary
        <2>2. Front(new) = Primary
            BY <1>20 DEF BackupRename, IsChild
        <2>3. IsPrefix(Front(new), files'["backup"].snap)
            BY <1>0, <1>20, <2>1, <2>2, PrefixReflexive DEF BackupRename
        <2>4. QED BY <1>20, <2>1, <2>3 DEF BackupRename
    <1>21. CASE Install
        BY <1>0, <1>21
        DEF Install, Rename, AllPaths, CandidateRoles, Primary, Holds, Missing, IsValid
    <1>22. CASE VerifyPrimary
        BY <1>2, <1>22 DEF VerifyPrimary, Subject, OperationInv, Primary
    <1>23. CASE Commit \/ Interrupt \/ InspectRefuse
        BY <1>1, <1>2, <1>23 DEF Commit, Interrupt, InspectRefuse
    <1>24. CASE NewWriter \/ UNCHANGED vars
        BY <1>24 DEF NewWriter, vars, Subject, Primary
    <1>25. ASSUME NEW kind \in Kinds, NEW policy \in {0, epoch},
                  NEW check \in BOOLEAN, Begin(kind, policy, check)
           PROVE  DamageStageInv'
        BY <1>25 DEF Begin
    <1>26. QED
        BY <1>3, <1>4, <1>5, <1>6, <1>7, <1>8, <1>9, <1>10, <1>11, <1>12, <1>13, <1>14,
           <1>15, <1>16, <1>17, <1>18, <1>19, <1>20, <1>21, <1>22, <1>23, <1>24, <1>25
        DEF Next, Recovery, Lineage, Saving, Environment

-----------------------------------------------------------------------------
(***************************************************************************)
(* The steps outside the store: damage, export, the move to another        *)
(* directory, and the restore.                                             *)
(***************************************************************************)
LEMMA OutsideTypes ==
    ASSUME TypeOK, OperationInv, UNCHANGED <<epoch, pc, request, base, new, cursor>>,
           files' \in [AllPaths -> Content], records' \in SUBSET Seq(Payload),
           tornRecords' \in SUBSET Seq(Payload), outcome' \in Outcomes,
           operations' \in Nat, known' \in Seq(Payload), acked' \in SUBSET Seq(Payload)
    PROVE  TypeOK' /\ OperationInv'
    BY DEF TypeOK, OperationInv, Subject

LEMMA IdleStages ==
    ASSUME pc' = "idle", base' = <<>>
    PROVE  DamageStageInv'
    BY DEF DamageStageInv, Promoting, TempWritten, Recording, RecoverySteps, LineageSteps,
           SaveSteps, CleanupSteps

LEMMA IdleLineage ==
    ASSUME LineageInv, pc' = "idle", records \subseteq records',
           \A p \in AllPaths : \/ files'[p].snap = <<>>
                               \/ \E q \in AllPaths : files'[p] = files[q]
                               \/ ParentRecorded(files'[p].snap)
    PROVE  LineageInv'
    BY LineageOfFiles DEF LineageInv, Promoting, SaveSteps

LEMMA ExportStep ==
    ASSUME CapsuleIInv, Export
    PROVE  CapsuleIInv'
    <1> USE DEF CapsuleIInv
    <1>1. /\ UNCHANGED vars /\ UNCHANGED <<unfinished, restore, restored>>
          /\ capsule = <<>> /\ restore = "none" /\ capsule' = files["primary"].snap
          /\ FencingProgress(capsule')
        BY DEF Export, AtRest, Loads
    <1>2. TypeOK' /\ OperationInv' /\ LineageInv' /\ LineInv' /\ DamageStageInv'
        BY <1>1
        DEF vars, TypeOK, OperationInv, Subject, LineageInv, ParentRecorded, LineInv, InLine,
            DamageStageInv, Installed, Primary
    <1>3. CapsuleTypes'
        BY <1>1, SnapTypes DEF CapsuleTypes, TypeOK, AllPaths, CandidateRoles
    <1>4. RestoreInv'
        BY <1>1 DEF RestoreInv, OnlyRestored
    <1>5. QED BY <1>2, <1>3, <1>4

LEMMA MoveStep ==
    ASSUME CapsuleIInv, MoveToNewDirectory
    PROVE  CapsuleIInv'
    <1> USE DEF CapsuleIInv
    <1>1. /\ files' = [p \in AllPaths |-> Missing] /\ records' = {} /\ tornRecords' = {}
          /\ known' = <<>> /\ acked' = {} /\ unfinished' = FALSE
          /\ UNCHANGED <<epoch, pc, request, base, new, cursor, outcome, operations, capsule,
                         restore, restored>>
          /\ pc = "idle" /\ restore = "none"
        BY DEF MoveToNewDirectory, Running, AtRest
    <1>2. files' \in [AllPaths -> Content]
        BY <1>1, ContentTypes
    <1>3. TypeOK' /\ OperationInv' /\ CapsuleTypes'
        BY <1>1, <1>2, OutsideTypes, EmptySeq DEF TypeOK, CapsuleTypes
    <1>4. \A p \in AllPaths : files'[p].snap = <<>>
        BY <1>1 DEF Missing
    <1>5. LineageInv'
        BY <1>1, <1>4 DEF LineageInv, ParentRecorded, Promoting, SaveSteps
    <1>6. LineInv'
        BY <1>1, <1>4 DEF LineInv, InLine, IsValid, AllPaths, CandidateRoles, TransientRoles
    <1>7. DamageStageInv'
        BY <1>1, IdleStages DEF DamageStageInv
    <1>8. RestoreInv'
        BY <1>1 DEF RestoreInv
    <1>9. QED BY <1>3, <1>5, <1>6, <1>7, <1>8

LEMMA DamageStep ==
    ASSUME CapsuleIInv, CorruptPrimary
    PROVE  CapsuleIInv'
    <1> USE DEF CapsuleIInv
    <1>1. /\ files' = [files EXCEPT !["primary"] = Torn]
          /\ UNCHANGED <<records, tornRecords, epoch, pc, request, base, new, cursor, outcome,
                         known, acked, operations, capsule, restore, restored>>
          /\ unfinished' = FALSE /\ pc = "idle" /\ restore = "none"
        BY DEF CorruptPrimary, SetFile, Running, History, AtRest
    <1>2. files \in [AllPaths -> Content] /\ "primary" \in AllPaths
        BY DEF TypeOK, AllPaths, CandidateRoles
    <1>3. files' \in [AllPaths -> Content]
        BY <1>1, <1>2, ContentTypes
    <1>4. TypeOK' /\ OperationInv' /\ CapsuleTypes'
        BY <1>1, <1>3, OutsideTypes DEF TypeOK, CapsuleTypes
    <1>5. files'["primary"] = Torn /\ \A q \in AllPaths \ {"primary"} : files'[q] = files[q]
        BY <1>1, <1>2
    <1>6. LineageInv'
        BY <1>1, <1>5, IdleLineage DEF Torn
    <1>7. LineInv'
        BY <1>1, <1>2, <1>5, InLineAfterDamage DEF LineInv
    <1>8. DamageStageInv'
        BY <1>1, IdleStages DEF DamageStageInv
    <1>9. RestoreInv'
        BY <1>1 DEF RestoreInv
    <1>10. QED BY <1>4, <1>6, <1>7, <1>8, <1>9

LEMMA StoreStepInv ==
    ASSUME CapsuleIInv, StoreStep
    PROVE  CapsuleIInv'
    <1> USE DEF CapsuleIInv
    <1>1. /\ [Next]_vars /\ restore = "none" /\ unfinished' = FALSE
          /\ UNCHANGED <<capsule, restore, restored>>
        BY DEF StoreStep
    <1>2. TypeOK' /\ OperationInv'
        BY <1>1, StepTypeOK, StepOperationInv
    <1>3. LineageInv'
        BY <1>1, StepLineageInv
    <1>4. LineInv' /\ DamageStageInv'
        BY <1>1, StoreStepLineInv, StoreStepDamageStageInv
    <1>5. CapsuleTypes' /\ RestoreInv'
        BY <1>1 DEF CapsuleTypes, RestoreInv
    <1>6. QED BY <1>2, <1>3, <1>4, <1>5

-----------------------------------------------------------------------------
(***************************************************************************)
(* The restore.                                                            *)
(***************************************************************************)
LEMMA CapsuleAncestor ==
    ASSUME CapsuleTypes, restored <= Len(capsule), restored # Len(capsule)
    PROVE  /\ Ancestor(capsule, restored + 1) \in Seq(Payload)
           /\ Ancestor(capsule, restored + 1) \in CapsuleRecords
           /\ restored + 1 <= Len(capsule)
    <1>1. Len(capsule) \in Nat /\ restored \in Nat /\ capsule \in Seq(Payload)
        BY DEF CapsuleTypes
    <1>2. restored + 1 \in 0..Len(capsule) /\ restored + 1 \in 1..Len(capsule)
        BY <1>1
    <1>3. QED BY <1>1, <1>2, AncestorIsHistory DEF CapsuleRecords

\* What every step of a restore does to the files and the records, and what it
\* leaves alone.
RestoreFrame ==
    /\ UNCHANGED <<epoch, pc, request, base, new, cursor, known, acked, capsule>>
    /\ records \subseteq records'
    /\ files'["backup"] = files["backup"]
    /\ \A p \in AllPaths : files'[p] = files[p] \/ files'[p] \in {Missing, Torn, Holds(capsule)}

LEMMA RestoreKeepsLine ==
    ASSUME CapsuleIInv, unfinished, RestoreFrame
    PROVE  LineInv'
    <1> USE DEF CapsuleIInv
    <1>1. \A p \in AllPaths : IsValid(files[p]) => files[p].exists
        BY DEF LineInv, InLine
    <1>2. OnlyRestored
        BY DEF RestoreInv
    <1>3. \A p \in AllPaths : IsValid(files'[p]) => files'[p].exists
        BY <1>1 DEF RestoreFrame, Missing, Torn, Holds, IsValid
    <1>4. \A r \in CandidateRoles : IsValid(files[r]) => files[r].snap = capsule
        BY <1>1, <1>2 DEF OnlyRestored, Holds, Torn, IsValid, AllPaths
    <1>5. \A r \in CandidateRoles : IsValid(files'[r]) => files'[r].snap = capsule
        BY <1>4 DEF RestoreFrame, Missing, Torn, Holds, IsValid, AllPaths
    <1>6. QED BY <1>3, <1>5, InLineOfCopies DEF LineInv, RestoreFrame, CapsuleTypes

LEMMA ParentChainRecorded ==
    ASSUME NEW S, NEW s \in Seq(S), s # <<>>, NEW recs, ChainRecorded(recs, s)
    PROVE  ChainRecorded(recs, Front(s))
    <1>1. Len(s) \in Nat /\ Len(Front(s)) = Len(s) - 1
        BY FrontIsShorter, LenProperties
    <1>2. ASSUME NEW h \in 1..(Len(s) - 1) PROVE Ancestor(Front(s), h) \in recs
        <2>1. Ancestor(s, h) \in recs
            BY <1>1, <1>2 DEF ChainRecorded
        <2>2. Ancestor(Front(s), h) = Ancestor(s, h)
            BY <1>1, <1>2 DEF Ancestor, Front
        <2>3. QED BY <2>1, <2>2
    <1>3. QED BY <1>1, <1>2 DEF ChainRecorded

\* A restore that begins finds nothing but copies of the pinned head.
LEMMA BeginStep ==
    ASSUME CapsuleIInv, BeginRestore
    PROVE  CapsuleIInv'
    <1> USE DEF CapsuleIInv
    <1>1. /\ UNCHANGED <<files, records, tornRecords, epoch, pc, request, base, new, cursor,
                         known, acked, capsule>>
          /\ operations' = operations + 1 /\ restored' = 0
          /\ pc = "idle" /\ restore = "none" /\ capsule # <<>>
        BY DEF BeginRestore, diskVars, Running, AtRest
    <1>2. \/ /\ TargetAdmitted /\ restore' = "record" /\ outcome' = "NONE"
             /\ unfinished' = TRUE
          \/ /\ restore' = "none" /\ outcome' = "RECOVERY_TARGET_NOT_EMPTY"
             /\ unfinished' = unfinished
        BY DEF BeginRestore
    <1>3. TypeOK' /\ OperationInv'
        BY <1>1, <1>2, OutsideTypes DEF TypeOK, Outcomes, RestoreOutcomes
    <1>4. CapsuleTypes'
        BY <1>1, <1>2 DEF CapsuleTypes, RestoreSteps
    <1>5. LineageInv' /\ LineInv' /\ DamageStageInv'
        BY <1>1
        DEF LineageInv, ParentRecorded, LineInv, InLine, DamageStageInv, Installed, Subject,
            Primary
    <1>6. RestoreInv'
        <2>1. CASE TargetAdmitted /\ restore' = "record" /\ unfinished' = TRUE /\ outcome' = "NONE"
            <3>1. OnlyRestored'
                BY <1>1, <2>1 DEF OnlyRestored, TargetAdmitted, OnlyPinnedHead, CapsuleRecords
            <3>2. files["recoveryTemp"] # Torn
                BY <1>1, <2>1
                DEF TargetAdmitted, OnlyPinnedHead, Torn, Holds, CandidateRoles
            <3>3. 0 <= Len(capsule)
                BY DEF CapsuleTypes
            <3>4. QED BY <1>1, <2>1, <3>1, <3>2, <3>3 DEF RestoreInv, TargetAdmitted
        <2>2. CASE restore' = "none" /\ unfinished' = unfinished
            BY <1>1, <2>2 DEF RestoreInv, OnlyRestored, CapsuleRecords
        <2>3. QED BY <1>2, <2>1, <2>2
    <1>7. QED BY <1>3, <1>4, <1>5, <1>6

\* The steps that leave the files alone.
LEMMA RestoreRecordsStep ==
    ASSUME CapsuleIInv,
           InterruptRestore \/ RestoreRecord \/ RestoreRecordWrite \/ RestoreVerifyLineage
              \/ RestoreVerify
    PROVE  CapsuleIInv'
    <1> USE DEF CapsuleIInv
    <1> USE DEF InterruptRestore, RestoreRecord, RestoreRecordWrite, RestoreVerifyLineage,
                RestoreVerify, Proceed, EndRestore, StoreMemory, diskVars, Running
    <1>1. restore # "none" /\ unfinished /\ OnlyRestored /\ pc = "idle" /\ base = <<>>
        BY DEF RestoreInv, DamageStageInv
    <1>2. /\ UNCHANGED <<files, epoch, pc, request, base, new, cursor, known, acked, operations,
                         capsule>>
          /\ records \subseteq records'
          /\ outcome' \in {outcome, "INTERRUPTED", "RESTORED", "ALREADY_RESTORED"}
        OBVIOUS
    <1>3. restore = "recordWrite" => /\ Ancestor(capsule, restored + 1) \in Seq(Payload)
                                     /\ Ancestor(capsule, restored + 1) \in CapsuleRecords
                                     /\ restored + 1 <= Len(capsule)
        BY CapsuleAncestor DEF RestoreInv
    <1>4. restore = "record" /\ restored # Len(capsule) =>
              /\ Ancestor(capsule, restored + 1) \in Seq(Payload)
              /\ restored + 1 <= Len(capsule)
        BY CapsuleAncestor DEF RestoreInv
    <1>5. /\ records' \in SUBSET Seq(Payload) /\ tornRecords' \in SUBSET Seq(Payload)
          /\ records' \subseteq CapsuleRecords
        BY <1>1, <1>3, <1>4 DEF TypeOK, OnlyRestored
    <1>6. TypeOK' /\ OperationInv'
        BY <1>2, <1>5, OutsideTypes DEF TypeOK, Outcomes, RestoreOutcomes
    <1>7. CapsuleTypes'
        <2>1. restore' \in RestoreSteps
            BY DEF RestoreSteps
        <2>2. restored' \in Nat
            BY DEF CapsuleTypes
        <2>3. unfinished' \in BOOLEAN
            BY DEF CapsuleTypes
        <2>4. QED BY <1>2, <2>1, <2>2, <2>3 DEF CapsuleTypes
    <1>8. LineageInv'
        BY <1>1, <1>2, IdleLineage
    <1>9. LineInv' /\ DamageStageInv'
        BY <1>1, <1>2, IdleStages DEF LineInv, InLine
    <1>10. OnlyRestored'
        BY <1>1, <1>2, <1>5 DEF OnlyRestored, CapsuleRecords
    <1>11. ChainRecorded(records, capsule) => ChainRecorded(records, capsule)'
        BY <1>2, ChainStaysRecorded
    <1>12. RestoreInv'
        <2>1. CASE InterruptRestore
            BY <1>2, <1>10, <2>1 DEF RestoreInv
        <2>2. CASE RestoreRecord
            BY <1>1, <1>2, <1>4, <1>10, <2>2 DEF RestoreInv
        <2>3. CASE RestoreRecordWrite
            <3>1. tornRecords' = {}
                BY <2>3 DEF RestoreInv
            <3>2. QED BY <1>1, <1>2, <1>3, <1>10, <2>3, <3>1 DEF RestoreInv
        <2>4. CASE RestoreVerifyLineage
            BY <1>1, <1>2, <1>10, <1>11, <2>4 DEF RestoreInv
        <2>5. CASE RestoreVerify
            BY <1>1, <1>2, <1>10, <2>5 DEF RestoreInv
        <2>6. QED BY <2>1, <2>2, <2>3, <2>4, <2>5
    <1>13. QED BY <1>6, <1>7, <1>8, <1>9, <1>12

\* The steps that write the files.
LEMMA RestoreFilesStep ==
    ASSUME CapsuleIInv, RestoreClean \/ RestoreOpen \/ RestoreWrite \/ RestoreInstall
    PROVE  CapsuleIInv'
    <1> USE DEF CapsuleIInv
    <1>1. restore # "none" /\ unfinished /\ OnlyRestored /\ pc = "idle" /\ base = <<>>
        BY DEF RestoreClean, RestoreOpen, RestoreWrite, RestoreInstall, RestoreInv,
               DamageStageInv
    <1>2. /\ UNCHANGED <<records, tornRecords, epoch, pc, request, base, new, cursor, known,
                         acked, operations, outcome, capsule, restored, unfinished>>
          /\ restore \in {"clean", "tempOpen", "tempWrite", "install"}
        BY DEF RestoreClean, RestoreOpen, RestoreWrite, RestoreInstall, Proceed, StoreMemory,
               Running
    <1>3. DOMAIN files = AllPaths /\ files \in [AllPaths -> Content] /\ capsule \in Seq(Payload)
        BY DEF TypeOK, CapsuleTypes
    <1>4. /\ restore' \in {"tempOpen", "tempWrite", "install", "verify"}
          /\ restore' = "verify" <=> restore = "install"
          /\ restore' = "install" <=> restore = "tempWrite"
          /\ restore' = "tempWrite" <=> restore = "tempOpen"
        BY DEF RestoreClean, RestoreOpen, RestoreWrite, RestoreInstall, Proceed
    <1>5. /\ files'["backup"] = files["backup"]
          /\ files'["backupTemp"] \in {files["backupTemp"], Missing}
          /\ files'["temp"] \in {files["temp"], Missing}
          /\ files'["primary"] \in {files["primary"], Holds(capsule)}
          /\ files'["recoveryTemp"] \in {Missing, Torn, Holds(capsule)}
          /\ files'["recoveryTemp"] = Torn => restore = "tempOpen"
          /\ restore = "tempWrite" => files'["recoveryTemp"] = Holds(capsule)
          /\ DOMAIN files' = AllPaths
        <2>1. CASE RestoreClean
            BY <1>3, <2>1 DEF RestoreClean, AllPaths, CandidateRoles, Missing, Torn
        <2>2. CASE RestoreOpen
            BY <1>3, <2>2 DEF RestoreOpen, SetFile, AllPaths, CandidateRoles
        <2>3. CASE RestoreWrite
            <3>1. capsule # <<>>
                BY <1>1 DEF OnlyRestored
            <3>2. Holds(capsule) # Torn
                BY <3>1 DEF Holds, Torn
            <3>3. QED BY <1>3, <2>3, <3>2 DEF RestoreWrite, SetFile, AllPaths, CandidateRoles
        <2>4. CASE RestoreInstall
            <3>1. files["recoveryTemp"] = Holds(capsule)
                BY <2>4 DEF RestoreInstall, RestoreInv
            <3>2. QED BY <1>3, <2>4, <3>1
                DEF RestoreInstall, Rename, AllPaths, CandidateRoles, Missing, Torn
        <2>5. QED BY <2>1, <2>2, <2>3, <2>4
    <1>6. \A p \in AllPaths : files'[p] = files[p] \/ files'[p] \in {Missing, Torn, Holds(capsule)}
        BY <1>5 DEF AllPaths, CandidateRoles
    <1>7. files' \in [AllPaths -> Content]
        <2>1. \A p \in AllPaths : files'[p] \in Content
            BY <1>3, <1>6, ContentTypes
        <2>2. files' = [p \in AllPaths |-> files'[p]]
            <3>1. CASE RestoreClean
                BY <3>1 DEF RestoreClean
            <3>2. CASE RestoreOpen \/ RestoreWrite \/ RestoreInstall
                BY <1>3, <3>2 DEF RestoreOpen, RestoreWrite, RestoreInstall, SetFile, Rename
            <3>3. QED BY <3>1, <3>2
        <2>3. QED BY <2>1, <2>2
    <1>8. TypeOK' /\ OperationInv'
        BY <1>2, <1>7, OutsideTypes DEF TypeOK
    <1>9. CapsuleTypes'
        BY <1>2, <1>4 DEF CapsuleTypes, RestoreSteps
    <1>10. ChainRecorded(records, capsule)
        BY <1>2 DEF RestoreInv
    <1>11. LineageInv'
        <2>1. ChainRecorded(records, Front(capsule))
            BY <1>1, <1>3, <1>10, ParentChainRecorded DEF OnlyRestored
        <2>2. \A p \in AllPaths : files'[p].snap # <<>> /\ files'[p] # files[p] =>
                  files'[p].snap = capsule
            BY <1>6 DEF Missing, Torn, Holds
        <2>3. \A p \in AllPaths : \/ files'[p].snap = <<>>
                                  \/ \E q \in AllPaths : files'[p] = files[q]
                                  \/ ParentRecorded(files'[p].snap)
            BY <2>1, <2>2 DEF ParentRecorded
        <2>4. QED BY <1>1, <1>2, <2>3, IdleLineage
    <1>12. LineInv'
        BY <1>1, <1>2, <1>5, <1>6, RestoreKeepsLine DEF RestoreFrame
    <1>13. DamageStageInv'
        BY <1>1, <1>2, IdleStages
    <1>14. OnlyRestored'
        <2>1. ~files'["backupTemp"].exists
            BY <1>1, <1>5 DEF OnlyRestored, Missing
        <2>2. ASSUME NEW r \in CandidateRoles, files'[r].exists
              PROVE  files'[r] = Holds(capsule) \/ (r = "recoveryTemp" /\ files'[r] = Torn)
            <3>1. files'[r] # Missing
                BY <2>2 DEF Missing
            <3>2. CASE r = "recoveryTemp"
                BY <1>5, <3>1, <3>2
            <3>3. CASE r # "recoveryTemp" /\ files'[r] = files[r]
                BY <1>1, <2>2, <3>3 DEF OnlyRestored
            <3>4. QED BY <1>5, <2>2, <3>1, <3>2, <3>3 DEF CandidateRoles
        <2>3. QED BY <1>1, <1>2, <2>1, <2>2 DEF OnlyRestored, CapsuleRecords
    <1>15. RestoreInv'
        BY <1>1, <1>2, <1>4, <1>5, <1>10, <1>14 DEF RestoreInv
    <1>16. QED BY <1>8, <1>9, <1>11, <1>12, <1>13, <1>15

-----------------------------------------------------------------------------
(***************************************************************************)
(* The theorems.                                                           *)
(***************************************************************************)
LEMMA CapsuleInitIInv == CapsuleInit => CapsuleIInv
    <1> SUFFICES ASSUME CapsuleInit PROVE CapsuleIInv
        OBVIOUS
    <1>1. Init /\ capsule = <<>> /\ restore = "none" /\ restored = 0 /\ unfinished = FALSE
        BY DEF CapsuleInit
    <1>2. TypeOK /\ OperationInv /\ LineageInv
        BY <1>1, InitTypes, InitLineageInv
    <1>3. CapsuleTypes
        BY <1>1, EmptySeq DEF CapsuleTypes, RestoreSteps
    <1>4. \A p \in AllPaths : files[p].snap = <<>>
        BY <1>1 DEF Init, Missing
    <1>5. LineInv
        BY <1>1, <1>4
        DEF LineInv, InLine, Init, IsValid, AllPaths, CandidateRoles, TransientRoles
    <1>6. DamageStageInv
        BY <1>1
        DEF Init, DamageStageInv, Promoting, TempWritten, Recording, RecoverySteps,
            LineageSteps, SaveSteps, CleanupSteps
    <1>7. RestoreInv
        BY <1>1 DEF RestoreInv
    <1>8. QED BY <1>2, <1>3, <1>5, <1>6, <1>7 DEF CapsuleIInv

LEMMA CapsuleStepIInv == CapsuleIInv /\ [CapsuleNext]_allVars => CapsuleIInv'
    <1> SUFFICES ASSUME CapsuleIInv, [CapsuleNext]_allVars PROVE CapsuleIInv'
        OBVIOUS
    <1>1. CASE StoreStep
        BY <1>1, StoreStepInv
    <1>2. CASE CorruptPrimary
        BY <1>2, DamageStep
    <1>3. CASE Export
        BY <1>3, ExportStep
    <1>4. CASE MoveToNewDirectory
        BY <1>4, MoveStep
    <1>5. CASE BeginRestore
        BY <1>5, BeginStep
    <1>6. CASE InterruptRestore \/ RestoreRecord \/ RestoreRecordWrite \/ RestoreVerifyLineage
                  \/ RestoreVerify
        BY <1>6, RestoreRecordsStep
    <1>7. CASE RestoreClean \/ RestoreOpen \/ RestoreWrite \/ RestoreInstall
        BY <1>7, RestoreFilesStep
    <1>8. CASE UNCHANGED allVars
        BY <1>8
        DEF allVars, vars, capsuleVars, CapsuleIInv, TypeOK, OperationInv, Subject, CapsuleTypes,
            LineageInv, ParentRecorded, LineInv, InLine, DamageStageInv, Installed, Primary,
            RestoreInv, OnlyRestored, CapsuleRecords
    <1>9. QED BY <1>1, <1>2, <1>3, <1>4, <1>5, <1>6, <1>7, <1>8 DEF CapsuleNext, Restoring

\* The inductive invariant holds through damage, recoveries, exports and
\* restores, wherever each of them is interrupted.
THEOREM CapsuleInvariant == CapsuleSpec => []CapsuleIInv
    BY CapsuleInitIInv, CapsuleStepIInv, PTL DEF CapsuleSpec

\* However often the primary is damaged between operations, whoever recovers the
\* store finds the parent of every acknowledged snapshot or a descendant of it.
THEOREM DamageCostsOneGeneration == CapsuleSpec => []OneGenerationLoss
    <1>1. CapsuleIInv => OneGenerationLoss
        BY InLineKeepsParents DEF CapsuleIInv, TypeOK, LineInv, OneGenerationLoss
    <1>2. QED BY CapsuleInvariant, <1>1, PTL

\* The lineage of whatever a recovery selects can be repaired, also after damage
\* and after restores that were stopped halfway.
THEOREM LineageSurvivesDamage == CapsuleSpec => []LineageReconcilable
    <1>1. CapsuleIInv => LineageReconcilable
        BY LineageHasNoGap DEF CapsuleIInv
    <1>2. QED BY CapsuleInvariant, <1>1, PTL

\* An interrupted restore can be tried again, unless it was stopped between the
\* creation and the writing of a file.
THEOREM RestoreCanResume == CapsuleSpec => []RestoreResumable
    <1>1. CapsuleIInv => RestoreResumable
        BY DEF CapsuleIInv, RestoreInv, OnlyRestored, RestoreResumable, TargetAdmitted,
               OnlyPinnedHead
    <1>2. QED BY CapsuleInvariant, <1>1, PTL

\* No step of a restore, the first try or a later one, replaces or deletes what
\* it has not written itself, copies of the pinned head aside.
THEOREM RestoreKeepsOthersFiles == CapsuleSpec => RestoreOverwritesNothing
    <1>1. ASSUME CapsuleIInv, restore # "none", NEW p \in AllPaths,
                 files[p].exists, files[p] # Holds(capsule)
          PROVE  p = "recoveryTemp" /\ restore = "tempWrite"
        BY <1>1 DEF CapsuleIInv, RestoreInv, OnlyRestored, AllPaths
    <1>2. CapsuleIInv =>
              [restore # "none" =>
                  \A p \in AllPaths :
                      files[p].exists /\ files[p] # Holds(capsule) /\ files'[p] # files[p] =>
                          p = "recoveryTemp" /\ restore = "tempWrite"]_allVars
        BY <1>1
    <1>3. QED BY CapsuleInvariant, <1>2, PTL DEF RestoreOverwritesNothing

\* In files that hold copies of one snapshot only, that snapshot is selected.
LEMMA OnlyCandidate ==
    ASSUME NEW fs, NEW s \in Seq(Payload), s # <<>>, fs["primary"] = Holds(s),
           \A r \in CandidateRoles : IsValid(fs[r]) => fs[r].snap = s
    PROVE  s \in Highest(fs, 0) /\ ~Conflict(fs, 0)
    <1>1. EligibleValid(fs, 0) = {s}
        BY DEF EligibleValid, Eligible, IsValid, Holds, CandidateRoles
    <1>2. Generation(s) <= Generation(s)
        BY DEF Generation
    <1>3. QED BY <1>1, <1>2 DEF Highest, Conflict

\* A restore that reports success leaves a store that loads the pinned head.
THEOREM RestoreEndsInLoadableStore == CapsuleSpec => RestoreEndsLoadable
    <1>1. ASSUME CapsuleIInv, CapsuleNext, restore # "none",
                 outcome' \in {"RESTORED", "ALREADY_RESTORED"}
          PROVE  Loads(capsule)'
        <2>1. outcome = "NONE" /\ unfinished /\ OnlyRestored
              /\ capsule \in Seq(Payload) /\ capsule # <<>> /\ FencingProgress(capsule)
            BY <1>1 DEF CapsuleIInv, RestoreInv, CapsuleTypes, OnlyRestored
        <2>2. /\ files["primary"] = Holds(capsule) /\ ChainRecorded(records, capsule)
              /\ restore \in {"verifyLineage", "verify"}
              /\ UNCHANGED <<files, records, tornRecords, capsule>>
            BY <1>1, <2>1
            DEF CapsuleNext, Restoring, StoreStep, CorruptPrimary, AtRest, Export,
                MoveToNewDirectory, BeginRestore, InterruptRestore, RestoreRecord,
                RestoreRecordWrite, RestoreVerifyLineage, RestoreClean, RestoreOpen,
                RestoreWrite, RestoreInstall, RestoreVerify, Proceed, EndRestore, diskVars,
                CapsuleIInv, RestoreInv
        <2>3. tornRecords = {}
            BY <1>1, <2>2 DEF CapsuleIInv, RestoreInv
        <2>4. \A r \in CandidateRoles : IsValid(files[r]) => files[r].snap = capsule
            BY <1>1, <2>1
            DEF CapsuleIInv, LineInv, InLine, OnlyRestored, Holds, Torn, IsValid, AllPaths
        <2>5. capsule \in Highest(files, 0) /\ ~Conflict(files, 0)
            BY <2>1, <2>2, <2>4, OnlyCandidate
        <2>6. Loads(capsule)
            BY <2>1, <2>2, <2>3, <2>5 DEF Loads
        <2>7. QED BY <2>2, <2>6 DEF Loads
    <1>2. CapsuleIInv /\ [CapsuleNext]_allVars =>
              [outcome' \in {"RESTORED", "ALREADY_RESTORED"} /\ restore # "none" =>
                  Loads(capsule)']_allVars
        BY <1>1
    <1>3. QED BY CapsuleInvariant, <1>2, PTL DEF CapsuleSpec, RestoreEndsLoadable

=============================================================================
