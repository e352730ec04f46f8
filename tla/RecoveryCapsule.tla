--------------------------- MODULE RecoveryCapsule ---------------------------
(***************************************************************************)
(* The portable recovery capsule (snapshot-recovery-capsule.js) on top of  *)
(* the snapshot store: exporting the installed snapshot with its complete  *)
(* lineage, and restoring it into the same or another directory, with the  *)
(* process exiting between any two file-system calls and the restore being *)
(* tried again.                                                            *)
(*                                                                         *)
(* A capsule embeds the head envelope and the records of its parent chain, *)
(* all of which the head determines: the capsule is its head.  Its hashes  *)
(* and the caller's pin decide whether a text is that capsule, and only    *)
(* texts that are appear here.                                             *)
(***************************************************************************)
EXTENDS AtomicStore

CONSTANT
    MaxCorruptions   \* bound: times the primary is damaged from outside

ASSUME DamageAssumption == MaxCorruptions \in Nat

VARIABLES
    corruptions, \* history: external damage done
    capsule,     \* the head of the exported capsule, <<>> before the export
    moved,       \* history: the store has been given up for a new directory
    restore,     \* the next file-system call of the running restore
    restored,    \* the generations whose records it has restored
    unfinished   \* history: a restore was admitted, did not end, and nothing
                 \* has touched the directory since

capsuleVars == <<corruptions, capsule, moved, restore, restored, unfinished>>
allVars == <<vars, capsuleVars>>

RestoreSteps == {"none", "record", "recordWrite", "verifyLineage", "clean", "tempOpen",
                 "tempWrite", "install", "verify"}

CapsuleInit ==
    /\ Init
    /\ corruptions = 0
    /\ capsule = <<>>
    /\ moved = FALSE
    /\ restore = "none"
    /\ restored = 0
    /\ unfinished = FALSE

AtRest == pc = "idle" /\ restore = "none"

\* What a restore never touches of the store's own memory.
StoreMemory == <<epoch, pc, Running, known, acked, operations, corruptions>>

-----------------------------------------------------------------------------
\* A store that the next unleased load returns s from.
Loads(s) ==
    /\ ~Conflict(files, 0)
    /\ s \in Highest(files, 0)
    /\ tornRecords = {}
    /\ ChainRecorded(records, s)
    /\ FencingProgress(s)

\* createSnapshotRecoveryCapsule: the selection must be the installed primary
\* and its lineage complete; a higher candidate elsewhere is a refusal.
Export ==
    /\ AtRest
    /\ capsule = <<>>
    /\ IsValid(files["primary"])
    /\ Loads(files["primary"].snap)
    /\ capsule' = files["primary"].snap
    /\ UNCHANGED <<vars, corruptions, moved, restore, restored, unfinished>>

\* The damaged directory is kept and left: another takes its place, in which
\* no save has been acknowledged yet.
MoveToNewDirectory ==
    /\ AtRest
    /\ capsule # <<>>
    /\ ~moved
    /\ moved' = TRUE
    /\ files' = [p \in AllPaths |-> Missing]
    /\ records' = {}
    /\ tornRecords' = {}
    /\ known' = <<>>
    /\ acked' = {}
    /\ unfinished' = FALSE
    /\ UNCHANGED <<epoch, pc, Running, outcome, operations, corruptions, capsule,
                   restore, restored>>

-----------------------------------------------------------------------------
\* restoreSnapshotRecoveryCapsule: what it admits.

\* Fault: only an installed head counts as the pinned one.
OnlyInstalledHead ==
    \A r \in CandidateRoles : files[r].exists => r = "primary" /\ files[r] = Holds(capsule)

\* Fault: the candidates besides the primary are not looked at.
PrimaryIsPinnedHead == files["primary"].exists => files["primary"] = Holds(capsule)

\* The directory holds nothing but copies of the pinned head.
OnlyPinnedHead == \A r \in CandidateRoles : files[r].exists => files[r] = Holds(capsule)

CapsuleRecords == {Ancestor(capsule, g) : g \in 1..Len(capsule)}

\* No unfinished backup, no other candidate, no lineage outside the capsule.
TargetAdmitted ==
    /\ ~files["backupTemp"].exists
    /\ OnlyPinnedHead
    /\ tornRecords = {}
    /\ records \subseteq CapsuleRecords

BeginRestore ==
    /\ AtRest
    /\ capsule # <<>>
    /\ operations < MaxOperations
    /\ operations' = operations + 1
    /\ IF TargetAdmitted
         THEN restore' = "record" /\ outcome' = "NONE" /\ unfinished' = TRUE
         ELSE restore' = "none" /\ outcome' = "RECOVERY_TARGET_NOT_EMPTY"
              /\ UNCHANGED unfinished
    /\ restored' = 0
    /\ UNCHANGED <<diskVars, epoch, pc, Running, known, acked, corruptions, capsule, moved>>

-----------------------------------------------------------------------------
\* Its steps.
Proceed(step) ==
    /\ restore' = step
    /\ UNCHANGED <<StoreMemory, outcome, capsule, moved, restored, unfinished>>

EndRestore(result) ==
    /\ restore' = "none"
    /\ restored' = 0
    /\ outcome' = result
    /\ unfinished' = FALSE
    /\ UNCHANGED <<diskVars, StoreMemory, capsule, moved>>

\* The process exits, or a stage hook throws.
InterruptRestore ==
    /\ restore # "none"
    /\ restore' = "none"
    /\ restored' = 0
    /\ outcome' = "INTERRUPTED"
    /\ UNCHANGED <<diskVars, StoreMemory, capsule, moved, unfinished>>

\* restoreSnapshotLineageRecords, oldest first; a record that is there already
\* is the capsule's.
RestoreRecord ==
    /\ restore = "record"
    /\ LET s == Ancestor(capsule, restored + 1) IN
         IF restored = Len(capsule)
           THEN Proceed("verifyLineage") /\ UNCHANGED diskVars
         ELSE IF s \in records
           THEN /\ restored' = restored + 1
                /\ UNCHANGED <<diskVars, StoreMemory, outcome, capsule, moved, restore,
                               unfinished>>
         ELSE /\ tornRecords' = tornRecords \cup {s}
              /\ Proceed("recordWrite")
              /\ UNCHANGED <<files, records>>

RestoreRecordWrite ==
    /\ restore = "recordWrite"
    /\ LET s == Ancestor(capsule, restored + 1) IN
         /\ tornRecords' = tornRecords \ {s}
         /\ records' = records \cup {s}
    /\ restored' = restored + 1
    /\ restore' = "record"
    /\ UNCHANGED <<files, StoreMemory, outcome, capsule, moved, unfinished>>

\* A verified lineage under an installed head ends the restore.
RestoreVerifyLineage ==
    /\ restore = "verifyLineage"
    /\ ChainRecorded(records, capsule)
    /\ IF files["primary"] = Holds(capsule)
         THEN EndRestore("ALREADY_RESTORED")
         ELSE Proceed("clean") /\ UNCHANGED diskVars

\* cleanupTransientSnapshotPaths: a restore finds its own recovery temp at most,
\* so the three deletions are one step.
RestoreClean ==
    /\ restore = "clean"
    /\ files' = [p \in AllPaths |->
                    IF p \in {"temp", "recoveryTemp", "backupTemp"} THEN Missing ELSE files[p]]
    /\ Proceed("tempOpen")
    /\ UNCHANGED <<records, tornRecords>>

RestoreOpen ==
    /\ restore = "tempOpen"
    /\ SetFile("recoveryTemp", Torn)
    /\ Proceed("tempWrite")
    /\ UNCHANGED <<records, tornRecords>>

RestoreWrite ==
    /\ restore = "tempWrite"
    /\ SetFile("recoveryTemp", Holds(capsule))
    /\ Proceed("install")
    /\ UNCHANGED <<records, tornRecords>>

RestoreInstall ==
    /\ restore = "install"
    /\ Rename("recoveryTemp", "primary")
    /\ Proceed("verify")
    /\ UNCHANGED <<records, tornRecords>>

RestoreVerify ==
    /\ restore = "verify"
    /\ files["primary"] = Holds(capsule)
    /\ EndRestore("RESTORED")

Restoring ==
    \/ BeginRestore \/ InterruptRestore
    \/ RestoreRecord \/ RestoreRecordWrite \/ RestoreVerifyLineage \/ RestoreClean
    \/ RestoreOpen \/ RestoreWrite \/ RestoreInstall \/ RestoreVerify

\* Any operation of the store itself.
StoreStep ==
    /\ restore = "none"
    /\ Next
    /\ unfinished' = FALSE
    /\ UNCHANGED <<corruptions, capsule, moved, restore, restored>>

\* The primary file is damaged while no operation runs (disk fault, foreign
\* edit): the case the backup and the capsule are kept for.
CorruptPrimary ==
    /\ AtRest
    /\ corruptions < MaxCorruptions
    /\ files["primary"].exists
    /\ SetFile("primary", Torn)
    /\ corruptions' = corruptions + 1
    /\ unfinished' = FALSE
    /\ UNCHANGED <<records, tornRecords, pc, Running, History, capsule, moved,
                   restore, restored>>

CapsuleNext == StoreStep \/ CorruptPrimary \/ Export \/ MoveToNewDirectory \/ Restoring

CapsuleSpec == CapsuleInit /\ [][CapsuleNext]_allVars

-----------------------------------------------------------------------------
\* Damage to the primary between operations costs at most the newest generation
\* of an acknowledged history, also when it strikes again after the recovery: the
\* parent of an acknowledged snapshot can always be selected, or a descendant.
OneGenerationLoss ==
    \A policy \in Policies, a \in acked :
        Front(a) # <<>> =>
            /\ EligibleValid(files, policy) # {}
            /\ \A s \in Highest(files, policy) : IsPrefix(Front(a), s)

\* A restore never deletes or replaces a file that is not a copy of the pinned
\* head or a recovery temp it has written itself, however often it was
\* interrupted and tried again before.
RestoreOverwritesNothing ==
    [][restore # "none" =>
          \A p \in AllPaths :
              files[p].exists /\ files[p] # Holds(capsule) /\ files'[p] # files[p] =>
                  p = "recoveryTemp" /\ restore = "tempWrite"]_allVars

\* A restore that reports its end leaves a store from which the next load
\* returns the pinned head, whatever was in the directory when it was admitted.
RestoreEndsLoadable ==
    [][outcome' \in {"RESTORED", "ALREADY_RESTORED"} /\ restore # "none" =>
          Loads(capsule)']_allVars

\* "A retry may continue from matching lineage records": an interrupted restore
\* is admitted again, unless the exit fell between the creation of a file and
\* the end of its writing.
RestoreResumable ==
    /\ unfinished
    /\ restore = "none"
    /\ tornRecords = {}
    /\ files["recoveryTemp"] # Torn
    => TargetAdmitted

-----------------------------------------------------------------------------
(***************************************************************************)
(* The inductive invariant.  Damage to the primary breaks what AtomicStore *)
(* promises of it (DiskInv); what is left is that the valid files lie on   *)
(* one line of descent from the backup, which holds the parent of every    *)
(* acknowledged snapshot or a descendant of it.                            *)
(***************************************************************************)
CapsuleTypes ==
    /\ capsule \in Seq(Payload)
    /\ unfinished \in BOOLEAN
    /\ restore \in RestoreSteps
    /\ restored \in Nat

InLine(fs, acks) ==
    /\ \A p \in AllPaths : IsValid(fs[p]) => fs[p].exists
    /\ \A r \in CandidateRoles : IsValid(fs[r]) => IsPrefix(fs["backup"].snap, fs[r].snap)
    /\ \A r \in TransientRoles : IsValid(fs[r]) => IsPrefix(fs["primary"].snap, fs[r].snap)
    /\ IsValid(fs["temp"]) => IsPrefix(fs["recoveryTemp"].snap, fs["temp"].snap)
    /\ \A a \in acks : a # <<>> /\ IsPrefix(Front(a), fs["backup"].snap)

LineInv == InLine(files, acked)

\* The recovered snapshot is installed; without one there is no backup either.
Installed(s) == s = Primary /\ (s = <<>> => files["backup"].snap = <<>>)

\* StageInv, as far as damage to the primary leaves it standing.
DamageStageInv ==
    /\ pc \in {"idle", "inspect"} => base = <<>>
    /\ pc \in Promoting =>
          /\ IsPrefix(files["backup"].snap, base)
          /\ IsPrefix(Primary, base)
          /\ IsValid(files["temp"]) => IsPrefix(base, files["temp"].snap)
          /\ base # <<>>
    /\ pc = "promoteRename" => files["recoveryTemp"] = Holds(base)
    /\ pc \in {"promoteVerify", "recovered", "reconcile", "verifyChain", "build", "saveOpen",
               "saveWrite"} \cup TempWritten =>
          Installed(base)
    /\ pc \in CleanupSteps \cup Recording => Installed(Subject)
    /\ pc = "verifyPrimary" => new = Primary
    /\ pc \in {"cleanRecoveryTemp", "cleanBackupTemp", "recovered"}
              \cup LineageSteps \cup (SaveSteps \ TempWritten) =>
          ~IsValid(files["temp"])
    /\ pc \in {"cleanBackupTemp", "recovered"} \cup LineageSteps \cup SaveSteps =>
          ~IsValid(files["recoveryTemp"])
    /\ pc \in {"saveOpen", "saveWrite"} \cup TempWritten => IsChild(new, base)
    /\ pc \in TempWritten => files["temp"] = Holds(new)
    /\ pc = "backupRename" => files["backupTemp"] = files["primary"]
    /\ pc \in {"install", "verifyPrimary"} \cup Recording \cup CleanupSteps /\ new # <<>> =>
          IsPrefix(Front(new), files["backup"].snap)

\* The directory holds nothing but the work of a restore.
OnlyRestored ==
    /\ capsule # <<>>
    /\ ~files["backupTemp"].exists
    /\ \A r \in CandidateRoles :
          files[r].exists => \/ files[r] = Holds(capsule)
                             \/ r = "recoveryTemp" /\ files[r] = Torn
    /\ records \subseteq CapsuleRecords

\* What a restore that has not ended has left there, and what the running one
\* knows.
RestoreInv ==
    /\ capsule # <<>> => FencingProgress(capsule)
    /\ restore # "none" => unfinished /\ outcome = "NONE" /\ pc = "idle"
    /\ unfinished => OnlyRestored
    /\ restore \notin {"none", "tempWrite"} => files["recoveryTemp"] # Torn
    /\ restore \notin {"none", "recordWrite"} => tornRecords = {}
    /\ restore \in {"record", "recordWrite"} => restored <= Len(capsule)
    /\ restore = "recordWrite" =>
          restored # Len(capsule) /\ tornRecords = {Ancestor(capsule, restored + 1)}
    /\ restore \in {"clean", "tempOpen", "tempWrite", "install", "verify"} =>
          ChainRecorded(records, capsule)
    /\ restore = "install" => files["recoveryTemp"] = Holds(capsule)

CapsuleIInv ==
    /\ TypeOK /\ OperationInv /\ CapsuleTypes
    /\ LineageInv
    /\ LineInv /\ DamageStageInv
    /\ RestoreInv

=============================================================================
