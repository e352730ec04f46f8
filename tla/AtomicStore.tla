---------------------------- MODULE AtomicStore ----------------------------
(***************************************************************************)
(* The atomic snapshot store (atomic-store.js, recovery.js,                *)
(* snapshot-lineage.js): saving, loading and recovering a world through    *)
(* five files and a directory of lineage records.                          *)
(*                                                                         *)
(* One operation runs at a time, which is what the store requires of its   *)
(* callers (the writer lease and the platform lock are to provide it); the *)
(* files outlive the process, and the process may exit between any two     *)
(* file-system calls.  Each action is one such call together with the      *)
(* synchronous code around it.                                             *)
(***************************************************************************)
EXTENDS SnapshotFiles, FiniteSets

CONSTANTS
    MaxOperations,   \* bound: operations started
    MaxToken,        \* bound: fencing tokens issued to successive writers
    MixUnleased      \* may unleased saves follow leased ones?

ASSUME StoreAssumption ==
    /\ MaxOperations \in Nat
    /\ MaxToken \in Nat
    /\ MixUnleased \in BOOLEAN

VARIABLES
    files,         \* the five snapshot files
    records,       \* snapshots with a complete lineage record
    tornRecords,   \* snapshots whose record file is created but not written
    epoch,         \* the fencing token of the current leased writer, 0 if none
    pc,            \* the next file-system call of the running operation
    request,       \* what the running operation was called with
    base,          \* the snapshot its recovery selected, <<>> if none
    new,           \* the envelope a save is installing, <<>> before it exists
    cursor,        \* the generation whose lineage record is next
    outcome,       \* how the last operation ended
    known,         \* the snapshot the caller was last told is durable
    acked,         \* history: snapshots whose save returned COMMITTED
    operations     \* history: operations started

diskVars == <<files, records, tornRecords>>
vars == <<files, records, tornRecords, epoch, pc, request, base, new, cursor,
          outcome, known, acked, operations>>

Kinds == {"save", "load", "acquire"}
Request == [kind : Kinds, policy : Nat, checkBase : BOOLEAN,
            expected : Seq(Payload)]
NoRequest == [kind |-> "load", policy |-> 0, checkBase |-> FALSE, expected |-> <<>>]

RecoverySteps == {"inspect", "promoteClear", "promoteOpen", "promoteWrite",
                  "promoteRename", "promoteVerify", "recovered"}
LineageSteps  == {"reconcile", "record", "recordWrite", "recordVerify", "verifyChain"}
SaveSteps     == {"build", "saveOpen", "saveWrite", "backup", "backupWrite",
                  "backupRename", "install", "verifyPrimary"}
CleanupSteps  == {"cleanTemp", "cleanRecoveryTemp", "cleanBackupTemp"}
Steps == {"idle"} \cup RecoverySteps \cup LineageSteps \cup SaveSteps \cup CleanupSteps

Refusals == {"SNAPSHOT_GENERATION_CONFLICT", "NO_ELIGIBLE_SNAPSHOT",
             "NO_VALID_SNAPSHOT", "RECOVERY_PROMOTION_VERIFICATION_FAILED",
             "CHECKPOINT_BASE_CHANGED", "SNAPSHOT_LINEAGE_RECORD_CORRUPT",
             "SNAPSHOT_LINEAGE_RECONCILIATION_GAP",
             "SNAPSHOT_LINEAGE_PARENT_MISSING", "SNAPSHOT_FENCING",
             "PRIMARY_VERIFICATION_FAILED"}
\* How a restore of a recovery capsule ends; the operations here never do.
RestoreOutcomes == {"RESTORED", "ALREADY_RESTORED", "RECOVERY_TARGET_NOT_EMPTY"}
Outcomes == Refusals \cup RestoreOutcomes
            \cup {"NONE", "INTERRUPTED", "COMMITTED", "LOADED", "RECOVERED", "EMPTY"}

\* allowMissing: loadAtomicWorldSnapshot is the one caller that passes false.
AllowMissing == request.kind # "load"

\* The snapshot whose lineage the operation is recording or verifying.
Subject == IF new # <<>> THEN new ELSE base

Init ==
    /\ files = [p \in AllPaths |-> Missing]
    /\ records = {}
    /\ tornRecords = {}
    /\ epoch = 0
    /\ pc = "idle"
    /\ request = NoRequest
    /\ base = <<>>
    /\ new = <<>>
    /\ cursor = 0
    /\ outcome = "NONE"
    /\ known = <<>>
    /\ acked = {}
    /\ operations = 0

-----------------------------------------------------------------------------
\* Control: what every step leaves alone, and how an operation ends.
Goto(step) == pc' = step

Running == <<request, base, new, cursor>>
History == <<epoch, outcome, known, acked, operations>>

\* The memory of the operation is gone once it has ended.
Stop(result) ==
    /\ pc' = "idle"
    /\ request' = NoRequest
    /\ base' = <<>>
    /\ new' = <<>>
    /\ cursor' = 0
    /\ outcome' = result

Return(result) == Stop(result) /\ UNCHANGED <<diskVars, epoch, operations>>

\* An exception leaves the files as they are; the caller learns nothing.
Refuse(code) == Return(code) /\ UNCHANGED <<known, acked>>

SetFile(p, c) == files' = [files EXCEPT ![p] = c]

\* renameReplacing, when its source exists and the platform replaces the target.
Rename(from, to) ==
    files' = [files EXCEPT ![to] = files[from], ![from] = Missing]

-----------------------------------------------------------------------------
\* A writer that has acquired the lease carries a higher token than any before.
NewWriter ==
    /\ pc = "idle"
    /\ epoch < MaxToken
    /\ epoch' = epoch + 1
    /\ UNCHANGED <<diskVars, pc, Running, outcome, known, acked, operations>>

\* saveAtomicWorldSnapshot, loadAtomicWorldSnapshot, or the recovery that
\* acquireWriterLease runs.  Loads may always come without a lease.
Begin(kind, policy, checkBase) ==
    /\ pc = "idle"
    /\ operations < MaxOperations
    /\ policy = 0 => \/ kind = "load"
                     \/ kind = "save" /\ (epoch = 0 \/ MixUnleased)
    /\ request' = [kind |-> kind, policy |-> policy, checkBase |-> checkBase,
                   expected |-> IF checkBase THEN known ELSE <<>>]
    /\ pc' = "inspect"
    /\ outcome' = "NONE"
    /\ operations' = operations + 1
    /\ UNCHANGED <<diskVars, base, new, cursor, epoch, known, acked>>

\* Process exit at any await, or a stage hook, an authority guard or the file
\* system throwing: no handler touches the files.
Interrupt ==
    /\ pc # "idle"
    /\ Refuse("INTERRUPTED")

-----------------------------------------------------------------------------
\* recoverAtomicWorldSnapshot.
InspectEmpty ==
    /\ pc = "inspect"
    /\ ~AnyExisting(files)
    /\ AllowMissing
    /\ Goto("recovered")
    /\ UNCHANGED <<diskVars, Running, History>>

InspectFencedTransients ==
    /\ pc = "inspect"
    /\ FencedTransientsOnly(files, request.policy)
    /\ AllowMissing
    /\ Goto("cleanTemp")
    /\ UNCHANGED <<diskVars, Running, History>>

\* Two highest identities, or nothing to select in a store that is not empty.
InspectRefuse ==
    /\ pc = "inspect"
    /\ \/ Conflict(files, request.policy)
       \/ /\ EligibleValid(files, request.policy) = {}
          /\ ~(/\ AllowMissing
               /\ \/ ~AnyExisting(files)
                  \/ FencedTransientsOnly(files, request.policy))
    /\ Refuse(IF EligibleValid(files, request.policy) # {}
                 THEN "SNAPSHOT_GENERATION_CONFLICT"
              ELSE IF Valid(files) # {} THEN "NO_ELIGIBLE_SNAPSHOT"
              ELSE "NO_VALID_SNAPSHOT")

InspectSelect ==
    /\ pc = "inspect"
    /\ EligibleValid(files, request.policy) # {}
    /\ ~Conflict(files, request.policy)
    /\ base' = Selected(files, request.policy)
    /\ Goto(IF files["primary"] = Holds(base') THEN "cleanTemp" ELSE "promoteClear")
    /\ UNCHANGED <<diskVars, request, new, cursor, History>>

PromoteClear ==
    /\ pc = "promoteClear"
    /\ SetFile("recoveryTemp", Missing)
    /\ Goto("promoteOpen")
    /\ UNCHANGED <<records, tornRecords, Running, History>>

PromoteOpen ==
    /\ pc = "promoteOpen"
    /\ SetFile("recoveryTemp", Torn)
    /\ Goto("promoteWrite")
    /\ UNCHANGED <<records, tornRecords, Running, History>>

PromoteWrite ==
    /\ pc = "promoteWrite"
    /\ SetFile("recoveryTemp", Holds(base))
    /\ Goto("promoteRename")
    /\ UNCHANGED <<records, tornRecords, Running, History>>

PromoteRename ==
    /\ pc = "promoteRename"
    /\ Rename("recoveryTemp", "primary")
    /\ Goto("promoteVerify")
    /\ UNCHANGED <<records, tornRecords, Running, History>>

PromoteVerify ==
    /\ pc = "promoteVerify"
    /\ IF files["primary"].snap = base
         THEN Goto("cleanTemp") /\ UNCHANGED <<diskVars, Running, History>>
         ELSE Refuse("RECOVERY_PROMOTION_VERIFICATION_FAILED")

\* cleanupTransientSnapshotPaths removes the three transients one by one; it
\* ends a recovery, and later the save that follows it.
Clean(p, step, then) ==
    /\ pc = step
    /\ SetFile(p, Missing)
    /\ Goto(then)
    /\ UNCHANGED <<records, tornRecords, Running, History>>

\* Fault: the recovery temp is left behind.
KeepRecoveryTemp == Clean("backupTemp", "cleanRecoveryTemp", "cleanBackupTemp")

CleanTemp == Clean("temp", "cleanTemp", "cleanRecoveryTemp")
CleanRecoveryTemp == Clean("recoveryTemp", "cleanRecoveryTemp", "cleanBackupTemp")
CleanBackupTemp == new = <<>> /\ Clean("backupTemp", "cleanBackupTemp", "recovered")

\* Fault: a save trusts that the lineage of its base is complete.
SkipReconciliation ==
    IF base = <<>> \/ request.kind = "save" THEN "build" ELSE "reconcile"

\* reconcileCurrentLineage returns at once for generation 0.
AfterRecovery == IF base = <<>> THEN "build" ELSE "reconcile"

\* What the caller of the recovery does with it: a save checks the expected
\* base and then, like a load, reconciles the lineage of what it found.
Recovered ==
    /\ pc = "recovered"
    /\ CASE request.kind = "acquire" ->
              /\ Return(IF base = <<>> THEN "EMPTY" ELSE "RECOVERED")
              /\ known' = base
              /\ UNCHANGED acked
         [] request.kind = "save" /\ request.checkBase /\ request.expected # base ->
              Refuse("CHECKPOINT_BASE_CHANGED")
         [] OTHER ->
              /\ Goto(AfterRecovery)
              /\ UNCHANGED <<diskVars, Running, History>>

-----------------------------------------------------------------------------
\* reconcileSnapshotLineageCandidates and recordSnapshotLineage.
Reconcile ==
    /\ pc = "reconcile"
    /\ IF tornRecords # {}
         THEN Refuse("SNAPSHOT_LINEAGE_RECORD_CORRUPT")
       ELSE IF ReconciliationGap(records, files, base)
         THEN Refuse("SNAPSHOT_LINEAGE_RECONCILIATION_GAP")
       ELSE /\ \E g \in 0..Len(base) :
                  RecordedUpTo(records, base, g) /\ cursor' = g + 1
            /\ Goto(IF cursor' <= Len(base) THEN "record" ELSE "verifyChain")
            /\ UNCHANGED <<diskVars, request, base, new, History>>

\* The record file is created exclusively; an existing complete record of the
\* same snapshot is the same record.
Record ==
    /\ pc = "record"
    /\ LET s == Ancestor(Subject, cursor) IN
         IF tornRecords # {}
           THEN Refuse("SNAPSHOT_LINEAGE_RECORD_CORRUPT")
         ELSE IF cursor > 1 /\ Ancestor(Subject, cursor - 1) \notin records
           THEN Refuse("SNAPSHOT_LINEAGE_PARENT_MISSING")
         ELSE /\ IF s \in records
                   THEN Goto("recordVerify") /\ UNCHANGED tornRecords
                   ELSE Goto("recordWrite") /\ tornRecords' = tornRecords \cup {s}
              /\ UNCHANGED <<files, records, Running, History>>

RecordWrite ==
    /\ pc = "recordWrite"
    /\ LET s == Ancestor(Subject, cursor) IN
         /\ tornRecords' = tornRecords \ {s}
         /\ records' = records \cup {s}
    /\ Goto("recordVerify")
    /\ UNCHANGED <<files, Running, History>>

\* verifySnapshotLineage refuses a broken or fencing-regressive chain.
VerifyUpTo(g, then) ==
    IF ~ChainRecorded(records, Ancestor(Subject, g))
      THEN Refuse("SNAPSHOT_LINEAGE_PARENT_MISSING")
    ELSE IF ~FencingProgress(Ancestor(Subject, g))
      THEN Refuse("SNAPSHOT_FENCING")
    ELSE then

RecordVerify ==
    /\ pc = "recordVerify"
    /\ VerifyUpTo(cursor,
         /\ cursor' = cursor + 1
         /\ Goto(IF cursor < Len(Subject) THEN "record"
                 ELSE IF new = <<>> THEN "verifyChain" ELSE "cleanTemp")
         /\ UNCHANGED <<diskVars, request, base, new, History>>)

VerifyChain ==
    /\ pc = "verifyChain"
    /\ VerifyUpTo(Len(base),
         IF request.kind = "load"
           THEN Return("LOADED") /\ known' = base /\ UNCHANGED acked
           ELSE Goto("build") /\ UNCHANGED <<diskVars, Running, History>>)

-----------------------------------------------------------------------------
\* The second half of saveAtomicWorldSnapshot.

\* Fault: the checkpoint is left out of the envelope.
BuildWithoutCheckpoint(world) ==
    /\ pc = "build"
    /\ new' = Append(base, [world |-> world])
    /\ SetFile("temp", Missing)
    /\ Goto("saveOpen")
    /\ UNCHANGED <<records, tornRecords, request, base, cursor, History>>

Build(world) ==
    /\ pc = "build"
    /\ new' = Append(base, [world |-> world, token |-> request.policy])
    /\ SetFile("temp", Missing)
    /\ Goto("saveOpen")
    /\ UNCHANGED <<records, tornRecords, request, base, cursor, History>>

SaveOpen ==
    /\ pc = "saveOpen"
    /\ SetFile("temp", Torn)
    /\ Goto("saveWrite")
    /\ UNCHANGED <<records, tornRecords, Running, History>>

SaveWrite ==
    /\ pc = "saveWrite"
    /\ SetFile("temp", Holds(new))
    /\ Goto("backup")
    /\ UNCHANGED <<records, tornRecords, Running, History>>

\* Fault: the primary is replaced without a backup.
NoBackup ==
    /\ pc = "backup"
    /\ Goto("install")
    /\ UNCHANGED <<diskVars, Running, History>>

\* copyPrimaryToBackup: ENOENT on the primary skips the backup.
Backup ==
    /\ pc = "backup"
    /\ IF files["primary"].exists
         THEN SetFile("backupTemp", Torn) /\ Goto("backupWrite")
         ELSE UNCHANGED files /\ Goto("install")
    /\ UNCHANGED <<records, tornRecords, Running, History>>

BackupWrite ==
    /\ pc = "backupWrite"
    /\ SetFile("backupTemp", files["primary"])
    /\ Goto("backupRename")
    /\ UNCHANGED <<records, tornRecords, Running, History>>

BackupRename ==
    /\ pc = "backupRename"
    /\ Rename("backupTemp", "backup")
    /\ Goto("install")
    /\ UNCHANGED <<records, tornRecords, Running, History>>

Install ==
    /\ pc = "install"
    /\ Rename("temp", "primary")
    /\ Goto("verifyPrimary")
    /\ UNCHANGED <<records, tornRecords, Running, History>>

VerifyPrimary ==
    /\ pc = "verifyPrimary"
    /\ IF files["primary"].snap = new
         THEN /\ cursor' = Len(new)
              /\ Goto("record")
              /\ UNCHANGED <<diskVars, request, base, new, History>>
         ELSE Refuse("PRIMARY_VERIFICATION_FAILED")

\* The last cleanup of a save, and its COMMITTED receipt.
Commit ==
    /\ pc = "cleanBackupTemp"
    /\ new # <<>>
    /\ SetFile("backupTemp", Missing)
    /\ Stop("COMMITTED")
    /\ known' = new
    /\ acked' = acked \cup {new}
    /\ UNCHANGED <<records, tornRecords, epoch, operations>>

-----------------------------------------------------------------------------
Recovery ==
    \/ InspectEmpty \/ InspectFencedTransients \/ InspectRefuse \/ InspectSelect
    \/ PromoteClear \/ PromoteOpen \/ PromoteWrite \/ PromoteRename \/ PromoteVerify
    \/ CleanTemp \/ CleanRecoveryTemp \/ CleanBackupTemp \/ Recovered

Lineage == Reconcile \/ Record \/ RecordWrite \/ RecordVerify \/ VerifyChain

Saving ==
    \/ \E world \in Worlds : Build(world)
    \/ SaveOpen \/ SaveWrite
    \/ Backup \/ BackupWrite \/ BackupRename
    \/ Install \/ VerifyPrimary \/ Commit

Environment ==
    \/ NewWriter
    \/ \E kind \in Kinds, policy \in {0, epoch}, check \in BOOLEAN :
          Begin(kind, policy, check)
    \/ Interrupt

Next == Recovery \/ Lineage \/ Saving \/ Environment

Spec == Init /\ [][Next]_vars

-----------------------------------------------------------------------------
TypeOK ==
    /\ files \in [AllPaths -> Content]
    /\ records \subseteq Seq(Payload)
    /\ tornRecords \subseteq Seq(Payload)
    /\ epoch \in Nat
    /\ pc \in Steps
    /\ request \in Request
    /\ base \in Seq(Payload)
    /\ new \in Seq(Payload)
    /\ cursor \in Nat
    /\ outcome \in Outcomes
    /\ known \in Seq(Payload)
    /\ acked \subseteq Seq(Payload)
    /\ operations \in Nat

Policies == 0..(MaxToken + 1)

\* Whatever stage a save or a recovery was stopped at, no two files offer
\* different worlds at the same highest generation, under no reader's policy:
\* selectCandidate never has to refuse the store as a conflict.
NoGenerationConflict == \A policy \in Policies : ~Conflict(files, policy)

\* A save that returned COMMITTED is never undone: at every instant, and for
\* every reader, the snapshot recovery would select exists and descends from
\* every acknowledged one.
AckedSurvives ==
    \A policy \in Policies, a \in acked :
        /\ EligibleValid(files, policy) # {}
        /\ \A s \in Highest(files, policy) : IsPrefix(a, s)

\* The walk that repairs missing lineage records never lacks an envelope: at
\* every instant the selection's unrecorded ancestors are still candidates.
LineageReconcilable ==
    \A policy \in Policies : \A s \in Highest(files, policy) :
        ~ReconciliationGap(records, files, s)

\* The committed head: primary, or the backup behind a damaged primary.
CommittedHead ==
    IF IsValid(files["primary"]) THEN files["primary"].snap ELSE files["backup"].snap

\* The store implements a register that only ever moves to a child of its
\* value and whose acknowledged values are values it has held: recovery after
\* a crash may install what a save had written, and nothing else.
Register == INSTANCE SnapshotRegister WITH head <- CommittedHead, acked <- acked
ImplementsRegister == Register!Spec

\* The committed head of a store at rest has a chain its own lineage
\* verification accepts: no token below an earlier one, no unfenced generation
\* after a fenced one.  A save checks this only after its primary is installed.
CommittedHeadLoads == pc = "idle" => FencingProgress(CommittedHead)

\* A store with an acknowledged snapshot can always be loaded again: no
\* interrupted operation leaves lineage evidence that every later load refuses.
AckedStoreLoads == pc = "idle" /\ acked # {} => tornRecords = {}

-----------------------------------------------------------------------------
(***************************************************************************)
(* The inductive invariant behind AckedSurvives, NoGenerationConflict and  *)
(* ImplementsRegister.                                                     *)
(***************************************************************************)
Primary == files["primary"].snap

Recording == {"record", "recordWrite", "recordVerify"}

\* The memory of the running operation: a save has its envelope exactly from
\* build on, and the record cursor points into the history being recorded.
OperationInv ==
    /\ pc \in {"idle", "reconcile", "verifyChain", "build"} \cup RecoverySteps => new = <<>>
    /\ pc \in SaveSteps \ {"build"} => new # <<>>
    /\ pc \in Recording => cursor \in 1..Len(Subject)

\* The files at any instant, whatever was interrupted before.
DiskInv == Consistent(files, acked)

Promoting   == {"promoteClear", "promoteOpen", "promoteWrite", "promoteRename"}
TempWritten == {"backup", "backupWrite", "backupRename", "install"}

\* What the running operation knows about the files at each of its steps.
StageInv ==
    /\ pc \in {"idle", "inspect"} => base = <<>>
    /\ pc \in Promoting =>
          /\ IsChild(base, Primary)
          /\ IsValid(files["temp"]) => files["temp"].snap = base
    /\ pc = "promoteRename" => files["recoveryTemp"] = Holds(base)
    /\ pc \in {"promoteVerify", "recovered", "reconcile", "verifyChain", "build"} =>
          base = Primary
    /\ pc \in CleanupSteps \cup Recording =>
          Subject = Primary
    /\ pc = "verifyPrimary" => new = Primary
    /\ pc \in {"cleanRecoveryTemp", "cleanBackupTemp", "recovered"}
              \cup LineageSteps \cup (SaveSteps \ TempWritten) =>
          ~IsValid(files["temp"])
    /\ pc \in {"cleanBackupTemp", "recovered"} \cup LineageSteps \cup SaveSteps =>
          ~IsValid(files["recoveryTemp"])
    /\ pc \in {"saveOpen", "saveWrite"} \cup TempWritten =>
          base = Primary /\ IsChild(new, base)
    /\ pc \in TempWritten => files["temp"] = Holds(new)
    /\ pc = "backupRename" => files["backupTemp"] = files["primary"]

IInv == TypeOK /\ OperationInv /\ DiskInv /\ StageInv

-----------------------------------------------------------------------------
(***************************************************************************)
(* The inductive invariant behind LineageReconcilable.  A save does not    *)
(* write an envelope before the whole lineage of its parent is recorded,   *)
(* so at every instant the parent of whatever the files hold has a         *)
(* complete chain of records.                                              *)
(***************************************************************************)
ParentRecorded(s) == s # <<>> => ChainRecorded(records, Front(s))

LineageInv ==
    /\ \A p \in AllPaths : ParentRecorded(files[p].snap)
    /\ pc \in Promoting => ParentRecorded(base)
    /\ pc = "build" => ChainRecorded(records, base)
    /\ pc \in SaveSteps => ParentRecorded(new)

=============================================================================
