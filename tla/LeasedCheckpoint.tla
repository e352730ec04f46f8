-------------------------- MODULE LeasedCheckpoint --------------------------
(***************************************************************************)
(* Saving under a writer lease and the platform lock (leased-checkpoint.js *)
(* over atomic-store.js, recovery.js and platform-lock.js): what           *)
(* AtomicStore has one operation do at a time, several processes do here   *)
(* at once.                                                                *)
(*                                                                         *)
(* A process may be suspended at any await for as long as it takes another *)
(* to become the owner and save, and then go on.  The code asserts the     *)
(* lease and the lock at named boundaries and acts behind them; a process  *)
(* suspended in between may be overtaken and go on to act, a gap its       *)
(* documents admit.  "overtaken" records that this has touched a file: the *)
(* properties say what holds until then, whatever else the suspended       *)
(* processes do, and so what the assertions achieve.                       *)
(*                                                                         *)
(* Coarser than AtomicStore, which models them step by step: the reads of  *)
(* one inspection are one step, so are the three deletions of a cleanup,   *)
(* a deletion and the creation that follows it, and the writing of lineage *)
(* records.                                                                *)
(***************************************************************************)
EXTENDS PlatformLock, SnapshotFiles

CONSTANTS
    MaxSaves,     \* bound: saves and loads started
    SharedHandle  \* may one process use the lease handle of another?

ASSUME CheckpointAssumption == MaxSaves \in Nat /\ SharedHandle \in BOOLEAN

VARIABLES
    files,       \* the five snapshot files, as in AtomicStore
    records,     \* snapshots with a lineage record
    handle,      \* handle[p]: the base snapshot in p's lease handle
    session,     \* session[p]: the memory of the operation p runs
    acked,       \* history: snapshots whose save was reported committed
    overtaken,   \* history: a process no longer the owner has changed a file
    saves        \* history: saves and loads started

storeVars == <<files, records, handle, session, acked, overtaken, saves>>
vars == <<lockVars, pc, storeVars>>

\* Where an operation is: the recovery of an acquisition, of a fenced load,
\* the first of a save, and the second, inside saveAtomicWorldSnapshot.
Phases == {"none", "acquire", "load", "admission", "save"}

\* owned: was p the owner when it last asserted it?  (Being overtaken since is
\* one thing, never having asserted it another.)
\* openAt: the path of the file p holds open for writing, "gone" once it has
\* been deleted or replaced.
Session == [phase : Phases, base : Seq(Payload), new : Seq(Payload),
            copy : Content, openAt : AllPaths \cup {"none", "gone"}, owned : BOOLEAN]
NoSession == [phase |-> "none", base |-> <<>>, new |-> <<>>, copy |-> Missing,
              openAt |-> "none", owned |-> FALSE]

RecoverySteps == {"inspect", "promoteOpen", "promoteWrite", "promoteRename",
                  "promoteVerify", "clean", "acquired"}
SaveSteps == {"admit", "reconcile", "guardTemp", "tempOpen", "tempWrite", "guardBackup",
              "backupOpen", "backupWrite", "backupRename", "guardInstall", "matchBase",
              "install", "guardVerify", "verify", "guardLineage", "lineage",
              "guardCommit", "commit"}
Steps == {"idle", "releaseAssert", "releaseRename"} \cup LockSteps
            \cup RecoverySteps \cup SaveSteps

Init ==
    /\ LockInit
    /\ pc = [p \in Processes |-> "idle"]
    /\ files = [path \in AllPaths |-> Missing]
    /\ records = {}
    /\ handle = [p \in Processes |-> <<>>]
    /\ session = [p \in Processes |-> NoSession]
    /\ acked = {}
    /\ overtaken = FALSE
    /\ saves = 0

-----------------------------------------------------------------------------
\* Control.
Phase(p) == session[p].phase
Base(p)  == session[p].base
New(p)   == session[p].new

AtStep(p, step) == pc[p] = step

Remember(p, changed) == session' = [session EXCEPT ![p] = changed]

\* Steps of the snapshot store leave the lease and the lock alone.
StoreOnly == UNCHANGED <<lockVars, handle, acked, saves>>
ReadOnly  == StoreOnly /\ UNCHANGED <<files, records, overtaken>>

\* Another process has taken p's place: a higher token has been granted, or,
\* in a save, the lock is no longer p's.
Superseded(p) ==
    \/ token[p] # latest
    \/ Phase(p) \notin {"acquire", "load"} /\ ~HoldsGate(p)

\* Files change; a handle another process holds on a file that is deleted or
\* replaced keeps the unlinked file, one on a renamed file follows it.
Change(p, fs, moved, changed) ==
    /\ files' = fs
    /\ session' = [q \in Processes |->
          IF q = p THEN changed
          ELSE [session[q] EXCEPT !.openAt = IF @ \in DOMAIN moved THEN moved[@] ELSE @]]
    /\ overtaken' = (overtaken \/ (/\ session[p].owned
                                  /\ Superseded(p)
                                  /\ \/ fs # files
                                     \/ \E q \in Processes \ {p} : session[q].openAt \in DOMAIN moved))
    /\ UNCHANGED records
    /\ StoreOnly

\* rm and open for writing: an empty file under the name.
Create(p, path, changed) ==
    Change(p, [files EXCEPT ![path] = Torn], [x \in {path} |-> "gone"],
           [changed EXCEPT !.openAt = path])

\* The content reaches the file that was opened, if it still has a name.
WriteOpen(p, content) ==
    LET path == session[p].openAt IN
    Change(p, IF path = "gone" THEN files ELSE [files EXCEPT ![path] = content],
           <<>>, [session[p] EXCEPT !.openAt = "none"])

\* renameReplacing, when its source exists and the platform replaces the target.
Rename(p, from, to) ==
    Change(p, [files EXCEPT ![to] = files[from], ![from] = Missing],
           [x \in {from, to} |-> IF x = from THEN to ELSE "gone"], session[p])

\* cleanupTransientSnapshotPaths.
CleanUp(p) ==
    LET gone == {"temp", "recoveryTemp", "backupTemp"} IN
    Change(p, [path \in AllPaths |-> IF path \in gone THEN Missing ELSE files[path]],
           [path \in gone |-> "gone"], session[p])

\* An exception: an acquisition that fails releases its lease, a save its
\* lock if it has taken it, and the memory of the operation is lost.
Fail(p) ==
    /\ Remember(p, NoSession)
    /\ UNCHANGED <<files, records, handle, acked, overtaken, saves>>
    /\ CASE Phase(p) = "acquire" -> Goto(p, "idle") /\ GiveUpLease(p)
         [] Phase(p) = "load"    -> Goto(p, "idle") /\ UNCHANGED lockVars
         [] OTHER                -> Goto(p, "releaseAssert") /\ UNCHANGED lockVars

-----------------------------------------------------------------------------
\* Operations begin.

\* acquireWriterLease, from its activation on: the recovery that determines
\* the base of the handle, without the platform lock.
Acquire(p) ==
    /\ AtStep(p, "idle")
    /\ Grant(p)
    /\ Remember(p, [NoSession EXCEPT !.phase = "acquire", !.owned = TRUE])
    /\ Goto(p, "inspect")
    /\ UNCHANGED <<files, records, handle, acked, overtaken, saves>>

\* The same handle passed to two concurrent calls.
Share(p, q) ==
    /\ SharedHandle
    /\ AtStep(p, "idle") /\ token[p] = 0
    /\ token[q] # 0 /\ Phase(q) \notin {"acquire", "load"}
    /\ token' = [token EXCEPT ![p] = token[q]]
    /\ handle' = [handle EXCEPT ![p] = handle[q]]
    /\ UNCHANGED <<gate, latest, live, abandoned, pc, files, records, session, acked,
                   overtaken, saves>>

\* saveLeasedAtomicWorldSnapshot renews and asserts the lease, then takes the
\* lock; loadFencedAtomicWorldSnapshot asserts it and recovers without.  A load
\* beside a save of the same lease is left to the caller to avoid: it may put
\* the candidate it has selected over what the save has committed since.
BeginSave(p) ==
    /\ AtStep(p, "idle")
    /\ LeaseHeld(p)
    /\ saves < MaxSaves
    /\ saves' = saves + 1
    /\ Remember(p, [NoSession EXCEPT !.phase = "admission", !.owned = TRUE])
    /\ Goto(p, "lockMake")
    /\ UNCHANGED <<lockVars, files, records, handle, acked, overtaken>>

BeginLoad(p) ==
    /\ AtStep(p, "idle")
    /\ LeaseHeld(p)
    /\ \A q \in Processes \ {p} : token[q] # token[p]
    /\ saves < MaxSaves
    /\ saves' = saves + 1
    /\ Remember(p, [NoSession EXCEPT !.phase = "load", !.owned = TRUE])
    /\ Goto(p, "inspect")
    /\ UNCHANGED <<lockVars, files, records, handle, acked, overtaken>>

Release(p) ==
    /\ AtStep(p, "idle")
    /\ LeaseHeld(p)
    /\ GiveUpLease(p)
    /\ UNCHANGED <<pc, storeVars>>

\* A stage hook, an authority hook or the file system throws.
Throw(p) ==
    /\ pc[p] \in RecoverySteps \cup SaveSteps
    /\ Fail(p)

Exit(p) ==
    /\ ~(AtStep(p, "idle") /\ token[p] = 0)
    /\ LoseProcess(p)
    /\ Goto(p, "idle")
    /\ Remember(p, NoSession)
    /\ handle' = [handle EXCEPT ![p] = <<>>]
    /\ UNCHANGED <<files, records, acked, overtaken, saves>>

\* A save that could not take the lock is refused; nothing of it is left.
Refused(p) ==
    /\ Remember(p, NoSession)
    /\ UNCHANGED <<files, records, handle, acked, overtaken, saves>>

TakeLock(p) ==
    \/ /\ \/ MakeLock(p) \/ OpenOwner(p) \/ WriteOwner(p, "inspect")
          \/ CreationThrows(p) \/ FindStale(p) \/ StealLock(p)
       /\ UNCHANGED storeVars
    \/ (RemoveLock(p, "idle") \/ Contended(p, "idle")) /\ Refused(p)

-----------------------------------------------------------------------------
\* recoverAtomicWorldSnapshot, with the candidate policy of p's own token.
AfterRecovery(p) ==
    CASE Phase(p) = "acquire"   -> "acquired"
      [] Phase(p) = "admission" -> "admit"
      [] OTHER                  -> "reconcile"

Inspect(p) ==
    /\ AtStep(p, "inspect")
    /\ IF Conflict(files, token[p]) THEN Fail(p)
       ELSE IF EligibleValid(files, token[p]) # {}
         THEN LET s == Selected(files, token[p]) IN
              /\ Remember(p, [session[p] EXCEPT !.base = s])
              /\ Goto(p, IF files["primary"].snap = s THEN "clean" ELSE "promoteOpen")
              /\ ReadOnly
       ELSE IF Phase(p) # "load" /\ (~AnyExisting(files) \/ FencedTransientsOnly(files, token[p]))
         THEN /\ Remember(p, [session[p] EXCEPT !.base = <<>>])
              /\ Goto(p, IF AnyExisting(files) THEN "clean" ELSE AfterRecovery(p))
              /\ ReadOnly
       ELSE Fail(p)

PromoteOpen(p) ==
    /\ AtStep(p, "promoteOpen")
    /\ Create(p, "recoveryTemp", session[p])
    /\ Goto(p, "promoteWrite")

PromoteWrite(p) ==
    /\ AtStep(p, "promoteWrite")
    /\ WriteOpen(p, Holds(Base(p)))
    /\ Goto(p, "promoteRename")

PromoteRename(p) ==
    /\ AtStep(p, "promoteRename")
    /\ IF files["recoveryTemp"].exists
         THEN Rename(p, "recoveryTemp", "primary") /\ Goto(p, "promoteVerify")
         ELSE Fail(p)

PromoteVerify(p) ==
    /\ AtStep(p, "promoteVerify")
    /\ IF files["primary"].snap = Base(p)
         THEN Goto(p, "clean") /\ UNCHANGED session /\ ReadOnly
         ELSE Fail(p)

Clean(p) ==
    /\ AtStep(p, "clean")
    /\ CleanUp(p)
    /\ Goto(p, AfterRecovery(p))

Recover(p) ==
    \/ Inspect(p) \/ PromoteOpen(p) \/ PromoteWrite(p) \/ PromoteRename(p)
    \/ PromoteVerify(p) \/ Clean(p)

\* The acquisition records the base and returns the handle.
Acquired(p) ==
    /\ AtStep(p, "acquired")
    /\ handle' = [handle EXCEPT ![p] = Base(p)]
    /\ Remember(p, NoSession)
    /\ Goto(p, "idle")
    /\ UNCHANGED <<lockVars, files, records, acked, overtaken, saves>>

-----------------------------------------------------------------------------
\* Fault: a boundary asserts the lease and not the lock.
GuardLeaseOnly(p, step, then) ==
    /\ AtStep(p, step)
    /\ IF LeaseHeld(p)
         THEN /\ Remember(p, [session[p] EXCEPT !.owned = LeaseHeld(p) /\ LockHeld(p)])
              /\ Goto(p, then)
              /\ ReadOnly
         ELSE Fail(p)

\* authorityGuard: the lease is asserted, then the lock.
Guard(p, step, then) ==
    /\ AtStep(p, step)
    /\ IF LeaseHeld(p) /\ LockHeld(p)
         THEN /\ Remember(p, [session[p] EXCEPT !.owned = LeaseHeld(p) /\ LockHeld(p)])
              /\ Goto(p, then)
              /\ ReadOnly
         ELSE Fail(p)

\* Admission: the base is the one the handle was issued for, the lease and the
\* lock are asserted, and the world is frozen; the save proper begins with a
\* recovery of its own.
Admit(p) ==
    /\ AtStep(p, "admit")
    /\ IF Base(p) = handle[p] /\ LeaseHeld(p) /\ LockHeld(p)
         THEN /\ Remember(p, [session[p] EXCEPT !.phase = "save", !.owned = TRUE])
              /\ Goto(p, "inspect")
              /\ ReadOnly
         ELSE Fail(p)

\* createImmutableCheckpointSession refuses a world with a cell that is awake.
RejectAtBarrier(p) ==
    /\ AtStep(p, "admit")
    /\ Base(p) = handle[p] /\ LeaseHeld(p) /\ LockHeld(p)
    /\ Fail(p)

\* The expected base again, then the lineage of what is selected by now.
Reconcilable(s) ==
    /\ ~ReconciliationGap(records, files, s)
    /\ FencingProgress(s)

Ancestors(s) == {Ancestor(s, g) : g \in 1..Len(s)}

Reconcile(p) ==
    /\ AtStep(p, "reconcile")
    /\ IF Phase(p) = "save" /\ Base(p) # handle[p] THEN Fail(p)
       ELSE IF Base(p) = <<>> THEN Goto(p, "guardTemp") /\ UNCHANGED session /\ ReadOnly
       ELSE IF \/ EligibleValid(files, token[p]) = {}
               \/ ~Reconcilable(Selected(files, token[p])) THEN Fail(p)
       ELSE /\ records' = records \cup Ancestors(Selected(files, token[p]))
            /\ IF Phase(p) = "load"
                 THEN Remember(p, NoSession) /\ Goto(p, "idle")
                 ELSE UNCHANGED session /\ Goto(p, "guardTemp")
            /\ StoreOnly
            /\ UNCHANGED <<files, overtaken>>

-----------------------------------------------------------------------------
\* saveAtomicWorldSnapshot with its authority boundaries.
GuardTemp(p) == Guard(p, "guardTemp", "tempOpen")

\* The envelope carries the checkpoint admitted for it, and with it the token.
Envelope(p, world) == Append(Base(p), [world |-> world, token |-> token[p]])

TempOpen(p, world) ==
    /\ AtStep(p, "tempOpen")
    /\ Create(p, "temp", [session[p] EXCEPT !.new = Envelope(p, world)])
    /\ Goto(p, "tempWrite")

TempWrite(p) ==
    /\ AtStep(p, "tempWrite")
    /\ WriteOpen(p, Holds(New(p)))
    /\ Goto(p, "guardBackup")

GuardBackup(p) == Guard(p, "guardBackup", "backupOpen")

\* copyPrimaryToBackup; ENOENT, also of the rename, skips the backup.
BackupOpen(p) ==
    /\ AtStep(p, "backupOpen")
    /\ IF files["primary"].exists
         THEN /\ Create(p, "backupTemp", [session[p] EXCEPT !.copy = files["primary"]])
              /\ Goto(p, "backupWrite")
         ELSE Goto(p, "guardInstall") /\ UNCHANGED session /\ ReadOnly

BackupWrite(p) ==
    /\ AtStep(p, "backupWrite")
    /\ WriteOpen(p, session[p].copy)
    /\ Goto(p, "backupRename")

BackupRename(p) ==
    /\ AtStep(p, "backupRename")
    /\ IF files["backupTemp"].exists
         THEN Rename(p, "backupTemp", "backup")
         ELSE UNCHANGED session /\ ReadOnly
    /\ Goto(p, "guardInstall")

GuardInstall(p) == Guard(p, "guardInstall", "matchBase")

\* assertPrimaryStillMatchesBase, after the lease and the lock.
MatchBase(p) ==
    /\ AtStep(p, "matchBase")
    /\ IF files["primary"].snap = Base(p) /\ (Base(p) = <<>> => ~files["primary"].exists)
         THEN Goto(p, "install") /\ UNCHANGED session /\ ReadOnly
         ELSE Fail(p)

Install(p) ==
    /\ AtStep(p, "install")
    /\ IF files["temp"].exists
         THEN Rename(p, "temp", "primary") /\ Goto(p, "guardVerify")
         ELSE Fail(p)

GuardVerify(p) == Guard(p, "guardVerify", "verify")

Verify(p) ==
    /\ AtStep(p, "verify")
    /\ IF files["primary"].snap = New(p)
         THEN Goto(p, "guardLineage") /\ UNCHANGED session /\ ReadOnly
         ELSE Fail(p)

GuardLineage(p) == Guard(p, "guardLineage", "lineage")

RecordLineage(p) ==
    /\ AtStep(p, "lineage")
    /\ IF (Base(p) # <<>> => ChainRecorded(records, Base(p))) /\ FencingProgress(New(p))
         THEN /\ records' = records \cup {New(p)}
              /\ Goto(p, "guardCommit")
              /\ StoreOnly
              /\ UNCHANGED <<files, overtaken, session>>
         ELSE Fail(p)

GuardCommit(p) == Guard(p, "guardCommit", "commit")

Commit(p) ==
    /\ AtStep(p, "commit")
    /\ CleanUp(p)
    /\ Goto(p, "releaseAssert")

\* The lock is released whatever the outcome; the receipt carries the lease
\* handle with the new base.
Deliver(p) ==
    /\ IF New(p) # <<>>
         THEN acked' = acked \cup {New(p)} /\ handle' = [handle EXCEPT ![p] = New(p)]
         ELSE UNCHANGED <<acked, handle>>
    /\ Remember(p, NoSession)
    /\ UNCHANGED <<files, records, overtaken, saves>>

ReleaseLock(p) ==
    \/ /\ AssertRelease(p, "idle")
       /\ IF HoldsGate(p) THEN UNCHANGED storeVars ELSE Deliver(p)
    \/ RenameReleased(p, "idle") /\ Deliver(p)

Save(p) ==
    \/ Admit(p) \/ RejectAtBarrier(p) \/ Reconcile(p)
    \/ GuardTemp(p) \/ (\E world \in Worlds : TempOpen(p, world)) \/ TempWrite(p)
    \/ GuardBackup(p) \/ BackupOpen(p) \/ BackupWrite(p) \/ BackupRename(p)
    \/ GuardInstall(p) \/ MatchBase(p) \/ Install(p)
    \/ GuardVerify(p) \/ Verify(p) \/ GuardLineage(p) \/ RecordLineage(p)
    \/ GuardCommit(p) \/ Commit(p) \/ ReleaseLock(p)

Lease(p) ==
    \/ Acquire(p) \/ Acquired(p) \/ BeginSave(p) \/ BeginLoad(p) \/ Release(p)
    \/ \E q \in Processes : Share(p, q)

Next ==
    \/ \E p \in Processes : Lease(p) \/ TakeLock(p) \/ Recover(p) \/ Save(p)
                             \/ Throw(p) \/ Exit(p)
    \/ (LeaseExpires \/ LockExpires) /\ UNCHANGED storeVars

Spec == Init /\ [][Next]_vars

-----------------------------------------------------------------------------
TypeOK ==
    /\ LockTypeOK
    /\ pc \in [Processes -> Steps]
    /\ files \in [AllPaths -> Content]
    /\ records \subseteq Seq(Payload)
    /\ handle \in [Processes -> Seq(Payload)]
    /\ session \in [Processes -> Session]
    /\ acked \subseteq Seq(Payload)
    /\ overtaken \in BOOLEAN
    /\ saves \in Nat

Policies == 0..MaxToken

\* Of all the processes that believe they own the store, only those that do
\* change it: as long as none was overtaken between an assertion and the call
\* behind it, a save reported as committed is never undone, for no reader, at no
\* instant, however many suspended owners wake up, steal, fail and exit.
AckedSurvives ==
    ~overtaken =>
        \A policy \in Policies, a \in acked :
            /\ EligibleValid(files, policy) # {}
            /\ \A s \in Highest(files, policy) : IsPrefix(a, s)

\* Nor do two owners in succession, or two saves with one lease, leave two
\* worlds of one generation for recovery to choose from.
NoGenerationConflict ==
    ~overtaken => \A policy \in Policies : ~Conflict(files, policy)

\* The committed head: primary, or the backup behind a damaged primary.
CommittedHead ==
    IF IsValid(files["primary"]) THEN files["primary"].snap ELSE files["backup"].snap

\* Every step, of whichever process, leaves the committed head or replaces it by
\* a child of itself: no recovery, running outside the lock beside the save of
\* another process, puts an older world back over a newer one.
HeadMoves ==
    [][~overtaken' =>
          \/ CommittedHead' = CommittedHead
          \/ CommittedHead' # <<>> /\ Front(CommittedHead') = CommittedHead]_vars

-----------------------------------------------------------------------------
(***************************************************************************)
(* The inductive invariant behind AckedSurvives, NoGenerationConflict and  *)
(* HeadMoves.                                                              *)
(***************************************************************************)

\* At most one process is in the owner's place, and nobody returns to it with
\* an operation begun before it was lost.
ControlInv ==
    /\ live => latest > 0
    /\ \A p \in Processes : token[p] <= latest
    /\ \A p \in Processes : pc[p] = "idle" => Phase(p) = "none"
    /\ \A p \in Processes :
          pc[p] \in LockSteps \cup RecoverySteps \cup SaveSteps => session[p].owned
    /\ \A p \in Processes : Phase(p) \in {"acquire", "load"} =>
          token[p] # 0 /\ \A q \in Processes \ {p} : token[q] # token[p]

Primary == files["primary"].snap

Promoting == {"promoteOpen", "promoteWrite", "promoteRename"}
Preparing == {"admit", "reconcile", "guardTemp", "tempOpen", "tempWrite"}
Prepared  == {"guardBackup", "backupOpen", "backupWrite", "backupRename", "guardInstall",
              "matchBase", "install"}
Installed == {"guardLineage", "lineage", "guardCommit", "commit", "releaseAssert",
              "releaseRename"}

\* What p knows about the files as long as nobody has taken its place.
OwnerInv(p) ==
    /\ pc[p] \in Promoting =>
          /\ IsChild(Base(p), Primary)
          /\ IsValid(files["temp"]) => files["temp"].snap = Base(p)
    /\ pc[p] = "promoteWrite" => session[p].openAt = "recoveryTemp"
    /\ pc[p] = "promoteRename" => files["recoveryTemp"] = Holds(Base(p))
    /\ pc[p] \in {"promoteVerify", "clean"} \cup Preparing \cup Prepared => Base(p) = Primary
    /\ pc[p] \in Preparing => ~IsValid(files["temp"])
    /\ pc[p] \in Preparing \cup Prepared => ~IsValid(files["recoveryTemp"])
    /\ pc[p] \in {"tempWrite"} \cup Prepared => IsChild(New(p), Base(p))
    /\ pc[p] = "tempWrite" => session[p].openAt = "temp"
    /\ pc[p] \in Prepared => files["temp"] = Holds(New(p))
    /\ pc[p] = "backupWrite" =>
          session[p].openAt = "backupTemp" /\ session[p].copy = files["primary"]
    /\ pc[p] = "backupRename" => files["backupTemp"] = files["primary"]

\* What a save that has verified its installation will report is part of the
\* primary's history, whoever owns the store by then.
InstalledInv ==
    \A p \in Processes :
        pc[p] \in Installed /\ New(p) # <<>> => IsPrefix(New(p), Primary)

FilesInv ==
    /\ Consistent(files, acked)
    /\ InstalledInv
    /\ \A p \in Processes : ~Superseded(p) => OwnerInv(p)

IInv == TypeOK /\ ControlInv /\ (~overtaken => FilesInv)

=============================================================================
