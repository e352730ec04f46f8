---------------------- MODULE LeasedCheckpoint_proofs ----------------------
(***************************************************************************)
(* Proofs about saving under a writer lease and the platform lock.         *)
(*                                                                         *)
(* The argument: at most one process is in the owner's place (OneOwner), a *)
(* process that loses it does not return to it in the middle of an         *)
(* operation (StaysSuperseded), and until one acts all the same, which     *)
(* "overtaken" records, only the owner touches what is relied on           *)
(* (OwnerOrUndisturbed).  So what the owner has read of the files is still *)
(* true when it writes, and every write keeps them consistent              *)
(* (OwnerKeepsFiles, over the lemmas of SnapshotFiles_proofs).             *)
(***************************************************************************)
EXTENDS LeasedCheckpoint, SnapshotFiles_proofs

-----------------------------------------------------------------------------
(***************************************************************************)
(* What the shared pieces of the actions do.                               *)
(***************************************************************************)
Openings == AllPaths \cup {"none", "gone"}

LEMMA SessionTypes ==
    /\ NoSession \in Session
    /\ \A p \in Processes : session \in [Processes -> Session] =>
          /\ Base(p) \in Seq(Payload) /\ New(p) \in Seq(Payload)
          /\ session[p].copy \in Content /\ session[p].openAt \in Openings
    BY ContentTypes, EmptySeq
    DEF NoSession, Session, Phases, Base, New, Openings

\* A change of the files by p: what it leaves of the other processes' memory.
LEMMA ChangeEffect ==
    ASSUME TypeOK, NEW p \in Processes, NEW fs, NEW moved, NEW changed,
           Change(p, fs, moved, changed)
    PROVE  /\ files' = fs
           /\ session'[p] = changed
           /\ \A q \in Processes \ {p} :
                 /\ session'[q].phase = session[q].phase
                 /\ session'[q].base = session[q].base
                 /\ session'[q].new = session[q].new
                 /\ session'[q].owned = session[q].owned
           /\ overtaken' \/ ~session[p].owned \/ ~Superseded(p)
              \/ (fs = files /\ \A q \in Processes \ {p} : session'[q] = session[q])
           /\ ~overtaken' => ~overtaken
           /\ UNCHANGED <<records, lockVars, handle, acked, saves>>
    <1>1. /\ files' = fs
          /\ session'[p] = changed
          /\ \A q \in Processes \ {p} :
                session'[q] = [session[q] EXCEPT !.openAt =
                                  IF session[q].openAt \in DOMAIN moved
                                    THEN moved[session[q].openAt] ELSE session[q].openAt]
        BY DEF Change
    <1>2. \A q \in Processes : session[q] \in Session
        BY DEF TypeOK
    <1>3. \A q \in Processes \ {p} :
                 /\ session'[q].phase = session[q].phase
                 /\ session'[q].base = session[q].base
                 /\ session'[q].new = session[q].new
                 /\ session'[q].owned = session[q].owned
                 /\ session[q].openAt \notin DOMAIN moved => session'[q] = session[q]
        BY <1>1, <1>2 DEF Session
    <1>4. UNCHANGED <<records, lockVars, handle, acked, saves>>
        BY DEF Change, StoreOnly
    <1>5. overtaken' = (overtaken \/ (/\ session[p].owned
                                     /\ Superseded(p)
                                     /\ \/ fs # files
                                        \/ \E q \in Processes \ {p} : session[q].openAt \in DOMAIN moved))
        BY DEF Change
    <1>6. QED BY <1>1, <1>3, <1>4, <1>5

LEMMA ChangeTypes ==
    ASSUME TypeOK, NEW p \in Processes, NEW fs \in [AllPaths -> Content], NEW moved,
           \A x \in DOMAIN moved : moved[x] \in Openings, NEW changed \in Session,
           Change(p, fs, moved, changed), pc' \in [Processes -> Steps]
    PROVE  TypeOK'
    <1>1. session' \in [Processes -> Session]
        <2>1. SUFFICES ASSUME NEW q \in Processes PROVE session'[q] \in Session
            BY DEF Change
        <2>2. CASE q = p
            BY <2>2 DEF Change
        <2>3. CASE q # p
            <3>1. session'[q] = [session[q] EXCEPT !.openAt =
                                    IF session[q].openAt \in DOMAIN moved
                                      THEN moved[session[q].openAt] ELSE session[q].openAt]
                BY <2>3 DEF Change
            <3>2. session[q] \in Session /\ session[q].openAt \in Openings
                BY SessionTypes DEF TypeOK
            <3>3. PICK at \in Openings : session'[q] = [session[q] EXCEPT !.openAt = at]
                BY <3>1, <3>2
            <3>4. QED BY <3>2, <3>3 DEF Session, Openings
        <2>4. QED BY <2>2, <2>3
    <1>2. files' \in [AllPaths -> Content] /\ overtaken' \in BOOLEAN
        BY DEF Change, TypeOK
    <1>3. UNCHANGED <<lockVars, handle, acked, saves, records>>
        BY DEF Change, StoreOnly
    <1>4. QED BY <1>1, <1>2, <1>3 DEF TypeOK, LockTypeOK, lockVars

-----------------------------------------------------------------------------
(***************************************************************************)
(* Type correctness.                                                       *)
(***************************************************************************)
LEMMA GateTypes ==
    /\ Absent \in Gates
    /\ Bare \in Gates
    /\ LockTypeOK => \A p \in Processes, state \in {"torn", "held"} : OwnerFile(state, p) \in Gates
    BY DEF Absent, Bare, Gates, OwnerFile, LockTypeOK

LEMMA LeaseTypes ==
    ASSUME LockTypeOK, NEW p \in Processes,
           \/ Grant(p) \/ LeaseExpires \/ LockExpires \/ GiveUpLease(p) \/ LoseProcess(p)
    PROVE  LockTypeOK'
    <1> USE DEF LockTypeOK
    <1>1. CASE Grant(p)
        BY <1>1, LockAssumption DEF Grant
    <1>2. CASE LeaseExpires \/ LockExpires
        BY <1>2 DEF LeaseExpires, LockExpires, Gates
    <1>3. CASE GiveUpLease(p) \/ LoseProcess(p)
        <2>1. live' \in BOOLEAN /\ abandoned' \in BOOLEAN
            BY <1>3 DEF GiveUpLease, LoseProcess
        <2>2. gate' = gate /\ latest' = latest /\ token' = [token EXCEPT ![p] = 0]
            BY <1>3 DEF GiveUpLease, LoseProcess
        <2>3. QED BY <2>1, <2>2
    <1>4. QED BY <1>1, <1>2, <1>3

\* The lock steps of a save, as TakeLock and ReleaseLock use them.
LockOperation(p) ==
    \/ MakeLock(p) \/ OpenOwner(p) \/ WriteOwner(p, "inspect") \/ CreationThrows(p)
    \/ FindStale(p) \/ StealLock(p) \/ RemoveLock(p, "idle") \/ Contended(p, "idle")
    \/ AssertRelease(p, "idle") \/ RenameReleased(p, "idle")

LEMMA LockOperationTypes ==
    ASSUME LockTypeOK, pc \in [Processes -> Steps], NEW p \in Processes, LockOperation(p)
    PROVE  LockTypeOK' /\ pc' \in [Processes -> Steps]
    <1> USE DEF LockTypeOK, lockVars
    <1>1. gate' \in Gates /\ UNCHANGED <<latest, live, token, abandoned>>
        BY GateTypes
        DEF LockOperation, MakeLock, OpenOwner, WriteOwner, CreationThrows, FindStale,
            StealLock, RemoveLock, Contended, AssertRelease, RenameReleased
    <1>2. pc' \in [Processes -> Steps]
        BY DEF LockOperation, MakeLock, OpenOwner, WriteOwner, CreationThrows, FindStale,
               StealLock, RemoveLock, Contended, AssertRelease, RenameReleased, Goto,
               Steps, LockSteps, RecoverySteps
    <1>3. QED BY <1>1, <1>2

LEMMA FailTypes ==
    ASSUME TypeOK, NEW p \in Processes, Fail(p)
    PROVE  TypeOK'
    <1>1. CASE Phase(p) = "acquire"
        <2>1. LockTypeOK' /\ pc' = [pc EXCEPT ![p] = "idle"]
            BY <1>1, LeaseTypes DEF Fail, TypeOK, Goto
        <2>2. QED BY <2>1, SessionTypes DEF Fail, Remember, TypeOK, Steps
    <1>2. CASE Phase(p) # "acquire"
        <2>1. /\ UNCHANGED lockVars
              /\ pc' = [pc EXCEPT ![p] = "idle"] \/ pc' = [pc EXCEPT ![p] = "releaseAssert"]
            BY <1>2 DEF Fail, Goto
        <2>2. LockTypeOK'
            BY <2>1 DEF lockVars, TypeOK, LockTypeOK
        <2>3. QED BY <2>1, <2>2, SessionTypes DEF Fail, Remember, TypeOK, Steps
    <1>3. QED BY <1>1, <1>2

\* A step of the store that only moves p on and remembers something.
LEMMA ReadOnlyTypes ==
    ASSUME TypeOK, NEW p \in Processes, NEW then \in Steps, Goto(p, then), ReadOnly,
           session' \in [Processes -> Session]
    PROVE  TypeOK'
    BY DEF TypeOK, LockTypeOK, Goto, ReadOnly, StoreOnly, lockVars

LEMMA RememberTypes ==
    ASSUME TypeOK, NEW p \in Processes, NEW changed \in Session, Remember(p, changed)
    PROVE  session' \in [Processes -> Session]
    BY DEF TypeOK, Remember

LEMMA GuardTypes ==
    ASSUME TypeOK, NEW p \in Processes, NEW step, NEW then \in Steps, Guard(p, step, then)
    PROVE  TypeOK'
    <1>1. [session[p] EXCEPT !.owned = LeaseHeld(p) /\ LockHeld(p)] \in Session
        BY DEF TypeOK, LockTypeOK, Session, LeaseHeld, LockHeld, HoldsGate, Gates
    <1>2. CASE Fail(p)
        BY <1>2, FailTypes
    <1>3. CASE /\ Remember(p, [session[p] EXCEPT !.owned = LeaseHeld(p) /\ LockHeld(p)])
               /\ Goto(p, then)
               /\ ReadOnly
        BY <1>1, <1>3, RememberTypes, ReadOnlyTypes
    <1>4. QED BY <1>2, <1>3 DEF Guard

LEMMA CreateTypes ==
    ASSUME TypeOK, NEW p \in Processes, NEW path \in AllPaths, NEW changed \in Session,
           Create(p, path, changed), NEW then \in Steps, Goto(p, then)
    PROVE  TypeOK'
    <1>1. [changed EXCEPT !.openAt = path] \in Session
        BY DEF Session
    <1>2. [files EXCEPT ![path] = Torn] \in [AllPaths -> Content]
        BY ContentTypes DEF TypeOK
    <1>3. \A x \in DOMAIN [y \in {path} |-> "gone"] : [y \in {path} |-> "gone"][x] \in Openings
        BY DEF Openings
    <1>4. pc' \in [Processes -> Steps]
        BY DEF Goto, TypeOK
    <1>5. QED BY <1>1, <1>2, <1>3, <1>4, ChangeTypes DEF Create

LEMMA WriteOpenTypes ==
    ASSUME TypeOK, NEW p \in Processes, NEW content \in Content, WriteOpen(p, content), NEW then \in Steps, Goto(p, then)
    PROVE  TypeOK'
    <1> DEFINE path == session[p].openAt
               fs == IF path = "gone" THEN files ELSE [files EXCEPT ![path] = content]
    <1>1. [session[p] EXCEPT !.openAt = "none"] \in Session
        BY DEF Session, TypeOK
    <1>2. fs \in [AllPaths -> Content]
        BY DEF TypeOK
    <1>3. \A x \in DOMAIN <<>> : <<>>[x] \in Openings
        BY DEF Openings
    <1>4. pc' \in [Processes -> Steps]
        BY DEF Goto, TypeOK
    <1>5. Change(p, fs, <<>>, [session[p] EXCEPT !.openAt = "none"])
        BY DEF WriteOpen
    <1> HIDE DEF fs
    <1>6. QED BY <1>1, <1>2, <1>3, <1>4, <1>5, ChangeTypes

LEMMA RenameTypes ==
    ASSUME TypeOK, NEW p \in Processes, NEW from \in AllPaths, NEW to \in AllPaths,
           Rename(p, from, to), NEW then \in Steps, Goto(p, then)
    PROVE  TypeOK'
    <1> DEFINE moved == [x \in {from, to} |-> IF x = from THEN to ELSE "gone"]
               fs == [files EXCEPT ![to] = files[from], ![from] = Missing]
    <1>1. session[p] \in Session
        BY DEF TypeOK
    <1>2. fs \in [AllPaths -> Content]
        BY ContentTypes DEF TypeOK
    <1>3. \A x \in DOMAIN moved : moved[x] \in Openings
        BY DEF Openings
    <1>4. pc' \in [Processes -> Steps]
        BY DEF Goto, TypeOK
    <1>5. Change(p, fs, moved, session[p])
        BY DEF Rename
    <1> HIDE DEF fs, moved
    <1>6. QED BY <1>1, <1>2, <1>3, <1>4, <1>5, ChangeTypes

LEMMA CleanUpTypes ==
    ASSUME TypeOK, NEW p \in Processes, CleanUp(p), NEW then \in Steps, Goto(p, then)
    PROVE  TypeOK'
    <1> DEFINE gone == {"temp", "recoveryTemp", "backupTemp"}
               moved == [path \in gone |-> "gone"]
               fs == [path \in AllPaths |-> IF path \in gone THEN Missing ELSE files[path]]
    <1>1. session[p] \in Session
        BY DEF TypeOK
    <1>2. fs \in [AllPaths -> Content]
        BY ContentTypes DEF TypeOK
    <1>3. \A x \in DOMAIN moved : moved[x] \in Openings
        BY DEF Openings
    <1>4. pc' \in [Processes -> Steps]
        BY DEF Goto, TypeOK
    <1>5. Change(p, fs, moved, session[p])
        BY DEF CleanUp
    <1> HIDE DEF fs, moved
    <1>6. QED BY <1>1, <1>2, <1>3, <1>4, <1>5, ChangeTypes

\* A recovery remembers only what some candidate holds.
LEMMA SelectionType ==
    ASSUME TypeOK, NEW p \in Processes, EligibleValid(files, token[p]) # {}
    PROVE  Selected(files, token[p]) \in Seq(Payload)
    BY SelectedIsHighest, HighestTypes DEF TypeOK

LEMMA AncestorsTypes ==
    ASSUME NEW s \in Seq(Payload)
    PROVE  Ancestors(s) \subseteq Seq(Payload)
    <1>1. SUFFICES ASSUME NEW g \in 1..Len(s) PROVE Ancestor(s, g) \in Seq(Payload)
        BY DEF Ancestors
    <1>2. g \in 0..Len(s)
        BY LenProperties
    <1>3. QED BY <1>2, AncestorIsHistory

LEMMA RecoverTypes ==
    ASSUME TypeOK, NEW p \in Processes, Recover(p)
    PROVE  TypeOK'
    <1> {"promoteOpen", "promoteWrite", "promoteRename", "promoteVerify", "clean",
         AfterRecovery(p)} \subseteq Steps
        BY DEF Steps, RecoverySteps, SaveSteps, AfterRecovery
    <1> /\ session[p] \in Session /\ Base(p) \in Seq(Payload)
        /\ {"recoveryTemp", "primary"} \subseteq AllPaths
        BY SessionTypes DEF TypeOK, AllPaths, CandidateRoles
    <1>1. CASE Inspect(p)
        <2>1. CASE Fail(p)
            BY <2>1, FailTypes
        <2>2. ASSUME NEW s \in Seq(Payload), Remember(p, [session[p] EXCEPT !.base = s]),
                     NEW then \in Steps, Goto(p, then), ReadOnly
              PROVE  TypeOK'
            <3>1. [session[p] EXCEPT !.base = s] \in Session
                BY DEF Session
            <3>2. QED BY <2>2, <3>1, RememberTypes, ReadOnlyTypes
        <2>3. CASE EligibleValid(files, token[p]) # {}
            BY <1>1, <2>1, <2>2, <2>3, SelectionType DEF Inspect
        <2>4. CASE EligibleValid(files, token[p]) = {}
            BY <1>1, <2>1, <2>2, <2>4, EmptySeq DEF Inspect
        <2>5. QED BY <2>3, <2>4
    <1>2. CASE PromoteOpen(p)
        BY <1>2, CreateTypes DEF PromoteOpen
    <1>3. CASE PromoteWrite(p)
        BY <1>3, WriteOpenTypes, ContentTypes DEF PromoteWrite
    <1>4. CASE PromoteRename(p)
        BY <1>4, RenameTypes, FailTypes DEF PromoteRename
    <1>5. CASE PromoteVerify(p)
        BY <1>5, ReadOnlyTypes, FailTypes DEF PromoteVerify, TypeOK
    <1>6. CASE Clean(p)
        BY <1>6, CleanUpTypes DEF Clean
    <1>7. QED BY <1>1, <1>2, <1>3, <1>4, <1>5, <1>6 DEF Recover

LEMMA SaveTypes ==
    ASSUME TypeOK, NEW p \in Processes, Save(p)
    PROVE  TypeOK'
    <1> SaveSteps \cup {"idle", "inspect", "releaseAssert", "releaseRename"} \subseteq Steps
        BY DEF Steps, RecoverySteps
    <1> USE DEF SaveSteps
    <1> /\ session[p] \in Session /\ session \in [Processes -> Session]
        /\ Base(p) \in Seq(Payload) /\ New(p) \in Seq(Payload) /\ session[p].copy \in Content
        /\ {"temp", "primary", "backup", "backupTemp"} \subseteq AllPaths
        /\ files \in [AllPaths -> Content]
        BY SessionTypes DEF TypeOK, AllPaths, CandidateRoles
    <1>1. CASE Admit(p)
        <2>1. [session[p] EXCEPT !.phase = "save", !.owned = TRUE] \in Session
            BY DEF Session, Phases
        <2>2. QED BY <1>1, <2>1, RememberTypes, ReadOnlyTypes, FailTypes DEF Admit
    <1>2. CASE RejectAtBarrier(p)
        BY <1>2, FailTypes DEF RejectAtBarrier
    <1>3. CASE Reconcile(p)
        <2>1. CASE Fail(p)
            BY <2>1, FailTypes
        <2>2. CASE Goto(p, "guardTemp") /\ UNCHANGED session /\ ReadOnly
            BY <2>2, ReadOnlyTypes
        <2>3. CASE ~Fail(p) /\ ~(Goto(p, "guardTemp") /\ UNCHANGED session /\ ReadOnly)
            <3>1. /\ EligibleValid(files, token[p]) # {}
                  /\ records' = records \cup Ancestors(Selected(files, token[p]))
                  /\ \/ Remember(p, NoSession) /\ Goto(p, "idle")
                     \/ UNCHANGED session /\ Goto(p, "guardTemp")
                  /\ StoreOnly
                  /\ UNCHANGED <<files, overtaken>>
                BY <1>3, <2>3 DEF Reconcile
            <3>2. records' \subseteq Seq(Payload)
                BY <3>1, SelectionType, AncestorsTypes DEF TypeOK
            <3>3. session' \in [Processes -> Session]
                BY <3>1, RememberTypes, SessionTypes
            <3>4. pc' \in [Processes -> Steps]
                BY <3>1 DEF Goto, TypeOK
            <3>5. QED BY <3>1, <3>2, <3>3, <3>4 DEF TypeOK, StoreOnly, lockVars, LockTypeOK
        <2>4. QED BY <2>1, <2>2, <2>3
    <1>4. CASE GuardTemp(p) \/ GuardBackup(p) \/ GuardInstall(p) \/ GuardVerify(p)
               \/ GuardLineage(p) \/ GuardCommit(p)
        BY <1>4, GuardTypes
        DEF GuardTemp, GuardBackup, GuardInstall, GuardVerify, GuardLineage, GuardCommit
    <1>5. ASSUME NEW world \in Worlds, TempOpen(p, world) PROVE TypeOK'
        <2>1. [world |-> world, token |-> token[p]] \in Payload
            BY DEF Payload, TypeOK, LockTypeOK
        <2>2. Envelope(p, world) \in Seq(Payload)
            BY <2>1, AppendIsChild DEF Envelope
        <2>3. [session[p] EXCEPT !.new = Envelope(p, world)] \in Session
            BY <2>2 DEF Session
        <2>4. QED BY <1>5, <2>3, CreateTypes DEF TempOpen
    <1>6. CASE TempWrite(p)
        BY <1>6, WriteOpenTypes, ContentTypes DEF TempWrite
    <1>7. CASE BackupOpen(p)
        <2>1. [session[p] EXCEPT !.copy = files["primary"]] \in Session
            BY DEF Session
        <2>2. QED BY <1>7, <2>1, CreateTypes, ReadOnlyTypes DEF BackupOpen
    <1>8. CASE BackupWrite(p)
        BY <1>8, WriteOpenTypes DEF BackupWrite
    <1>9. CASE BackupRename(p)
        BY <1>9, RenameTypes, ReadOnlyTypes DEF BackupRename
    <1>10. CASE MatchBase(p) \/ Verify(p)
        BY <1>10, ReadOnlyTypes, FailTypes DEF MatchBase, Verify
    <1>11. CASE Install(p)
        BY <1>11, RenameTypes, FailTypes DEF Install
    <1>12. CASE RecordLineage(p)
        <2>1. CASE Fail(p)
            BY <2>1, FailTypes
        <2>2. CASE /\ records' = records \cup {New(p)}
                   /\ Goto(p, "guardCommit")
                   /\ StoreOnly
                   /\ UNCHANGED <<files, overtaken, session>>
            BY <2>2 DEF TypeOK, StoreOnly, Goto, lockVars, LockTypeOK
        <2>3. QED BY <1>12, <2>1, <2>2 DEF RecordLineage
    <1>13. CASE Commit(p)
        BY <1>13, CleanUpTypes DEF Commit
    <1>14. CASE ReleaseLock(p)
        <2>1. LockTypeOK' /\ pc' \in [Processes -> Steps]
            BY <1>14, LockOperationTypes DEF ReleaseLock, LockOperation, TypeOK
        <2>2. CASE Deliver(p)
            BY <2>1, <2>2, RememberTypes, SessionTypes DEF Deliver, TypeOK
        <2>3. CASE UNCHANGED storeVars
            BY <2>1, <2>3 DEF storeVars, TypeOK
        <2>4. QED BY <1>14, <2>2, <2>3 DEF ReleaseLock
    <1>15. QED
        BY <1>1, <1>2, <1>3, <1>4, <1>5, <1>6, <1>7, <1>8, <1>9, <1>10, <1>11, <1>12,
           <1>13, <1>14
        DEF Save

LEMMA LeaseStepTypes ==
    ASSUME TypeOK, NEW p \in Processes, Lease(p)
    PROVE  TypeOK'
    <1> {"idle", "lockMake", "inspect"} \subseteq Steps
        BY DEF Steps, LockSteps, RecoverySteps
    <1> LockTypeOK /\ session \in [Processes -> Session] /\ Base(p) \in Seq(Payload)
        BY SessionTypes DEF TypeOK
    <1>1. \A phase \in Phases : [NoSession EXCEPT !.phase = phase, !.owned = TRUE] \in Session
        BY SessionTypes DEF Session
    <1>2. CASE Acquire(p)
        <2>1. LockTypeOK' /\ session' \in [Processes -> Session]
            BY <1>1, <1>2, LeaseTypes, RememberTypes DEF Acquire, Phases
        <2>2. QED BY <1>2, <2>1 DEF Acquire, Goto, TypeOK
    <1>3. CASE Acquired(p)
        <2>1. session' \in [Processes -> Session]
            BY <1>3, SessionTypes, RememberTypes DEF Acquired
        <2>2. QED BY <1>3, <2>1 DEF Acquired, Goto, TypeOK, lockVars, LockTypeOK
    <1>4. CASE BeginSave(p) \/ BeginLoad(p)
        <2>1. session' \in [Processes -> Session]
            BY <1>1, <1>4, RememberTypes DEF BeginSave, BeginLoad, Phases
        <2>2. pc' \in [Processes -> Steps] /\ saves' \in Nat
            <3>1. \E step \in {"lockMake", "inspect"} : pc' = [pc EXCEPT ![p] = step]
                BY <1>4 DEF BeginSave, BeginLoad, Goto
            <3>2. saves' = saves + 1
                BY <1>4 DEF BeginSave, BeginLoad
            <3>3. QED BY <3>1, <3>2 DEF TypeOK
        <2>3. /\ UNCHANGED <<gate, latest, live, token, abandoned>>
              /\ UNCHANGED <<files, records, handle, acked, overtaken>>
            BY <1>4 DEF BeginSave, BeginLoad, lockVars
        <2>4. QED BY <2>1, <2>2, <2>3 DEF TypeOK, LockTypeOK
    <1>5. CASE Release(p)
        BY <1>5, LeaseTypes DEF Release, TypeOK, storeVars
    <1>6. ASSUME NEW q \in Processes, Share(p, q) PROVE TypeOK'
        BY <1>6 DEF Share, TypeOK, LockTypeOK
    <1>7. QED BY <1>2, <1>3, <1>4, <1>5, <1>6 DEF Lease

LEMMA InitTypes == Init => TypeOK
    <1>1. ASSUME Init PROVE LockTypeOK
        BY <1>1, GateTypes DEF Init, LockInit, LockTypeOK
    <1>2. ASSUME Init PROVE files \in [AllPaths -> Content] /\ session \in [Processes -> Session]
        BY <1>2, SessionTypes, ContentTypes DEF Init
    <1>3. ASSUME Init
          PROVE  /\ pc \in [Processes -> Steps] /\ handle \in [Processes -> Seq(Payload)]
                 /\ records = {} /\ acked = {} /\ overtaken = FALSE /\ saves = 0
        BY <1>3, EmptySeq DEF Init, Steps
    <1>4. QED BY <1>1, <1>2, <1>3 DEF TypeOK

LEMMA StepTypes ==
    ASSUME TypeOK, [Next]_vars
    PROVE  TypeOK'
    <1>1. ASSUME NEW p \in Processes, TakeLock(p) PROVE TypeOK'
        <2>1. LockTypeOK' /\ pc' \in [Processes -> Steps]
            BY <1>1, LockOperationTypes DEF TakeLock, LockOperation, TypeOK
        <2>2. CASE UNCHANGED storeVars
            BY <2>1, <2>2 DEF storeVars, TypeOK
        <2>3. CASE Refused(p)
            BY <2>1, <2>3, SessionTypes, RememberTypes DEF Refused, TypeOK
        <2>4. QED BY <1>1, <2>2, <2>3 DEF TakeLock
    <1>2. ASSUME NEW p \in Processes, Throw(p) PROVE TypeOK'
        BY <1>2, FailTypes DEF Throw
    <1>3. ASSUME NEW p \in Processes, Exit(p) PROVE TypeOK'
        <2>1. LockTypeOK' /\ session' \in [Processes -> Session] /\ pc' \in [Processes -> Steps]
            BY <1>3, LeaseTypes, SessionTypes, RememberTypes DEF Exit, TypeOK, Goto, Steps
        <2>2. handle' \in [Processes -> Seq(Payload)]
            BY <1>3, EmptySeq DEF Exit, TypeOK
        <2>3. QED BY <1>3, <2>1, <2>2 DEF Exit, TypeOK
    <1>4. CASE (LeaseExpires \/ LockExpires) /\ UNCHANGED storeVars
        <2>1. LockTypeOK' /\ pc' = pc
            <3>1. CASE Processes = {}
                BY <1>4, <3>1 DEF LeaseExpires, LockExpires, TypeOK, LockTypeOK, Gates
            <3>2. QED BY <1>4, <3>1, LeaseTypes DEF LeaseExpires, LockExpires, TypeOK
        <2>2. QED BY <1>4, <2>1 DEF TypeOK, storeVars
    <1>5. CASE UNCHANGED vars
        BY <1>5 DEF vars, lockVars, storeVars, TypeOK, LockTypeOK
    <1>6. QED
        BY <1>1, <1>2, <1>3, <1>4, <1>5, RecoverTypes, SaveTypes, LeaseStepTypes DEF Next

\* Every variable keeps its type, however the processes meet.
THEOREM TypeCorrect == Spec => []TypeOK
    BY InitTypes, StepTypes, PTL DEF Spec

-----------------------------------------------------------------------------
(***************************************************************************)
(* What a step of one process leaves of another.                           *)
(***************************************************************************)
StepOf(p) == Lease(p) \/ TakeLock(p) \/ Recover(p) \/ Save(p) \/ Throw(p) \/ Exit(p)

SameMemory(q) ==
    /\ session'[q].phase = session[q].phase
    /\ session'[q].base = session[q].base
    /\ session'[q].new = session[q].new
    /\ session'[q].owned = session[q].owned

LEMMA NextIsStepOf ==
    Next <=> \/ \E p \in Processes : StepOf(p)
             \/ (LeaseExpires \/ LockExpires) /\ UNCHANGED storeVars
    BY DEF Next, StepOf

\* The store's steps either change files, by way of Change, or leave them; the
\* lease and the lock they leave alone.
Quiet(p) == ReadOnly /\ \E changed : session' = [session EXCEPT ![p] = changed]

Moves(p) == \E step : Goto(p, step)

LEMMA GuardIsQuiet ==
    ASSUME NEW p \in Processes, NEW step, NEW then, Guard(p, step, then), ~Fail(p)
    PROVE  Quiet(p) /\ Moves(p)
    <1> DEFINE changed == [session[p] EXCEPT !.owned = LeaseHeld(p) /\ LockHeld(p)]
    <1>1. Remember(p, changed) /\ Goto(p, then) /\ ReadOnly
        BY DEF Guard
    <1> HIDE DEF changed
    <1>2. Quiet(p)
        BY <1>1 DEF Quiet, Remember
    <1>3. Moves(p)
        BY <1>1 DEF Moves
    <1>4. QED BY <1>2, <1>3

LEMMA QuietOrChange ==
    ASSUME TypeOK, NEW p \in Processes, Recover(p) \/ Save(p)
    PROVE  \/ Fail(p)
           \/ Quiet(p) /\ Moves(p)
           \/ (\E fs, moved, changed : Change(p, fs, moved, changed)) /\ Moves(p)
           \/ Reconcile(p) \/ RecordLineage(p) \/ ReleaseLock(p)
    <1>0. session = [session EXCEPT ![p] = session[p]]
        BY DEF TypeOK
    <1>1. CASE Recover(p)
        BY <1>0, <1>1
        DEF Moves, Recover, Inspect, PromoteOpen, PromoteWrite, PromoteRename, PromoteVerify, Clean,
            Quiet, Remember, Create, WriteOpen, Rename, CleanUp
    <1>2. ASSUME NEW step, NEW then, Guard(p, step, then)
          PROVE  Fail(p) \/ (Quiet(p) /\ Moves(p))
        BY <1>2, GuardIsQuiet
    <1>3. CASE GuardTemp(p) \/ GuardBackup(p) \/ GuardInstall(p) \/ GuardVerify(p)
               \/ GuardLineage(p) \/ GuardCommit(p)
        BY <1>2, <1>3
        DEF GuardTemp, GuardBackup, GuardInstall, GuardVerify, GuardLineage, GuardCommit
    <1>4. CASE Admit(p) \/ RejectAtBarrier(p) \/ MatchBase(p) \/ Verify(p)
        BY <1>0, <1>4 DEF Moves, Admit, RejectAtBarrier, MatchBase, Verify, Quiet, Remember
    <1>5. CASE (\E world \in Worlds : TempOpen(p, world)) \/ TempWrite(p) \/ BackupOpen(p)
               \/ BackupWrite(p) \/ BackupRename(p) \/ Install(p) \/ Commit(p)
        BY <1>0, <1>5
        DEF Moves, TempOpen, TempWrite, BackupOpen, BackupWrite, BackupRename, Install, Commit,
            Quiet, Create, WriteOpen, Rename, CleanUp
    <1>6. QED BY <1>1, <1>3, <1>4, <1>5 DEF Save

LEMMA OthersKeepPlace ==
    ASSUME TypeOK, NEW p \in Processes, StepOf(p), NEW q \in Processes \ {p}
    PROVE  pc'[q] = pc[q] /\ token'[q] = token[q] /\ SameMemory(q)
    <1> USE DEF SameMemory
    <1> pc \in [Processes -> Steps] /\ token \in [Processes -> Nat]
        /\ session \in [Processes -> Session]
        BY DEF TypeOK, LockTypeOK
    <1>1. CASE Fail(p)
        BY <1>1 DEF Fail, Goto, GiveUpLease, Remember, lockVars
    <1>2. CASE Moves(p) /\ Quiet(p)
        BY <1>2 DEF Moves, Goto, Quiet, ReadOnly, StoreOnly, lockVars
    <1>3. CASE Moves(p) /\ \E fs, moved, changed : Change(p, fs, moved, changed)
        BY <1>3, ChangeEffect DEF Moves, Goto, lockVars
    <1>4. CASE Reconcile(p)
        BY <1>1, <1>4 DEF Reconcile, Goto, Remember, ReadOnly, StoreOnly, lockVars
    <1>5. CASE RecordLineage(p)
        BY <1>1, <1>5 DEF RecordLineage, Goto, StoreOnly, lockVars
    <1>6. ASSUME LockOperation(p)
          PROVE  pc'[q] = pc[q] /\ token'[q] = token[q]
        BY <1>6
        DEF LockOperation, MakeLock, OpenOwner, WriteOwner, CreationThrows, FindStale,
            StealLock, RemoveLock, Contended, AssertRelease, RenameReleased, Goto, lockVars
    <1>7. CASE TakeLock(p) \/ ReleaseLock(p)
        <2>1. LockOperation(p)
            BY <1>7 DEF TakeLock, ReleaseLock, LockOperation
        <2>2. UNCHANGED session \/ Remember(p, NoSession)
            BY <1>7 DEF TakeLock, ReleaseLock, Refused, Deliver, storeVars
        <2>3. QED BY <1>6, <2>1, <2>2 DEF Remember
    <1>8. CASE Lease(p)
        BY <1>8
        DEF Lease, Acquire, Acquired, BeginSave, BeginLoad, Release, Share, Grant, GiveUpLease,
            Goto, Remember, lockVars, storeVars
    <1>9. CASE Throw(p) \/ Exit(p)
        BY <1>1, <1>9 DEF Throw, Exit, LoseProcess, Goto, Remember
    <1>10. CASE Recover(p) \/ Save(p)
        BY <1>1, <1>2, <1>3, <1>4, <1>5, <1>7, <1>10, QuietOrChange
    <1>11. QED BY <1>7, <1>8, <1>9, <1>10 DEF StepOf

-----------------------------------------------------------------------------
(***************************************************************************)
(* The lock directory always has somebody to complete or to remove it.     *)
(***************************************************************************)

\* Outside the lock's own steps, the gate is left alone and no creator moves.
LEMMA GateElsewhere ==
    ASSUME TypeOK, NEW p \in Processes, StepOf(p), ~LockOperation(p)
    PROVE  /\ gate' = gate
           /\ abandoned' = abandoned \/ abandoned' = TRUE
           /\ ~abandoned' => pc[p] \notin Creating
    <1> USE DEF Creating
    <1>1. ASSUME Recover(p) \/ Save(p) PROVE pc[p] \notin Creating /\ UNCHANGED <<gate, abandoned>>
        <2>1. /\ pc[p] \notin Creating
              /\ Recover(p) \/ Save(p)
            BY <1>1
            DEF Recover, Inspect, PromoteOpen, PromoteWrite, PromoteRename, PromoteVerify, Clean,
                Save, Admit, RejectAtBarrier, Reconcile, GuardTemp, TempOpen, TempWrite,
                GuardBackup, BackupOpen, BackupWrite, BackupRename, GuardInstall, MatchBase,
                Install, GuardVerify, Verify, GuardLineage, RecordLineage, GuardCommit, Commit,
                Guard, AtStep, ReleaseLock, AssertRelease, RenameReleased
        <2>2. CASE Fail(p)
            BY <2>1, <2>2 DEF Fail, GiveUpLease, lockVars
        <2>3. CASE Reconcile(p) \/ RecordLineage(p) \/ Quiet(p)
            BY <2>1, <2>2, <2>3
            DEF Reconcile, RecordLineage, Quiet, ReadOnly, StoreOnly, lockVars
        <2>4. CASE \E fs, moved, changed : Change(p, fs, moved, changed)
            BY <2>1, <2>4, ChangeEffect DEF lockVars
        <2>5. CASE ReleaseLock(p)
            BY <2>5 DEF ReleaseLock, LockOperation
        <2>6. QED BY <2>1, <2>2, <2>3, <2>4, <2>5, QuietOrChange
    <1>2. CASE Lease(p)
        BY <1>2
        DEF Lease, Acquire, Acquired, BeginSave, BeginLoad, Release, Share, Grant,
            GiveUpLease, AtStep, lockVars
    <1>3. CASE Throw(p)
        BY <1>3 DEF Throw, Fail, GiveUpLease, lockVars, RecoverySteps, SaveSteps
    <1>4. CASE Exit(p)
        <2>1. gate' = gate /\ abandoned \in BOOLEAN /\ (pc[p] \in Creating => abandoned' = TRUE)
            BY <1>4 DEF Exit, LoseProcess, TypeOK, LockTypeOK
        <2>2. pc[p] \notin Creating => (abandoned' <=> abandoned)
            BY <1>4 DEF Exit, LoseProcess
        <2>3. abandoned' \in BOOLEAN
            BY <1>4 DEF Exit, LoseProcess
        <2>4. QED BY <2>1, <2>2, <2>3
    <1>5. CASE TakeLock(p)
        BY <1>5 DEF TakeLock, LockOperation
    <1>6. QED BY <1>1, <1>2, <1>3, <1>4, <1>5 DEF StepOf

LEMMA StepGateInv ==
    ASSUME TypeOK, GateInv, [Next]_vars
    PROVE  GateInv'
    <1>1. CASE UNCHANGED vars
        BY <1>1 DEF vars, lockVars, GateInv
    <1>2. CASE LeaseExpires \/ LockExpires
        BY <1>2 DEF LeaseExpires, LockExpires, GateInv, TypeOK, LockTypeOK, Gates
    <1>3. ASSUME NEW p \in Processes, StepOf(p) PROVE GateInv'
        <2>1. \A q \in Processes \ {p} : pc'[q] = pc[q]
            BY <1>3, OthersKeepPlace
        <2>2. CASE ~LockOperation(p)
            BY <1>3, <2>1, <2>2, GateElsewhere DEF GateInv, Creating
        <2>3. ASSUME LockOperation(p), pc \in [Processes -> Steps] PROVE GateInv'
            <3>1. gate.state \in {"absent", "bare", "torn", "held"}
                BY DEF TypeOK, LockTypeOK, Gates
            <3>2. CASE MakeLock(p)
                BY <2>3, <3>2 DEF MakeLock, GateInv, Goto, Absent, Bare
            <3>3. CASE OpenOwner(p)
                BY <2>1, <2>3, <3>1, <3>3 DEF OpenOwner, GateInv, Goto, OwnerFile
            <3>4. CASE WriteOwner(p, "inspect")
                BY <2>1, <2>3, <3>1, <3>4 DEF WriteOwner, GateInv, Goto, OwnerFile
            <3>5. CASE CreationThrows(p)
                BY <2>1, <2>3, <3>5 DEF CreationThrows, GateInv, Goto, lockVars
            <3>6. CASE StealLock(p) \/ RemoveLock(p, "idle") \/ RenameReleased(p, "idle")
                BY <3>6 DEF StealLock, RemoveLock, RenameReleased, GateInv, Absent
            <3>7. CASE FindStale(p) \/ Contended(p, "idle") \/ AssertRelease(p, "idle")
                BY <2>1, <2>3, <3>7 DEF FindStale, Contended, AssertRelease, GateInv, Goto, lockVars
            <3>8. QED BY <2>3, <3>2, <3>3, <3>4, <3>5, <3>6, <3>7 DEF LockOperation
        <2>4. QED BY <2>2, <2>3 DEF TypeOK
    <1>4. QED BY <1>1, <1>2, <1>3, NextIsStepOf

\* A lock directory that nobody can read is being made, as long as no process
\* exits in the middle of making one.
THEOREM LockNeverStranded == Spec => []UnreadableLockIsBeingMade
    <1>1. Init => GateInv
        BY DEF Init, LockInit, GateInv, Absent
    <1>2. TypeOK /\ GateInv => UnreadableLockIsBeingMade
        BY DEF GateInv, UnreadableLockIsBeingMade, Creating
    <1>3. QED BY <1>1, <1>2, TypeCorrect, StepGateInv, PTL DEF Spec

-----------------------------------------------------------------------------
(***************************************************************************)
(* At most one process is in the owner's place.                            *)
(***************************************************************************)
LEMMA SessionFields == NoSession.phase = "none" /\ NoSession.new = <<>>
    BY DEF NoSession

LEMMA BeginningFields ==
    \A phase : [NoSession EXCEPT !.phase = phase, !.owned = TRUE].phase = phase
               /\ [NoSession EXCEPT !.phase = phase, !.owned = TRUE].owned = TRUE
    BY DEF NoSession

\* What p itself is left with by a change of the files.
Carries(p, changed) ==
    /\ session'[p].phase = changed.phase /\ session'[p].owned = changed.owned
    /\ session'[p].base = changed.base /\ session'[p].new = changed.new
    /\ session'[p].copy = changed.copy

LEMMA CreateEffect ==
    ASSUME TypeOK, NEW p \in Processes, NEW path \in AllPaths, NEW changed \in Session,
           Create(p, path, changed)
    PROVE  /\ Carries(p, changed) /\ session'[p].openAt = path
           /\ files' = [files EXCEPT ![path] = Torn]
           /\ UNCHANGED lockVars
    <1>1. /\ session'[p] = [changed EXCEPT !.openAt = path]
          /\ files' = [files EXCEPT ![path] = Torn]
          /\ UNCHANGED lockVars
        BY DEF Create, Change, StoreOnly
    <1>2. QED BY <1>1 DEF Session, Carries

LEMMA WriteOpenEffect ==
    ASSUME TypeOK, NEW p \in Processes, NEW content, WriteOpen(p, content)
    PROVE  /\ Carries(p, session[p])
           /\ files' = IF session[p].openAt = "gone" THEN files
                       ELSE [files EXCEPT ![session[p].openAt] = content]
           /\ UNCHANGED lockVars
    <1>1. /\ session'[p] = [session[p] EXCEPT !.openAt = "none"]
          /\ files' = IF session[p].openAt = "gone" THEN files
                      ELSE [files EXCEPT ![session[p].openAt] = content]
          /\ UNCHANGED lockVars
        BY DEF WriteOpen, Change, StoreOnly
    <1>2. session[p] \in Session
        BY DEF TypeOK
    <1>3. Carries(p, session[p])
        BY <1>1, <1>2 DEF Session, Carries
    <1>4. QED BY <1>1, <1>3

LEMMA RenameEffect ==
    ASSUME NEW p \in Processes, NEW from, NEW to, Rename(p, from, to)
    PROVE  /\ Carries(p, session[p])
           /\ files' = [files EXCEPT ![to] = files[from], ![from] = Missing]
           /\ UNCHANGED lockVars
    BY DEF Rename, Change, StoreOnly, Carries

LEMMA CleanUpEffect ==
    ASSUME NEW p \in Processes, CleanUp(p)
    PROVE  /\ Carries(p, session[p])
           /\ files' = [path \in AllPaths |->
                          IF path \in {"temp", "recoveryTemp", "backupTemp"} THEN Missing
                          ELSE files[path]]
           /\ UNCHANGED lockVars
    BY DEF CleanUp, Change, StoreOnly, Carries

LEMMA EnvelopeType ==
    ASSUME TypeOK, NEW p \in Processes, NEW world \in Worlds
    PROVE  /\ Envelope(p, world) \in Seq(Payload)
           /\ IsChild(Envelope(p, world), Base(p))
           /\ [session[p] EXCEPT !.new = Envelope(p, world)] \in Session
    <1>1. [world |-> world, token |-> token[p]] \in Payload
        BY DEF Payload, TypeOK, LockTypeOK
    <1>2. Envelope(p, world) \in Seq(Payload) /\ IsChild(Envelope(p, world), Base(p))
        BY <1>1, AppendIsChild, SessionTypes DEF Envelope, TypeOK
    <1>3. QED BY <1>2 DEF Session, TypeOK

LEMMA TempOpenEffect ==
    ASSUME TypeOK, NEW p \in Processes, NEW world \in Worlds, TempOpen(p, world)
    PROVE  /\ session'[p].phase = session[p].phase /\ session'[p].owned = session[p].owned
           /\ session'[p].base = session[p].base /\ session'[p].new = Envelope(p, world)
           /\ session'[p].openAt = "temp"
           /\ files' = [files EXCEPT !["temp"] = Torn]
           /\ UNCHANGED lockVars
    <1>1. Create(p, "temp", [session[p] EXCEPT !.new = Envelope(p, world)])
        BY DEF TempOpen
    <1>2. PICK changed : changed = [session[p] EXCEPT !.new = Envelope(p, world)]
        OBVIOUS
    <1>3. /\ changed \in Session /\ session[p] \in Session
          /\ changed.phase = session[p].phase /\ changed.owned = session[p].owned
          /\ changed.base = session[p].base /\ changed.new = Envelope(p, world)
        BY <1>2, EnvelopeType DEF TypeOK, Session
    <1>4. Carries(p, changed) /\ session'[p].openAt = "temp" /\ UNCHANGED lockVars
          /\ files' = [files EXCEPT !["temp"] = Torn]
        BY <1>1, <1>2, <1>3, CreateEffect DEF AllPaths, CandidateRoles
    <1>5. QED BY <1>3, <1>4 DEF Carries

LEMMA BackupOpenEffect ==
    ASSUME TypeOK, NEW p \in Processes, BackupOpen(p), files["primary"].exists
    PROVE  /\ session'[p].phase = session[p].phase /\ session'[p].owned = session[p].owned
           /\ session'[p].base = session[p].base /\ session'[p].new = session[p].new
           /\ session'[p].openAt = "backupTemp" /\ session'[p].copy = files["primary"]
           /\ files' = [files EXCEPT !["backupTemp"] = Torn]
           /\ UNCHANGED lockVars
    <1>1. Create(p, "backupTemp", [session[p] EXCEPT !.copy = files["primary"]])
        BY DEF BackupOpen
    <1>2. PICK changed : changed = [session[p] EXCEPT !.copy = files["primary"]]
        OBVIOUS
    <1>3. session[p] \in Session /\ files["primary"] \in Content
        BY DEF TypeOK, AllPaths, CandidateRoles
    <1>4. /\ changed \in Session
          /\ changed.phase = session[p].phase /\ changed.owned = session[p].owned
          /\ changed.base = session[p].base /\ changed.new = session[p].new
          /\ changed.copy = files["primary"]
        BY <1>2, <1>3 DEF Session
    <1>5. Carries(p, changed) /\ session'[p].openAt = "backupTemp" /\ UNCHANGED lockVars
          /\ files' = [files EXCEPT !["backupTemp"] = Torn]
        BY <1>1, <1>2, <1>4, CreateEffect DEF AllPaths, CandidateRoles
    <1>6. QED BY <1>4, <1>5 DEF Carries

\* An inspection that goes on remembers its selection and nothing else.
LEMMA InspectEffect ==
    ASSUME TypeOK, NEW p \in Processes, Inspect(p), ~Fail(p)
    PROVE  /\ session'[p].phase = session[p].phase /\ session'[p].owned = session[p].owned
           /\ session'[p].new = session[p].new
           /\ ~Conflict(files, token[p])
           /\ \/ /\ EligibleValid(files, token[p]) # {}
                 /\ session'[p].base = Selected(files, token[p])
                 /\ pc' = [pc EXCEPT ![p] = IF files["primary"].snap = session'[p].base
                                              THEN "clean" ELSE "promoteOpen"]
              \/ /\ EligibleValid(files, token[p]) = {}
                 /\ ~AnyExisting(files) \/ FencedTransientsOnly(files, token[p])
                 /\ session'[p].base = <<>>
                 /\ pc' = [pc EXCEPT ![p] = IF AnyExisting(files) THEN "clean"
                                              ELSE AfterRecovery(p)]
           /\ ReadOnly
    <1>1. session[p] \in Session /\ session \in [Processes -> Session]
        BY DEF TypeOK
    <1>2. ASSUME NEW s, Remember(p, [session[p] EXCEPT !.base = s])
          PROVE  /\ session'[p].phase = session[p].phase /\ session'[p].owned = session[p].owned
                 /\ session'[p].new = session[p].new /\ session'[p].base = s
        <2>1. session' = [session EXCEPT ![p] = [session[p] EXCEPT !.base = s]]
            BY <1>2 DEF Remember
        <2>2. QED BY <1>1, <2>1 DEF Session
    <1>3. CASE EligibleValid(files, token[p]) # {}
        <2>1. /\ Remember(p, [session[p] EXCEPT !.base = Selected(files, token[p])])
              /\ ReadOnly /\ ~Conflict(files, token[p])
              /\ Goto(p, IF files["primary"].snap = Selected(files, token[p])
                           THEN "clean" ELSE "promoteOpen")
            BY <1>3 DEF Inspect
        <2>2. QED BY <1>2, <1>3, <2>1 DEF Goto
    <1>4. CASE EligibleValid(files, token[p]) = {}
        <2>1. /\ Remember(p, [session[p] EXCEPT !.base = <<>>])
              /\ ReadOnly /\ ~Conflict(files, token[p])
              /\ ~AnyExisting(files) \/ FencedTransientsOnly(files, token[p])
              /\ Goto(p, IF AnyExisting(files) THEN "clean" ELSE AfterRecovery(p))
            BY <1>4 DEF Inspect
        <2>2. QED BY <1>2, <1>4, <2>1 DEF Goto
    <1>5. QED BY <1>3, <1>4

LEMMA AdmitEffect ==
    ASSUME TypeOK, NEW p \in Processes, Admit(p), ~Fail(p)
    PROVE  /\ session'[p].phase = "save" /\ session'[p].owned
           /\ session'[p].new = session[p].new
           /\ pc' = [pc EXCEPT ![p] = "inspect"]
           /\ ReadOnly
    <1>1. session[p] \in Session /\ session \in [Processes -> Session]
        BY DEF TypeOK
    <1>2. /\ session' = [session EXCEPT ![p] = [session[p] EXCEPT !.phase = "save", !.owned = TRUE]]
          /\ pc' = [pc EXCEPT ![p] = "inspect"]
          /\ ReadOnly
        BY DEF Admit, Remember, Goto
    <1>3. session'[p] = [session[p] EXCEPT !.phase = "save", !.owned = TRUE]
        BY <1>1, <1>2
    <1>4. QED BY <1>1, <1>2, <1>3 DEF Session

\* What p makes of its own place in a step that does not begin an operation.
KeepsPlace(p) ==
    /\ UNCHANGED latest
    /\ live' => live
    /\ token'[p] \in {token[p], 0}
    /\ session'[p].phase \in {"acquire", "load"} =>
          session'[p].phase = session[p].phase /\ token'[p] = token[p]
    /\ pc'[p] = "idle" => session'[p].phase = "none"
    /\ pc'[p] \in LockSteps \cup RecoverySteps \cup SaveSteps => session'[p].owned
    /\ pc'[p] \notin {"idle", "inspect"} =>
          /\ token'[p] = token[p]
          /\ session[p].phase \in {"acquire", "load"} => session'[p].phase = session[p].phase

LEMMA FailKeepsPlace ==
    ASSUME TypeOK, NEW p \in Processes, Fail(p)
    PROVE  KeepsPlace(p)
    <1>1. session'[p].phase = "none" /\ pc'[p] \in {"idle", "releaseAssert"}
        BY SessionFields DEF Fail, Remember, Goto, TypeOK
    <1>2. UNCHANGED latest /\ token'[p] \in {token[p], 0} /\ (live' => live)
        BY DEF Fail, GiveUpLease, lockVars, TypeOK, LockTypeOK
    <1>3. pc'[p] # "idle" => UNCHANGED token /\ session[p].phase \notin {"acquire", "load"}
        BY DEF Fail, Goto, TypeOK, Phase, lockVars
    <1>4. QED BY <1>1, <1>2, <1>3 DEF KeepsPlace, LockSteps, RecoverySteps, SaveSteps

\* A step of an operation under way, with the lease as it was.
LEMMA GoesOn ==
    ASSUME TypeOK, NEW p \in Processes, UNCHANGED lockVars,
           session[p].owned => session'[p].owned,
           \/ session'[p].phase = session[p].phase
           \/ session'[p].phase \in {"save", "none"} /\ pc'[p] \in {"idle", "inspect"},
           pc[p] \in RecoverySteps \cup SaveSteps, pc[p] \in RecoverySteps \cup SaveSteps => session[p].owned,
           pc'[p] = "idle" => session'[p].phase = "none"
    PROVE  KeepsPlace(p)
    BY DEF KeepsPlace, lockVars

LEMMA RecoverKeepsPlace ==
    ASSUME TypeOK, ControlInv, NEW p \in Processes, Recover(p)
    PROVE  KeepsPlace(p)
    <1> session[p] \in Session /\ pc \in [Processes -> Steps] /\ session \in [Processes -> Session]
        BY DEF TypeOK
    <1> AfterRecovery(p) # "idle"
        BY DEF AfterRecovery
    <1>1. pc[p] \in RecoverySteps /\ session[p].owned
        BY DEF Recover, Inspect, PromoteOpen, PromoteWrite, PromoteRename, PromoteVerify, Clean,
               RecoverySteps, ControlInv, AtStep
    <1>2. CASE Fail(p)
        BY <1>2, FailKeepsPlace
    <1>3. CASE ~Fail(p)
        <2>1. CASE Inspect(p)
            <3>1. /\ UNCHANGED lockVars /\ pc'[p] # "idle"
                  /\ session'[p].phase = session[p].phase /\ session'[p].owned = session[p].owned
                BY <1>3, <2>1, InspectEffect DEF ReadOnly, StoreOnly
            <3>2. QED BY <1>1, <3>1, GoesOn
        <2>2. CASE PromoteOpen(p) \/ PromoteWrite(p) \/ PromoteRename(p) \/ PromoteVerify(p) \/ Clean(p)
            <3>1. UNCHANGED lockVars
                BY <1>3, <2>2, CreateEffect, WriteOpenEffect, RenameEffect, CleanUpEffect
                DEF PromoteOpen, PromoteWrite, PromoteRename, PromoteVerify, Clean,
                    ReadOnly, StoreOnly, AllPaths, CandidateRoles
            <3>2. session'[p].phase = session[p].phase /\ session'[p].owned = session[p].owned
                BY <1>3, <2>2, CreateEffect, WriteOpenEffect, RenameEffect, CleanUpEffect
                DEF PromoteOpen, PromoteWrite, PromoteRename, PromoteVerify, Clean, Carries,
                    AllPaths, CandidateRoles
            <3>3. pc'[p] # "idle"
                BY <1>3, <2>2
                DEF PromoteOpen, PromoteWrite, PromoteRename, PromoteVerify, Clean, Goto
            <3>4. QED BY <1>1, <3>1, <3>2, <3>3, GoesOn
        <2>3. QED BY <2>1, <2>2 DEF Recover
    <1>4. QED BY <1>2, <1>3

LEMMA GuardKeepsPlace ==
    ASSUME TypeOK, NEW p \in Processes, NEW step, NEW then \in SaveSteps, Guard(p, step, then)
    PROVE  \/ Fail(p)
           \/ /\ LeaseHeld(p) /\ LockHeld(p)
              /\ ReadOnly /\ Goto(p, then)
              /\ session' = [session EXCEPT ![p] = session'[p]]
              /\ session'[p].phase = session[p].phase /\ session'[p].owned
              /\ session'[p].base = session[p].base /\ session'[p].new = session[p].new
              /\ session'[p].copy = session[p].copy /\ session'[p].openAt = session[p].openAt
    <1> DEFINE held == LeaseHeld(p) /\ LockHeld(p)
    <1>1. Fail(p) \/ (held /\ Remember(p, [session[p] EXCEPT !.owned = held]) /\ Goto(p, then) /\ ReadOnly)
        BY DEF Guard
    <1>2. CASE Fail(p)
        BY <1>2
    <1>3. CASE held /\ Remember(p, [session[p] EXCEPT !.owned = held]) /\ Goto(p, then) /\ ReadOnly
        <2>1. PICK owned : owned = held OBVIOUS
        <2> HIDE DEF held
        <2>2. owned /\ session' = [session EXCEPT ![p] = [session[p] EXCEPT !.owned = owned]]
            BY <1>3, <2>1 DEF Remember
        <2>3. session[p] \in Session /\ session \in [Processes -> Session]
            BY DEF TypeOK
        <2>4. /\ session' = [session EXCEPT ![p] = session'[p]]
              /\ session'[p].phase = session[p].phase /\ session'[p].owned
              /\ session'[p].base = session[p].base /\ session'[p].new = session[p].new
              /\ session'[p].copy = session[p].copy /\ session'[p].openAt = session[p].openAt
            BY <2>2, <2>3 DEF Session
        <2>5. QED BY <1>3, <2>4 DEF held
    <1>4. QED BY <1>1, <1>2, <1>3

LEMMA SaveKeepsPlace ==
    ASSUME TypeOK, ControlInv, NEW p \in Processes, Save(p)
    PROVE  KeepsPlace(p)
    <1> session[p] \in Session /\ pc \in [Processes -> Steps] /\ session \in [Processes -> Session]
        BY DEF TypeOK
    <1> USE DEF SaveSteps
    <1>1. CASE Fail(p)
        BY <1>1, FailKeepsPlace
    <1>2. CASE ReleaseLock(p)
        <2>1. /\ UNCHANGED <<latest, live, token>>
              /\ \/ pc'[p] = "releaseRename" /\ session' = session
                 \/ pc'[p] = "idle" /\ session'[p] = NoSession
            BY <1>2
            DEF ReleaseLock, AssertRelease, RenameReleased, Deliver, Remember, storeVars, Goto,
                lockVars
        <2>2. QED BY <2>1, SessionFields DEF KeepsPlace, LockSteps, RecoverySteps
    <1>3. CASE ~Fail(p) /\ ~ReleaseLock(p)
        <2>1. pc[p] \in SaveSteps /\ session[p].owned
            BY <1>3
            DEF Save, Admit, RejectAtBarrier, Reconcile, GuardTemp, TempOpen, TempWrite,
                GuardBackup, BackupOpen, BackupWrite, BackupRename, GuardInstall, MatchBase,
                Install, GuardVerify, Verify, GuardLineage, RecordLineage, GuardCommit, Commit,
                Guard, AtStep, ControlInv
        <2>2. ASSUME NEW step, NEW then \in SaveSteps, Guard(p, step, then)
              PROVE  KeepsPlace(p)
            <3>1. /\ UNCHANGED lockVars /\ pc'[p] = then
                  /\ session'[p].phase = session[p].phase /\ session'[p].owned
                BY <1>3, <2>2, GuardKeepsPlace DEF ReadOnly, StoreOnly, Goto
            <3>2. QED BY <2>1, <3>1, GoesOn
        <2>3. CASE GuardTemp(p) \/ GuardBackup(p) \/ GuardInstall(p) \/ GuardVerify(p)
                   \/ GuardLineage(p) \/ GuardCommit(p)
            BY <2>2, <2>3
            DEF GuardTemp, GuardBackup, GuardInstall, GuardVerify, GuardLineage, GuardCommit
        <2>4. CASE Admit(p)
            <3>1. /\ UNCHANGED lockVars /\ pc'[p] = "inspect"
                  /\ session'[p].phase = "save" /\ session'[p].owned
                BY <1>3, <2>4, AdmitEffect DEF ReadOnly, StoreOnly
            <3>2. QED BY <2>1, <3>1, GoesOn
        <2>5. CASE Reconcile(p)
            <3>1. /\ UNCHANGED lockVars
                  /\ \/ pc'[p] = "guardTemp" /\ session' = session
                     \/ /\ pc'[p] = "idle" /\ session'[p] = NoSession
                BY <1>3, <2>5 DEF Reconcile, Remember, ReadOnly, StoreOnly, Goto
            <3>2. CASE session' = session /\ pc'[p] = "guardTemp"
                BY <2>1, <3>1, <3>2, GoesOn
            <3>3. CASE pc'[p] = "idle" /\ session'[p] = NoSession
                BY <3>1, <3>3, SessionFields DEF KeepsPlace, lockVars, LockSteps, RecoverySteps
            <3>4. QED BY <3>1, <3>2, <3>3
        <2>6. CASE (\E world \in Worlds : TempOpen(p, world)) \/ TempWrite(p) \/ BackupOpen(p)
                   \/ BackupWrite(p) \/ BackupRename(p) \/ Install(p) \/ Commit(p)
            <3> DEFINE kept == /\ UNCHANGED lockVars
                               /\ session'[p].phase = session[p].phase
                               /\ session'[p].owned = session[p].owned
            <3>1. ASSUME (\E world \in Worlds : TempOpen(p, world))
                         \/ (BackupOpen(p) /\ files["primary"].exists)
                  PROVE  kept
                BY <3>1, TempOpenEffect, BackupOpenEffect
            <3>2. ASSUME TempWrite(p) \/ BackupWrite(p) \/ BackupRename(p) \/ Install(p) \/ Commit(p)
                         \/ (BackupOpen(p) /\ ~files["primary"].exists)
                  PROVE  kept
                BY <1>3, <3>2, WriteOpenEffect, RenameEffect, CleanUpEffect
                DEF TempWrite, BackupOpen, BackupWrite, BackupRename, Install, Commit, Carries,
                    ReadOnly, StoreOnly
            <3>3. pc'[p] # "idle"
                BY <1>3, <2>6
                DEF TempOpen, TempWrite, BackupOpen, BackupWrite, BackupRename, Install, Commit, Goto
            <3>4. QED BY <2>1, <2>6, <3>1, <3>2, <3>3, GoesOn
        <2>7. CASE MatchBase(p) \/ Verify(p) \/ RecordLineage(p)
            <3>1. UNCHANGED lockVars /\ session' = session /\ pc'[p] # "idle"
                BY <1>3, <2>7 DEF MatchBase, Verify, RecordLineage, ReadOnly, StoreOnly, Goto
            <3>2. QED BY <2>1, <3>1, GoesOn
        <2>8. QED BY <1>3, <2>3, <2>4, <2>5, <2>6, <2>7 DEF Save, RejectAtBarrier
    <1>4. QED BY <1>1, <1>2, <1>3

LEMMA TakeLockKeepsPlace ==
    ASSUME TypeOK, ControlInv, NEW p \in Processes, TakeLock(p)
    PROVE  KeepsPlace(p)
    <1> pc \in [Processes -> Steps] /\ session \in [Processes -> Session]
        BY DEF TypeOK
    <1>1. UNCHANGED <<latest, live, token>>
        BY DEF TakeLock, MakeLock, OpenOwner, WriteOwner, CreationThrows, FindStale, StealLock,
               RemoveLock, Contended, lockVars
    <1>2. CASE UNCHANGED storeVars
        <2>1. pc[p] \in LockSteps /\ session'[p] = session[p]
            BY <1>2 DEF TakeLock, MakeLock, OpenOwner, WriteOwner, CreationThrows, FindStale,
                        StealLock, RemoveLock, Contended, LockSteps, storeVars
        <2>2. CASE pc'[p] = "idle"
            <3>1. Refused(p)
                BY <2>1, <2>2, <1>2
                DEF TakeLock, MakeLock, OpenOwner, WriteOwner, CreationThrows, FindStale,
                    StealLock, Goto
            <3>2. QED
                BY <1>1, <2>2, <3>1, SessionFields
                DEF Refused, Remember, KeepsPlace, LockSteps, RecoverySteps, SaveSteps
        <2>3. QED BY <1>1, <2>1, <2>2 DEF KeepsPlace, ControlInv
    <1>3. CASE Refused(p) /\ pc'[p] = "idle"
        BY <1>1, <1>3, SessionFields
        DEF Refused, Remember, KeepsPlace, LockSteps, RecoverySteps, SaveSteps
    <1>4. QED BY <1>2, <1>3 DEF TakeLock, RemoveLock, Contended, Goto

LEMMA OwnStep ==
    ASSUME TypeOK, ControlInv, NEW p \in Processes, StepOf(p)
    PROVE  KeepsPlace(p) \/ Acquire(p) \/ BeginLoad(p) \/ \E q \in Processes : Share(p, q)
    <1> pc \in [Processes -> Steps] /\ session \in [Processes -> Session]
        /\ token \in [Processes -> Nat]
        BY DEF TypeOK, LockTypeOK
    <1> USE DEF LockSteps, RecoverySteps, SaveSteps
    <1>1. CASE Acquired(p)
        <2>1. pc'[p] = "idle" /\ session'[p] = NoSession /\ UNCHANGED lockVars
            BY <1>1 DEF Acquired, Goto, Remember
        <2>2. QED BY <2>1, SessionFields DEF KeepsPlace, lockVars
    <1>2. CASE BeginSave(p)
        <2>1. /\ pc'[p] = "lockMake" /\ UNCHANGED lockVars
              /\ session'[p] = [NoSession EXCEPT !.phase = "admission", !.owned = TRUE]
            BY <1>2 DEF BeginSave, Goto, Remember
        <2>2. session[p].phase = "none"
            BY <1>2 DEF BeginSave, AtStep, ControlInv, Phase
        <2>3. QED BY <2>1, <2>2, BeginningFields DEF KeepsPlace, lockVars
    <1>3. CASE Release(p)
        <2>1. /\ pc'[p] = "idle" /\ pc[p] = "idle" /\ session' = session /\ UNCHANGED latest
              /\ token'[p] = 0 /\ (live' => live)
            BY <1>3 DEF Release, GiveUpLease, AtStep, storeVars
        <2>2. QED BY <2>1 DEF KeepsPlace, ControlInv, Phase
    <1>4. CASE Throw(p)
        BY <1>4, FailKeepsPlace DEF Throw
    <1>5. CASE Exit(p)
        <2>1. /\ pc'[p] = "idle" /\ session'[p] = NoSession /\ UNCHANGED <<latest, live>>
              /\ token'[p] = 0
            BY <1>5 DEF Exit, Goto, Remember, LoseProcess
        <2>2. QED BY <2>1, SessionFields DEF KeepsPlace
    <1>6. QED
        BY <1>1, <1>2, <1>3, <1>4, <1>5, RecoverKeepsPlace, SaveKeepsPlace, TakeLockKeepsPlace
        DEF StepOf, Lease

LEMMA StepControlInv ==
    ASSUME TypeOK, ControlInv, [Next]_vars
    PROVE  ControlInv'
    <1>1. CASE UNCHANGED <<latest, token, pc, session>> /\ (live' => live)
        BY <1>1 DEF ControlInv, Phase
    <1>2. ASSUME NEW p \in Processes, StepOf(p) PROVE ControlInv'
        <2> /\ pc \in [Processes -> Steps] /\ session \in [Processes -> Session]
            /\ token \in [Processes -> Nat] /\ latest \in Nat
            BY DEF TypeOK, LockTypeOK
        <2>1. \A q \in Processes \ {p} :
                 pc'[q] = pc[q] /\ token'[q] = token[q] /\ SameMemory(q)
            BY <1>2, OthersKeepPlace
        <2>2. token'[p] \in Nat /\ latest' \in Nat
            BY <1>2, StepTypes, NextIsStepOf DEF TypeOK, LockTypeOK
        <2>3. CASE KeepsPlace(p)
            <3>1. (live => latest > 0) => (live' => latest' > 0)
                BY <2>3 DEF KeepsPlace
            <3>2. \A q \in Processes : token'[q] <= latest'
                BY <2>1, <2>3 DEF KeepsPlace, ControlInv
            <3>3. \A q \in Processes : pc'[q] = "idle" => session'[q].phase = "none"
                BY <2>1, <2>3 DEF KeepsPlace, ControlInv, Phase, SameMemory
            <3>4. \A q \in Processes :
                     pc'[q] \in LockSteps \cup RecoverySteps \cup SaveSteps => session'[q].owned
                BY <2>1, <2>3 DEF KeepsPlace, ControlInv, SameMemory
            <3>5. \A q \in Processes : session'[q].phase \in {"acquire", "load"} =>
                     token'[q] # 0 /\ \A r \in Processes \ {q} : token'[r] # token'[q]
                BY <2>1, <2>3 DEF KeepsPlace, ControlInv, SameMemory, Phase
            <3>6. QED BY <3>1, <3>2, <3>3, <3>4, <3>5 DEF ControlInv, Phase
        <2>4. CASE Acquire(p) \/ BeginLoad(p)
            <3>1. /\ pc'[p] = "inspect"
                  /\ session'[p].owned /\ session'[p].phase \in {"acquire", "load"}
                <4>1. /\ pc' = [pc EXCEPT ![p] = "inspect"]
                      /\ \E phase \in {"acquire", "load"} :
                            session' = [session EXCEPT
                                           ![p] = [NoSession EXCEPT !.phase = phase, !.owned = TRUE]]
                    BY <2>4 DEF Acquire, BeginLoad, Goto, Remember
                <4>2. PICK phase \in {"acquire", "load"} :
                          session'[p] = [NoSession EXCEPT !.phase = phase, !.owned = TRUE]
                    BY <4>1
                <4>3. QED BY <4>1, <4>2, BeginningFields
            <3>2. /\ live' => latest' > 0
                  /\ token'[p] = latest' /\ latest' # 0 /\ latest <= latest'
                  /\ \A q \in Processes \ {p} : token'[q] # token'[p]
                <4>1. CASE Acquire(p)
                    <5>1. latest' = latest + 1 /\ token'[p] = latest + 1
                        BY <4>1 DEF Acquire, Grant
                    <5>2. QED BY <2>1, <5>1 DEF ControlInv
                <4>2. CASE BeginLoad(p)
                    BY <2>1, <4>2 DEF BeginLoad, LeaseHeld, lockVars, ControlInv
                <4>3. QED BY <2>4, <4>1, <4>2
            <3>3. \A q \in Processes : token'[q] <= latest'
                BY <2>1, <2>2, <3>2 DEF ControlInv
            <3>4. \A q \in Processes : session'[q].phase \in {"acquire", "load"} =>
                     token'[q] # 0 /\ \A r \in Processes \ {q} : token'[r] # token'[q]
                BY <2>1, <3>2 DEF ControlInv, SameMemory, Phase
            <3>5. \A q \in Processes : pc'[q] = "idle" => session'[q].phase = "none"
                BY <2>1, <3>1 DEF ControlInv, Phase, SameMemory
            <3>6. \A q \in Processes :
                     pc'[q] \in LockSteps \cup RecoverySteps \cup SaveSteps => session'[q].owned
                BY <2>1, <3>1 DEF ControlInv, SameMemory
            <3>7. QED BY <3>2, <3>3, <3>4, <3>5, <3>6 DEF ControlInv, Phase
        <2>5. ASSUME NEW q \in Processes, Share(p, q) PROVE ControlInv'
            <3>1. /\ pc[p] = "idle" /\ token[p] = 0 /\ Phase(q) \notin {"acquire", "load"}
                  /\ token' = [token EXCEPT ![p] = token[q]]
                  /\ UNCHANGED <<latest, live, pc, session>>
                BY <2>5 DEF Share, AtStep
            <3>2. Phase(p) = "none"
                BY <3>1 DEF ControlInv
            <3>3. \A r \in Processes : token'[r] <= latest'
                BY <3>1 DEF ControlInv
            <3>4. \A r \in Processes : session'[r].phase \in {"acquire", "load"} =>
                     token'[r] # 0 /\ \A o \in Processes \ {r} : token'[o] # token'[r]
                BY <3>1, <3>2 DEF ControlInv, Phase
            <3>5. QED BY <3>1, <3>3, <3>4 DEF ControlInv, Phase
        <2>6. QED BY <1>2, <2>3, <2>4, <2>5, OwnStep
    <1>3. CASE (LeaseExpires \/ LockExpires) /\ UNCHANGED storeVars
        BY <1>1, <1>3 DEF LeaseExpires, LockExpires, storeVars
    <1>4. CASE UNCHANGED vars
        BY <1>1, <1>4 DEF vars, lockVars, storeVars
    <1>5. QED BY <1>2, <1>3, <1>4, NextIsStepOf

\* Two processes are never both in the owner's place: the gate has one owner,
\* and beside a process that acts without the gate nobody carries its token.
LEMMA OneOwner ==
    ASSUME ControlInv, NEW p \in Processes, NEW q \in Processes,
           ~Superseded(p), ~Superseded(q)
    PROVE  p = q
    <1>1. token[p] = token[q]
        BY DEF Superseded
    <1>2. CASE Phase(p) \in {"acquire", "load"} \/ Phase(q) \in {"acquire", "load"}
        BY <1>1, <1>2 DEF ControlInv
    <1>3. CASE ~(Phase(p) \in {"acquire", "load"} \/ Phase(q) \in {"acquire", "load"})
        BY <1>3 DEF Superseded, HoldsGate
    <1>4. QED BY <1>2, <1>3

\* Only the process that writes the owner record begins to hold the gate.
LEMMA GateOwnership ==
    ASSUME TypeOK, NEW p \in Processes, StepOf(p), gate'.state = "held"
    PROVE  gate' = gate \/ (WriteOwner(p, "inspect") /\ gate'.owner = p)
    <1>1. CASE ~LockOperation(p)
        BY <1>1, GateElsewhere
    <1>2. CASE LockOperation(p)
        BY <1>2
        DEF LockOperation, MakeLock, OpenOwner, WriteOwner, CreationThrows, FindStale,
            StealLock, RemoveLock, Contended, AssertRelease, RenameReleased, lockVars,
            OwnerFile, Absent, Bare
    <1>3. QED BY <1>1, <1>2

\* Whoever has lost the owner's place stays without it, until its operation ends.
LEMMA StaysSuperseded ==
    ASSUME TypeOK, ControlInv, [Next]_vars, NEW q \in Processes, Superseded(q),
           pc'[q] \notin {"idle", "inspect", "lockFail"}
    PROVE  Superseded(q)'
    <1> /\ token \in [Processes -> Nat] /\ latest \in Nat /\ gate \in Gates
        BY DEF TypeOK, LockTypeOK
    <1>1. ASSUME gate'.state = "held" => gate'.owner = gate.owner /\ gate'.token = gate.token /\ gate.state = "held",
                 token'[q] = token[q], latest' \in Nat, latest' >= latest,
                 \/ session'[q].phase = session[q].phase
                 \/ Phase(q) \notin {"acquire", "load"} /\ session'[q].phase \notin {"acquire", "load"}
          PROVE  Superseded(q)'
        <2>1. token[q] # latest => token'[q] # latest'
            BY <1>1 DEF ControlInv
        <2>2. ~HoldsGate(q) => ~HoldsGate(q)'
            BY <1>1 DEF HoldsGate
        <2>3. QED BY <1>1, <2>1, <2>2 DEF Superseded, Phase
    <1>2. CASE (LeaseExpires \/ LockExpires) /\ UNCHANGED storeVars
        BY <1>1, <1>2 DEF LeaseExpires, LockExpires, storeVars, Gates
    <1>3. CASE UNCHANGED vars
        BY <1>1, <1>3 DEF vars, lockVars, storeVars
    <1>4. ASSUME NEW p \in Processes, StepOf(p), p # q PROVE Superseded(q)'
        <2>1. pc'[q] = pc[q] /\ token'[q] = token[q] /\ session'[q].phase = session[q].phase
            BY <1>4, OthersKeepPlace DEF SameMemory
        <2>2. latest' \in Nat /\ latest' >= latest
            <3>1. latest' \in Nat
                BY <1>4, StepTypes, NextIsStepOf DEF TypeOK, LockTypeOK
            <3>2. UNCHANGED latest \/ latest' = latest + 1
                BY <1>4, OwnStep DEF KeepsPlace, Acquire, Grant, BeginLoad, Share, lockVars
            <3>3. QED BY <3>1, <3>2
        <2>3. CASE gate'.state = "held" /\ gate' # gate
            <3>1. gate'.owner = p
                BY <1>4, <2>3, GateOwnership
            <3>2. ~HoldsGate(q)'
                BY <1>4, <3>1 DEF HoldsGate
            <3>3. token[q] # latest => token'[q] # latest'
                BY <2>1, <2>2 DEF ControlInv
            <3>4. QED BY <2>1, <3>2, <3>3 DEF Superseded, Phase
        <2>4. CASE ~(gate'.state = "held" /\ gate' # gate)
            BY <1>1, <2>1, <2>2, <2>4
        <2>5. QED BY <2>3, <2>4
    <1>5. CASE StepOf(q)
        <2>1. KeepsPlace(q)
            BY <1>5, OwnStep
            DEF Acquire, BeginLoad, Share, Goto, AtStep, TypeOK
        <2>2. gate'.state = "held" => gate' = gate
            BY <1>5, GateOwnership DEF WriteOwner, Goto, TypeOK
        <2>3. token'[q] = token[q]
              /\ \/ session'[q].phase = session[q].phase
                 \/ Phase(q) \notin {"acquire", "load"} /\ session'[q].phase \notin {"acquire", "load"}
            BY <2>1 DEF KeepsPlace, Phase
        <2>4. QED BY <1>1, <2>1, <2>2, <2>3 DEF KeepsPlace
    <1>6. QED BY <1>2, <1>3, <1>4, <1>5, NextIsStepOf

-----------------------------------------------------------------------------
(***************************************************************************)
(* What a step of the process in the owner's place makes of the files.     *)
(***************************************************************************)
Grows == Primary' = Primary \/ IsChild(Primary', Primary)

\* The steps behind which p relies on the files.
Staged == Promoting \cup {"promoteVerify", "clean"} \cup Preparing \cup Prepared

LEMMA Unstaged ==
    ASSUME NEW p, pc'[p] \notin Staged
    PROVE  OwnerInv(p)'
    BY DEF OwnerInv, Staged, Promoting, Preparing, Prepared

OwnerKeeps(p) == Consistent(files', acked) /\ Grows /\ OwnerInv(p)'

\* A step that touches no file and leads where nothing more is relied on.
LEMMA ReadOnlyKeeps ==
    ASSUME NEW p, Consistent(files, acked), UNCHANGED files, OwnerInv(p)'
    PROVE  OwnerKeeps(p)
    BY DEF OwnerKeeps, Grows, Primary

\* The files and the memory as they were, one step on within a stage.
LEMMA NextInStage ==
    ASSUME NEW p, Consistent(files, acked), OwnerInv(p), UNCHANGED files,
           session'[p].base = session[p].base, session'[p].new = session[p].new,
           \/ pc[p] \in Preparing /\ pc'[p] \in Preparing \ {"tempWrite"}
           \/ pc[p] \in Prepared /\ pc'[p] \in Prepared \ {"backupWrite", "backupRename"}
    PROVE  OwnerKeeps(p)
    <1>1. OwnerInv(p)'
        BY DEF OwnerInv, Promoting, Preparing, Prepared, Base, New, Primary
    <1>2. QED BY <1>1, ReadOnlyKeeps

LEMMA OwnerInspects ==
    ASSUME TypeOK, NEW p \in Processes, Consistent(files, acked), Inspect(p), ~Fail(p)
    PROVE  OwnerKeeps(p)
    <1> files \in [AllPaths -> Content] /\ pc \in [Processes -> Steps]
        BY DEF TypeOK
    <1> DEFINE base == session'[p].base
    <1>1. UNCHANGED files
        BY InspectEffect DEF ReadOnly
    <1>2. CASE EligibleValid(files, token[p]) # {}
        <2>1. /\ base = Selected(files, token[p])
              /\ pc'[p] = IF files["primary"].snap = base THEN "clean" ELSE "promoteOpen"
            BY <1>2, InspectEffect
        <2>2. \/ base = Primary
              \/ IsChild(base, Primary) /\ (IsValid(files["temp"]) => files["temp"].snap = base)
            BY <1>2, <2>1, SelectionOnDisk DEF Primary
        <2> HIDE DEF base
        <2>3. pc'[p] = "clean" => base = Primary
            BY <2>1 DEF Primary
        <2>4. pc'[p] = "promoteOpen" => base # Primary
            BY <2>1 DEF Primary
        <2>5. pc'[p] \in {"clean", "promoteOpen"}
            BY <2>1
        <2>6. OwnerInv(p)'
            BY <1>1, <2>2, <2>3, <2>4, <2>5
            DEF base, OwnerInv, Promoting, Preparing, Prepared, Base, Primary
        <2>7. QED BY <1>1, <2>6, ReadOnlyKeeps
    <1>3. CASE EligibleValid(files, token[p]) = {}
        <2>1. /\ base = <<>>
              /\ pc'[p] = IF AnyExisting(files) THEN "clean" ELSE AfterRecovery(p)
            BY <1>3, InspectEffect
        <2>2. Primary = <<>>
            BY <1>3, PrimaryIsEligible DEF Primary
        <2>3. pc'[p] \in {"clean", "acquired", "admit", "reconcile"}
            BY <2>1 DEF AfterRecovery
        <2>4. pc'[p] # "clean" => ~IsValid(files["temp"]) /\ ~IsValid(files["recoveryTemp"])
            BY <2>1 DEF AnyExisting, Consistent, AllPaths, CandidateRoles
        <2> HIDE DEF base
        <2>5. OwnerInv(p)'
            BY <1>1, <2>1, <2>2, <2>3, <2>4
            DEF base, OwnerInv, Promoting, Preparing, Prepared, Base, Primary
        <2>6. QED BY <1>1, <2>5, ReadOnlyKeeps
    <1>4. QED BY <1>2, <1>3

LEMMA OwnerPromotes ==
    ASSUME TypeOK, NEW p \in Processes, Consistent(files, acked), OwnerInv(p),
           PromoteOpen(p) \/ PromoteWrite(p) \/ PromoteRename(p), ~Fail(p)
    PROVE  OwnerKeeps(p)
    <1> /\ files \in [AllPaths -> Content] /\ pc \in [Processes -> Steps]
        /\ session[p] \in Session
        BY DEF TypeOK
    <1> USE DEF AllPaths, CandidateRoles
    <1>1. /\ IsChild(Base(p), Primary) /\ (IsValid(files["temp"]) => files["temp"].snap = Base(p))
          /\ Base(p) \in Seq(Payload) /\ acked \in SUBSET Seq(Payload)
        BY SessionTypes DEF OwnerInv, Promoting, PromoteOpen, PromoteWrite, PromoteRename, AtStep, TypeOK
    <1>2. CASE PromoteOpen(p)
        <2>1. /\ files' = [files EXCEPT !["recoveryTemp"] = Torn] /\ pc'[p] = "promoteWrite"
              /\ session'[p].base = Base(p) /\ session'[p].openAt = "recoveryTemp"
            BY <1>2, CreateEffect DEF PromoteOpen, Carries, Goto, Base
        <2>2. /\ files'["recoveryTemp"] = Torn
              /\ \A q \in AllPaths \ {"recoveryTemp"} : files'[q] = files[q]
            BY <2>1
        <2>3. Consistent(files', acked)
            <3>1. \A q \in AllPaths : \/ files'[q] = files[q]
                                      \/ /\ q \in TransientRoles \cup {"backupTemp"}
                                         /\ files'[q] \in {Missing, Torn}
                BY <2>2 DEF TransientRoles
            <3>2. QED BY <3>1, ConsistentAfterClearing
        <2>4. Primary' = Primary /\ files'["temp"] = files["temp"]
            BY <2>2 DEF Primary
        <2>5. OwnerInv(p)'
            BY <1>1, <2>1, <2>4 DEF OwnerInv, Promoting, Preparing, Prepared, Base
        <2>6. QED BY <2>3, <2>4, <2>5 DEF OwnerKeeps, Grows
    <1>3. CASE PromoteWrite(p)
        <2>1. /\ files' = [files EXCEPT !["recoveryTemp"] = Holds(Base(p))]
              /\ session'[p].base = Base(p) /\ pc'[p] = "promoteRename"
            BY <1>3, WriteOpenEffect DEF PromoteWrite, AtStep, OwnerInv, Carries, Goto, Base
        <2>2. /\ files'["recoveryTemp"] = Holds(Base(p))
              /\ \A q \in AllPaths \ {"recoveryTemp"} : files'[q] = files[q]
            BY <2>1
        <2>3. Consistent(files', acked)
            <3>1. \A q \in TransientRoles \ {"recoveryTemp"} :
                     IsValid(files[q]) => q = "temp" /\ files[q].snap = Base(p)
                BY <1>1 DEF TransientRoles
            <3>2. "recoveryTemp" \in TransientRoles
                BY DEF TransientRoles
            <3>3. QED BY <1>1, <2>2, <3>1, <3>2, ConsistentAfterWriting DEF Primary
        <2>4. Primary' = Primary /\ files'["temp"] = files["temp"]
            BY <2>2 DEF Primary
        <2>5. OwnerInv(p)'
            BY <1>1, <2>1, <2>2, <2>4 DEF OwnerInv, Promoting, Preparing, Prepared, Base
        <2>6. QED BY <2>3, <2>4, <2>5 DEF OwnerKeeps, Grows
    <1>4. CASE PromoteRename(p)
        <2>1. /\ Rename(p, "recoveryTemp", "primary") /\ files["recoveryTemp"] = Holds(Base(p))
              /\ pc'[p] = "promoteVerify"
            BY <1>4 DEF PromoteRename, OwnerInv, AtStep, Goto
        <2>2. /\ files' = [files EXCEPT !["primary"] = Holds(Base(p)), !["recoveryTemp"] = Missing]
              /\ session'[p].base = Base(p)
            BY <2>1, RenameEffect DEF Carries, Base
        <2>3. /\ files'["primary"] = Holds(Base(p)) /\ files'["recoveryTemp"] = Missing
              /\ \A q \in {"temp", "backup", "backupTemp"} : files'[q] = files[q]
            BY <2>2
        <2>4. Consistent(files', acked)
            BY <1>1, <2>3, ConsistentAfterInstall DEF Primary, IsValid, Missing
        <2>5. Primary' = Base(p)
            BY <2>3 DEF Primary, Holds
        <2>6. OwnerInv(p)'
            BY <2>1, <2>2, <2>5 DEF OwnerInv, Promoting, Preparing, Prepared, Base
        <2>7. QED BY <1>1, <2>4, <2>5, <2>6 DEF OwnerKeeps, Grows
    <1>5. QED BY <1>2, <1>3, <1>4

LEMMA OwnerCleans ==
    ASSUME TypeOK, NEW p \in Processes, Consistent(files, acked), OwnerInv(p),
           PromoteVerify(p) \/ Clean(p) \/ Commit(p), ~Fail(p)
    PROVE  OwnerKeeps(p)
    <1> files \in [AllPaths -> Content] /\ pc \in [Processes -> Steps]
        BY DEF TypeOK
    <1> USE DEF AllPaths, CandidateRoles
    <1>1. CASE PromoteVerify(p)
        <2>1. UNCHANGED <<files, session>> /\ pc'[p] = "clean" /\ Base(p) = Primary
            BY <1>1 DEF PromoteVerify, ReadOnly, Goto, OwnerInv, AtStep
        <2>2. OwnerInv(p)'
            BY <2>1 DEF OwnerInv, Promoting, Preparing, Prepared, Base, Primary
        <2>3. QED BY <2>1, <2>2, ReadOnlyKeeps
    <1>2. ASSUME CleanUp(p)
          PROVE  /\ Consistent(files', acked) /\ Primary' = Primary
                 /\ ~IsValid(files'["temp"]) /\ ~IsValid(files'["recoveryTemp"])
        <2>1. \A q \in AllPaths : files'[q] = IF q \in {"temp", "recoveryTemp", "backupTemp"}
                                                THEN Missing ELSE files[q]
            BY <1>2, CleanUpEffect
        <2>2. Consistent(files', acked)
            BY <2>1, ConsistentAfterClearing DEF TransientRoles
        <2>3. QED BY <2>1, <2>2 DEF Primary, IsValid, Missing
    <1>3. CASE Clean(p)
        <2>1. CleanUp(p) /\ pc'[p] = AfterRecovery(p) /\ Base(p) = Primary
            BY <1>3 DEF Clean, Goto, AtStep, OwnerInv
        <2>2. session'[p].base = Base(p) /\ pc'[p] \in {"acquired", "admit", "reconcile"}
            BY <2>1, CleanUpEffect DEF Carries, Base, AfterRecovery
        <2>3. OwnerInv(p)'
            BY <1>2, <2>1, <2>2 DEF OwnerInv, Promoting, Preparing, Prepared, Base
        <2>4. QED BY <1>2, <2>1, <2>3 DEF OwnerKeeps, Grows
    <1>4. CASE Commit(p)
        <2>1. CleanUp(p) /\ pc'[p] \notin Staged
            BY <1>4 DEF Commit, Goto, Staged, Promoting, Preparing, Prepared
        <2>2. QED BY <1>2, <2>1, Unstaged DEF OwnerKeeps, Grows
    <1>5. QED BY <1>1, <1>3, <1>4

\* The stages of a save between its guards.
LEMMA OwnerGuards ==
    ASSUME TypeOK, NEW p \in Processes, Consistent(files, acked), OwnerInv(p),
           NEW step, NEW then \in SaveSteps, Guard(p, step, then), ~Fail(p),
           \/ step \in Preparing /\ then \in Preparing \ {"tempWrite"}
           \/ step \in Prepared /\ then \in Prepared \ {"backupWrite", "backupRename"}
           \/ then \notin Staged
    PROVE  OwnerKeeps(p)
    <1>1. pc[p] = step /\ pc'[p] = then /\ UNCHANGED files
          /\ session'[p].base = session[p].base /\ session'[p].new = session[p].new
        BY GuardKeepsPlace DEF Guard, AtStep, Goto, ReadOnly, TypeOK
    <1>2. CASE then \notin Staged
        BY <1>1, <1>2, Unstaged, ReadOnlyKeeps
    <1>3. QED BY <1>1, <1>2, NextInStage

LEMMA OwnerPrepares ==
    ASSUME TypeOK, NEW p \in Processes, Consistent(files, acked), OwnerInv(p),
           (\E world \in Worlds : TempOpen(p, world)) \/ TempWrite(p), ~Fail(p)
    PROVE  OwnerKeeps(p)
    <1> /\ files \in [AllPaths -> Content] /\ pc \in [Processes -> Steps]
        /\ session[p] \in Session
        BY DEF TypeOK
    <1> USE DEF AllPaths, CandidateRoles
    <1>1. Base(p) = Primary /\ ~IsValid(files["recoveryTemp"])
        BY DEF OwnerInv, Preparing, Prepared, TempOpen, TempWrite, AtStep
    <1>2. ASSUME NEW world \in Worlds, TempOpen(p, world) PROVE OwnerKeeps(p)
        <2>1. /\ files' = [files EXCEPT !["temp"] = Torn] /\ pc'[p] = "tempWrite"
              /\ session'[p].base = Base(p) /\ session'[p].openAt = "temp"
              /\ session'[p].new = Envelope(p, world)
            BY <1>2, TempOpenEffect DEF TempOpen, Goto, Base
        <2>2. files'["temp"] = Torn /\ \A q \in AllPaths \ {"temp"} : files'[q] = files[q]
            BY <2>1
        <2>3. Consistent(files', acked)
            <3>1. \A q \in AllPaths : \/ files'[q] = files[q]
                                      \/ /\ q \in TransientRoles \cup {"backupTemp"}
                                         /\ files'[q] \in {Missing, Torn}
                BY <2>2 DEF TransientRoles
            <3>2. QED BY <3>1, ConsistentAfterClearing
        <2>4. /\ Primary' = Primary /\ files'["recoveryTemp"] = files["recoveryTemp"]
              /\ ~IsValid(files'["temp"])
            BY <2>2 DEF Primary, IsValid, Torn
        <2>5. IsChild(session'[p].new, session'[p].base)
            BY <2>1, EnvelopeType
        <2>6. OwnerInv(p)'
            BY <1>1, <2>1, <2>4, <2>5 DEF OwnerInv, Promoting, Preparing, Prepared, Base, New
        <2>7. QED BY <2>3, <2>4, <2>6 DEF OwnerKeeps, Grows
    <1>3. CASE TempWrite(p)
        <2>1. IsChild(New(p), Primary)
            BY <1>1, <1>3 DEF TempWrite, AtStep, OwnerInv
        <2>2. /\ files' = [files EXCEPT !["temp"] = Holds(New(p))]
              /\ session'[p].base = Base(p) /\ session'[p].new = New(p) /\ pc'[p] = "guardBackup"
            BY <1>3, WriteOpenEffect DEF TempWrite, AtStep, OwnerInv, Carries, Goto, Base, New
        <2>3. /\ files'["temp"] = Holds(New(p))
              /\ \A q \in AllPaths \ {"temp"} : files'[q] = files[q]
            BY <2>2
        <2>4. Consistent(files', acked)
            <3>1. \A q \in TransientRoles \ {"temp"} : ~IsValid(files[q])
                BY <1>1 DEF TransientRoles
            <3>2. "temp" \in TransientRoles
                BY DEF TransientRoles
            <3>3. QED BY <2>1, <2>3, <3>1, <3>2, ConsistentAfterWriting DEF Primary
        <2>5. Primary' = Primary /\ files'["recoveryTemp"] = files["recoveryTemp"]
            BY <2>3 DEF Primary
        <2>6. OwnerInv(p)'
            BY <1>1, <2>1, <2>2, <2>3, <2>5 DEF OwnerInv, Promoting, Preparing, Prepared, Base, New
        <2>7. QED BY <2>4, <2>5, <2>6 DEF OwnerKeeps, Grows
    <1>4. QED BY <1>2, <1>3

LEMMA OwnerBacksUp ==
    ASSUME TypeOK, NEW p \in Processes, Consistent(files, acked), OwnerInv(p),
           BackupOpen(p) \/ BackupWrite(p) \/ BackupRename(p), ~Fail(p)
    PROVE  OwnerKeeps(p)
    <1> /\ files \in [AllPaths -> Content] /\ pc \in [Processes -> Steps]
        /\ session[p] \in Session
        BY DEF TypeOK
    <1> USE DEF AllPaths, CandidateRoles
    <1> DEFINE kept == /\ \A q \in {"primary", "temp", "recoveryTemp"} : files'[q] = files[q]
                       /\ session'[p].base = Base(p) /\ session'[p].new = New(p)
    <1>1. /\ pc[p] \in Prepared /\ Base(p) = Primary /\ ~IsValid(files["recoveryTemp"])
          /\ IsChild(New(p), Base(p)) /\ files["temp"] = Holds(New(p))
        BY DEF OwnerInv, Preparing, Prepared, BackupOpen, BackupWrite, BackupRename, AtStep
    <1>2. ASSUME kept, pc'[p] \in Prepared,
                 pc'[p] = "backupWrite" =>
                     session'[p].openAt = "backupTemp" /\ session'[p].copy = files["primary"],
                 pc'[p] = "backupRename" => files'["backupTemp"] = files["primary"]
          PROVE  Primary' = Primary /\ OwnerInv(p)'
        BY <1>1, <1>2 DEF OwnerInv, Promoting, Preparing, Prepared, Base, New, Primary
    <1>3. CASE UNCHANGED <<files, session>> /\ pc'[p] = "guardInstall"
        BY <1>1, <1>3, NextInStage DEF Prepared
    <1>4. CASE BackupOpen(p) /\ files["primary"].exists
        <2>1. /\ files' = [files EXCEPT !["backupTemp"] = Torn] /\ pc'[p] = "backupWrite"
              /\ session'[p].base = Base(p) /\ session'[p].new = New(p)
              /\ session'[p].openAt = "backupTemp" /\ session'[p].copy = files["primary"]
            BY <1>4, BackupOpenEffect DEF BackupOpen, Goto, Base, New
        <2>2. files'["backupTemp"] = Torn /\ \A q \in CandidateRoles : files'[q] = files[q]
            BY <2>1
        <2>3. Consistent(files', acked)
            BY <2>2, ConsistentAfterCopying DEF IsValid, Torn
        <2>4. QED BY <1>2, <2>1, <2>2, <2>3 DEF OwnerKeeps, Grows, Prepared
    <1>5. CASE BackupWrite(p)
        <2>1. /\ files' = [files EXCEPT !["backupTemp"] = files["primary"]]
              /\ session'[p].base = Base(p) /\ session'[p].new = New(p) /\ pc'[p] = "backupRename"
            BY <1>5, WriteOpenEffect DEF BackupWrite, AtStep, OwnerInv, Carries, Goto, Base, New
        <2>2. /\ files'["backupTemp"] = files["primary"]
              /\ \A q \in CandidateRoles : files'[q] = files[q]
            BY <2>1
        <2>3. Consistent(files', acked)
            BY <2>2, ConsistentAfterCopying DEF Consistent
        <2>4. QED BY <1>2, <2>1, <2>2, <2>3 DEF OwnerKeeps, Grows, Prepared
    <1>6. CASE BackupRename(p) /\ files["backupTemp"].exists
        <2>1. /\ Rename(p, "backupTemp", "backup") /\ files["backupTemp"] = files["primary"]
              /\ pc'[p] = "guardInstall"
            BY <1>6 DEF BackupRename, OwnerInv, AtStep, Goto
        <2>2. /\ files' = [files EXCEPT !["backup"] = files["primary"], !["backupTemp"] = Missing]
              /\ session'[p].base = Base(p) /\ session'[p].new = New(p)
            BY <2>1, RenameEffect DEF Carries, Base, New
        <2>3. /\ files'["backup"] = files["primary"] /\ files'["backupTemp"] = Missing
              /\ \A q \in CandidateRoles \ {"backup"} : files'[q] = files[q]
            BY <2>2
        <2>4. Consistent(files', acked)
            BY <2>3, ConsistentAfterBackup
        <2>5. QED BY <1>2, <2>1, <2>2, <2>3, <2>4 DEF OwnerKeeps, Grows, Prepared
    <1>7. CASE \/ BackupOpen(p) /\ ~files["primary"].exists
               \/ BackupRename(p) /\ ~files["backupTemp"].exists
        BY <1>3, <1>7 DEF BackupOpen, BackupRename, ReadOnly, Goto
    <1>8. QED BY <1>4, <1>5, <1>6, <1>7

LEMMA OwnerInstalls ==
    ASSUME TypeOK, NEW p \in Processes, Consistent(files, acked), OwnerInv(p), Install(p), ~Fail(p)
    PROVE  OwnerKeeps(p)
    <1> files \in [AllPaths -> Content] /\ pc \in [Processes -> Steps]
        /\ acked \in SUBSET Seq(Payload) /\ New(p) \in Seq(Payload)
        BY SessionTypes DEF TypeOK
    <1> USE DEF AllPaths, CandidateRoles
    <1>1. /\ Base(p) = Primary /\ ~IsValid(files["recoveryTemp"])
          /\ IsChild(New(p), Base(p)) /\ files["temp"] = Holds(New(p))
        BY DEF OwnerInv, Prepared, Install, AtStep
    <1>2. Rename(p, "temp", "primary") /\ pc'[p] = "guardVerify"
        BY DEF Install, Goto
    <1>3. files' = [files EXCEPT !["primary"] = files["temp"], !["temp"] = Missing]
        BY <1>2, RenameEffect
    <1>4. /\ files'["primary"] = Holds(New(p)) /\ files'["temp"] = Missing
          /\ \A q \in {"recoveryTemp", "backup", "backupTemp"} : files'[q] = files[q]
        BY <1>1, <1>3
    <1>5. Consistent(files', acked)
        BY <1>1, <1>4, ConsistentAfterInstall DEF Primary, IsValid, Missing
    <1>6. Primary' = New(p)
        BY <1>4 DEF Primary, Holds
    <1>7. OwnerInv(p)'
        BY <1>2, Unstaged DEF Staged, Promoting, Preparing, Prepared
    <1>8. QED BY <1>1, <1>5, <1>6, <1>7 DEF OwnerKeeps, Grows

\* Whatever it does, the owner keeps the files consistent, leaves the primary
\* or replaces it by a child, and knows again what it relies on.
LEMMA OwnerKeepsFiles ==
    ASSUME TypeOK, NEW p \in Processes, Consistent(files, acked), OwnerInv(p),
           Recover(p) \/ Save(p), ~ReleaseLock(p)
    PROVE  OwnerKeeps(p)
    <1> pc \in [Processes -> Steps] /\ session \in [Processes -> Session]
        BY DEF TypeOK
    <1>1. CASE Fail(p)
        <2>1. UNCHANGED files /\ pc'[p] \in {"idle", "releaseAssert"}
            BY <1>1 DEF Fail, Goto
        <2>2. QED BY <2>1, Unstaged, ReadOnlyKeeps DEF Staged, Promoting, Preparing, Prepared
    <1>2. CASE ~Fail(p) /\ (Admit(p) \/ Verify(p) \/ RecordLineage(p))
        <2>1. UNCHANGED files /\ pc'[p] \in {"inspect", "guardLineage", "guardCommit"}
            BY <1>2, AdmitEffect DEF Verify, RecordLineage, ReadOnly, Goto
        <2>2. QED BY <2>1, Unstaged, ReadOnlyKeeps DEF Staged, Promoting, Preparing, Prepared
    <1>3. CASE ~Fail(p) /\ (GuardTemp(p) \/ GuardBackup(p) \/ GuardInstall(p) \/ GuardVerify(p)
                           \/ GuardLineage(p) \/ GuardCommit(p))
        BY <1>3, OwnerGuards
        DEF GuardTemp, GuardBackup, GuardInstall, GuardVerify, GuardLineage, GuardCommit,
            SaveSteps, Staged, Promoting, Preparing, Prepared
    <1>4. CASE ~Fail(p) /\ Reconcile(p)
        <2>1. /\ UNCHANGED files /\ pc[p] = "reconcile"
              /\ \/ pc'[p] = "idle"
                 \/ pc'[p] = "guardTemp" /\ session' = session
            BY <1>4 DEF Reconcile, AtStep, ReadOnly, Goto
        <2>2. CASE pc'[p] = "idle"
            BY <2>1, <2>2, Unstaged, ReadOnlyKeeps DEF Staged, Promoting, Preparing, Prepared
        <2>3. CASE pc'[p] = "guardTemp" /\ session' = session
            BY <2>1, <2>3, NextInStage DEF Preparing
        <2>4. QED BY <2>1, <2>2, <2>3
    <1>5. CASE ~Fail(p) /\ MatchBase(p)
        <2>1. /\ UNCHANGED <<files, session>> /\ pc[p] = "matchBase" /\ pc'[p] = "install"
            BY <1>5 DEF MatchBase, AtStep, ReadOnly, Goto
        <2>2. QED BY <2>1, NextInStage DEF Prepared
    <1>6. CASE ~Fail(p) /\ Recover(p)
        BY <1>6, OwnerInspects, OwnerPromotes, OwnerCleans DEF Recover
    <1>7. CASE ~Fail(p) /\ (Commit(p) \/ (\E world \in Worlds : TempOpen(p, world)) \/ TempWrite(p)
                           \/ BackupOpen(p) \/ BackupWrite(p) \/ BackupRename(p) \/ Install(p))
        BY <1>7, OwnerCleans, OwnerPrepares, OwnerBacksUp, OwnerInstalls
    <1>8. QED
        BY <1>1, <1>2, <1>3, <1>4, <1>5, <1>6, <1>7 DEF Save, RejectAtBarrier

-----------------------------------------------------------------------------
(***************************************************************************)
(* What a step leaves of the other processes' place.                       *)
(***************************************************************************)

\* A step touches nothing another process relies on, unless it is the owner's.
Undisturbed(p) ==
    UNCHANGED files /\ \A q \in Processes \ {p} : session'[q] = session[q]

LEMMA OwnerOrUndisturbed ==
    ASSUME TypeOK, ControlInv, NEW p \in Processes, StepOf(p), ~overtaken'
    PROVE  /\ ~overtaken
           /\ \/ Undisturbed(p)
              \/ ~Superseded(p) /\ (Recover(p) \/ Save(p)) /\ ~ReleaseLock(p)
    <1> session \in [Processes -> Session] /\ pc \in [Processes -> Steps]
        BY DEF TypeOK
    <1>1. ASSUME UNCHANGED <<files, overtaken>>,
                 \A q \in Processes \ {p} : session'[q] = session[q]
          PROVE  ~overtaken /\ Undisturbed(p)
        BY <1>1 DEF Undisturbed
    <1>2. CASE Fail(p)
        BY <1>1, <1>2 DEF Fail, Remember
    <1>3. CASE Quiet(p)
        BY <1>1, <1>3 DEF Quiet, ReadOnly
    <1>4. CASE Reconcile(p) \/ RecordLineage(p) \/ ReleaseLock(p)
        <2>1. UNCHANGED <<files, overtaken>> /\ (UNCHANGED session \/ \E s : Remember(p, s))
            BY <1>4
            DEF Reconcile, RecordLineage, ReleaseLock, Deliver, Fail, ReadOnly, storeVars
        <2>2. QED BY <1>1, <2>1 DEF Remember
    <1>5. CASE TakeLock(p)
        <2>1. UNCHANGED <<files, overtaken>> /\ (UNCHANGED session \/ \E s : Remember(p, s))
            BY <1>5 DEF TakeLock, Refused, storeVars
        <2>2. QED BY <1>1, <2>1 DEF Remember
    <1>6. CASE Lease(p) \/ Exit(p) \/ Throw(p)
        <2>1. UNCHANGED <<files, overtaken>> /\ (UNCHANGED session \/ \E s : Remember(p, s))
            BY <1>6
            DEF Lease, Acquire, Acquired, BeginSave, BeginLoad, Release, Share, Exit, Throw, Fail,
                storeVars
        <2>2. QED BY <1>1, <2>1 DEF Remember
    <1>7. CASE (Recover(p) \/ Save(p)) /\ ~ReleaseLock(p)
               /\ \E fs, moved, changed : Change(p, fs, moved, changed)
        <2>1. pc[p] \in RecoverySteps \cup SaveSteps \/ Fail(p) \/ Quiet(p)
            BY <1>7
            DEF Recover, Inspect, PromoteOpen, PromoteWrite, PromoteRename, PromoteVerify, Clean,
                Save, Admit, RejectAtBarrier, Reconcile, GuardTemp, TempOpen, TempWrite,
                GuardBackup, BackupOpen, BackupWrite, BackupRename, GuardInstall, MatchBase,
                Install, GuardVerify, Verify, GuardLineage, RecordLineage, GuardCommit, Commit,
                Guard, AtStep, RecoverySteps, SaveSteps
        <2>2. CASE pc[p] \in RecoverySteps \cup SaveSteps
            <3>1. session[p].owned
                BY <2>2 DEF ControlInv
            <3>2. PICK fs, moved, changed : Change(p, fs, moved, changed)
                BY <1>7
            <3>3. /\ ~overtaken /\ files' = fs
                  /\ \/ ~Superseded(p)
                     \/ fs = files /\ \A q \in Processes \ {p} : session'[q] = session[q]
                BY <3>1, <3>2, ChangeEffect
            <3>4. QED BY <1>7, <3>3 DEF Undisturbed
        <2>3. QED BY <1>2, <1>3, <2>1, <2>2
    <1>8. CASE Recover(p) \/ Save(p)
        BY <1>2, <1>3, <1>4, <1>7, <1>8, QuietOrChange
    <1>9. QED BY <1>5, <1>6, <1>8 DEF StepOf

LEMMA StagedSteps == {"idle", "inspect", "lockFail"} \cap Staged = {}
    BY DEF Staged, Promoting, Preparing, Prepared

\* Where a process still has the owner's place after a step of another, what it
\* relies on is untouched.
LEMMA OthersOwnerInv ==
    ASSUME TypeOK, ControlInv, FilesInv, NEW p \in Processes, StepOf(p), ~overtaken',
           NEW q \in Processes \ {p}, ~Superseded(q)'
    PROVE  OwnerInv(q)'
    <1>1. pc'[q] = pc[q] /\ SameMemory(q)
        BY OthersKeepPlace
    <1>2. CASE pc[q] \notin Staged
        BY <1>1, <1>2, Unstaged
    <1>3. CASE pc[q] \in Staged
        <2>1. ~Superseded(q)
            BY <1>1, <1>3, StaysSuperseded, StagedSteps, NextIsStepOf
        <2>2. Undisturbed(p)
            BY <2>1, OneOwner, OwnerOrUndisturbed
        <2>3. files' = files /\ session'[q] = session[q]
            BY <2>2 DEF Undisturbed
        <2>4. OwnerInv(q)
            BY <2>1 DEF FilesInv
        <2>5. QED BY <1>1, <2>3, <2>4 DEF OwnerInv, Base, New, Primary
    <1>4. QED BY <1>2, <1>3

\* A save gets into, and stays in, the stage behind its verification with what
\* it has found in the primary.
LEMMA InstalledStep ==
    ASSUME TypeOK, NEW p \in Processes, StepOf(p), pc'[p] \in Installed, session'[p].new # <<>>
    PROVE  session'[p].new = New(p) /\ (pc[p] \in Installed \/ New(p) = Primary)
    <1> pc \in [Processes -> Steps] /\ session \in [Processes -> Session]
        BY DEF TypeOK
    <1> USE DEF Installed, New
    <1>1. ~Fail(p)
        BY SessionFields DEF Fail, Remember
    <1>2. CASE Verify(p)
        BY <1>1, <1>2 DEF Verify, Primary, ReadOnly
    <1>3. CASE GuardLineage(p) \/ GuardCommit(p)
        BY <1>1, <1>3, GuardKeepsPlace DEF GuardLineage, GuardCommit, Guard, AtStep, SaveSteps
    <1>4. CASE RecordLineage(p)
        BY <1>1, <1>4 DEF RecordLineage, AtStep
    <1>5. CASE Commit(p)
        BY <1>5, CleanUpEffect DEF Commit, AtStep, Carries
    <1>6. CASE ReleaseLock(p)
        BY <1>6
        DEF ReleaseLock, AssertRelease, RenameReleased, Deliver, Goto, Remember, storeVars
    <1>7. CASE GuardTemp(p) \/ GuardBackup(p) \/ GuardInstall(p) \/ GuardVerify(p)
        BY <1>1, <1>7 DEF GuardTemp, GuardBackup, GuardInstall, GuardVerify, Guard, Goto
    <1>8. CASE Admit(p) \/ RejectAtBarrier(p) \/ Reconcile(p) \/ MatchBase(p) \/ Install(p)
        BY <1>1, <1>8 DEF Admit, RejectAtBarrier, Reconcile, MatchBase, Install, Goto
    <1>9. CASE (\E world \in Worlds : TempOpen(p, world)) \/ TempWrite(p) \/ BackupOpen(p)
               \/ BackupWrite(p) \/ BackupRename(p)
        BY <1>9 DEF TempOpen, TempWrite, BackupOpen, BackupWrite, BackupRename, Goto
    <1>10. CASE Recover(p)
        BY <1>1, <1>10
        DEF Recover, Inspect, PromoteOpen, PromoteWrite, PromoteRename, PromoteVerify, Clean, Goto,
            AfterRecovery
    <1>11. CASE Lease(p)
        BY <1>11
        DEF Lease, Acquire, Acquired, BeginSave, BeginLoad, Release, Share, Goto, AtStep
    <1>12. CASE TakeLock(p) \/ Throw(p) \/ Exit(p)
        BY <1>1, <1>12
        DEF TakeLock, MakeLock, OpenOwner, WriteOwner, CreationThrows, FindStale, StealLock,
            RemoveLock, Contended, Throw, Exit, Goto
    <1>13. QED
        BY <1>2, <1>3, <1>4, <1>5, <1>6, <1>7, <1>8, <1>9, <1>10, <1>11, <1>12 DEF StepOf, Save

LEMMA StoreStepAcked ==
    ASSUME TypeOK, NEW p \in Processes, Recover(p) \/ Save(p), ~ReleaseLock(p)
    PROVE  UNCHANGED acked
    BY QuietOrChange, ChangeEffect
    DEF Fail, Quiet, ReadOnly, StoreOnly, Reconcile, RecordLineage

\* What a step leaves of the files, of what is acknowledged, and of what the
\* process that takes it relies on.
LEMMA OwnFiles ==
    ASSUME TypeOK, ControlInv, FilesInv, NEW p \in Processes, StepOf(p), ~overtaken'
    PROVE  Consistent(files', acked') /\ Grows /\ (~Superseded(p)' => OwnerInv(p)')
    <1> pc \in [Processes -> Steps] /\ Consistent(files, acked)
        BY DEF TypeOK, FilesInv
    <1>1. CASE (Recover(p) \/ Save(p)) /\ ~ReleaseLock(p)
        <2>1. UNCHANGED acked
            BY <1>1, StoreStepAcked
        <2>2. CASE ~Superseded(p)
            BY <1>1, <2>1, <2>2, OwnerKeepsFiles DEF FilesInv, OwnerKeeps
        <2>3. CASE Superseded(p)
            <3>1. UNCHANGED files
                BY <2>3, OwnerOrUndisturbed DEF Undisturbed
            <3>2. pc'[p] \in Staged => Superseded(p)'
                BY <2>3, StaysSuperseded, StagedSteps, NextIsStepOf
            <3>3. QED BY <2>1, <3>1, <3>2, Unstaged DEF Grows, Primary
        <2>4. QED BY <2>2, <2>3
    <1>2. CASE ReleaseLock(p)
        <2>1. /\ UNCHANGED files /\ pc[p] \in Installed /\ pc'[p] \in {"idle", "releaseRename"}
              /\ acked' = acked \/ (New(p) # <<>> /\ acked' = acked \cup {New(p)})
            BY <1>2
            DEF ReleaseLock, AssertRelease, RenameReleased, Deliver, storeVars, Goto, Installed
        <2>2. OwnerInv(p)'
            BY <2>1, Unstaged DEF Staged, Promoting, Preparing, Prepared
        <2>3. New(p) # <<>> => IsPrefix(New(p), Primary)
            BY <2>1 DEF FilesInv, InstalledInv
        <2>4. Consistent(files', acked')
            <3>1. Consistent(files, acked')
                <4>1. CASE acked' = acked
                    BY <4>1
                <4>2. CASE New(p) # <<>> /\ acked' = acked \cup {New(p)}
                    BY <2>3, <4>2, ConsistentAfterCommit DEF Primary
                <4>3. QED BY <2>1, <4>1, <4>2
            <3>2. QED BY <2>1, <3>1
        <2>5. QED BY <2>1, <2>2, <2>4 DEF Grows, Primary
    <1>3. CASE Lease(p) \/ TakeLock(p) \/ Throw(p) \/ Exit(p)
        <2>1. UNCHANGED <<files, acked>>
            BY <1>3
            DEF Lease, Acquire, Acquired, BeginSave, BeginLoad, Release, Share, TakeLock, Refused,
                Throw, Fail, Exit, storeVars
        <2>2. pc'[p] \in {"idle", "inspect", "releaseAssert"} \cup LockSteps
            BY <1>3
            DEF Lease, Acquire, Acquired, BeginSave, BeginLoad, Release, Share, TakeLock, MakeLock,
                OpenOwner, WriteOwner, CreationThrows, FindStale, StealLock, RemoveLock, Contended,
                Throw, Fail, Exit, Goto, AtStep, storeVars, LockSteps
        <2>3. OwnerInv(p)'
            BY <2>2, Unstaged DEF Staged, Promoting, Preparing, Prepared, LockSteps
        <2>4. QED BY <2>1, <2>3 DEF Grows, Primary
    <1>4. QED BY <1>1, <1>2, <1>3 DEF StepOf

LEMMA StepFilesInv ==
    ASSUME TypeOK, TypeOK', ControlInv, FilesInv, [Next]_vars, ~overtaken'
    PROVE  FilesInv' /\ Grows
    <1>1. CASE UNCHANGED <<files, acked, session, pc, latest, token>>
               /\ \A p \in Processes : HoldsGate(p)' <=> HoldsGate(p)
        <2>1. \A p \in Processes : ~Superseded(p)' => ~Superseded(p)
            BY <1>1 DEF Superseded, Phase
        <2>2. \A p \in Processes : OwnerInv(p) => OwnerInv(p)'
            BY <1>1 DEF OwnerInv, Base, New, Primary
        <2>3. InstalledInv'
            BY <1>1 DEF FilesInv, InstalledInv, New, Primary
        <2>4. QED BY <1>1, <2>1, <2>2, <2>3 DEF FilesInv, Grows, Primary
    <1>2. CASE (LeaseExpires \/ LockExpires) /\ UNCHANGED storeVars
        BY <1>1, <1>2 DEF LeaseExpires, LockExpires, storeVars, HoldsGate, TypeOK, LockTypeOK, Gates
    <1>3. CASE UNCHANGED vars
        BY <1>1, <1>3 DEF vars, lockVars, storeVars, HoldsGate
    <1>4. ASSUME NEW p \in Processes, StepOf(p) PROVE FilesInv' /\ Grows
        <2>1. Consistent(files', acked') /\ Grows /\ (~Superseded(p)' => OwnerInv(p)')
            BY <1>4, OwnFiles
        <2>2. \A q \in Processes : ~Superseded(q)' => OwnerInv(q)'
            BY <1>4, <2>1, OthersOwnerInv
        <2>3. Primary \in Seq(Payload) /\ Primary' \in Seq(Payload)
            BY SnapTypes DEF Primary, TypeOK, AllPaths, CandidateRoles
        <2>4. ASSUME NEW s \in Seq(Payload), IsPrefix(s, Primary) PROVE IsPrefix(s, Primary')
            <3>1. CASE Primary' = Primary
                BY <2>4, <3>1
            <3>2. CASE IsChild(Primary', Primary)
                BY <2>3, <2>4, <3>2, ChildIsLonger, PrefixTransitive
            <3>3. QED BY <2>1, <3>1, <3>2 DEF Grows
        <2>5. ASSUME NEW q \in Processes, pc'[q] \in Installed, session'[q].new # <<>>
              PROVE  IsPrefix(session'[q].new, Primary')
            <3>1. New(q) \in Seq(Payload)
                BY SessionTypes DEF TypeOK
            <3>2. session'[q].new = New(q) /\ (pc[q] \in Installed \/ New(q) = Primary)
                BY <1>4, <2>5, InstalledStep, OthersKeepPlace DEF SameMemory, New
            <3>3. IsPrefix(New(q), Primary)
                BY <2>3, <2>5, <3>2, PrefixReflexive DEF FilesInv, InstalledInv
            <3>4. QED BY <2>4, <3>1, <3>2, <3>3
        <2>6. InstalledInv'
            BY <2>5 DEF InstalledInv, New
        <2>7. QED BY <2>1, <2>2, <2>6 DEF FilesInv
    <1>5. QED BY <1>2, <1>3, <1>4, NextIsStepOf

-----------------------------------------------------------------------------
(***************************************************************************)
(* The inductive invariant and what follows from it.                       *)
(***************************************************************************)
LEMMA InitControlInv == Init => ControlInv
    BY SessionFields
    DEF Init, LockInit, ControlInv, Phase, LockSteps, RecoverySteps, SaveSteps

LEMMA InitFilesInv == Init => FilesInv
    <1> SUFFICES ASSUME Init PROVE FilesInv
        OBVIOUS
    <1>1. \A path \in AllPaths : files[path] = Missing
        BY DEF Init
    <1>2. Consistent(files, acked)
        <2>1. /\ files["primary"] = Missing /\ files["backup"] = Missing
              /\ files["temp"] = Missing /\ files["recoveryTemp"] = Missing
            BY <1>1 DEF AllPaths, CandidateRoles
        <2>2. IsPrefix(files["backup"].snap, files["primary"].snap)
            <3>1. <<>> \in Seq(Payload)
                OBVIOUS
            <3>2. IsPrefix(<<>>, <<>>)
                BY <3>1, PrefixReflexive
            <3>3. QED BY <2>1, <3>2 DEF Missing
        <2>3. QED BY <1>1, <2>1, <2>2 DEF Consistent, IsValid, Missing, Init
    <1>3. \A p \in Processes : pc[p] = "idle"
        BY DEF Init
    <1>4. InstalledInv /\ \A p \in Processes : OwnerInv(p)
        BY <1>3 DEF InstalledInv, Installed, OwnerInv, Promoting, Preparing, Prepared
    <1>5. QED BY <1>2, <1>4 DEF FilesInv

\* Once a process has been overtaken in the middle of a change, that stays on
\* record.
LEMMA OvertakenStays ==
    ASSUME TypeOK, ControlInv, [Next]_vars, ~overtaken'
    PROVE  ~overtaken
    BY OwnerOrUndisturbed, NextIsStepOf DEF vars, storeVars

LEMMA StepIInv ==
    ASSUME IInv, [Next]_vars
    PROVE  IInv'
    <1>1. TypeOK' /\ ControlInv'
        BY StepTypes, StepControlInv DEF IInv
    <1>2. ~overtaken' => FilesInv'
        BY <1>1, OvertakenStays, StepFilesInv DEF IInv
    <1>3. QED BY <1>1, <1>2 DEF IInv

\* The inductive invariant holds in every reachable state.
THEOREM Invariant == Spec => []IInv
    <1>1. Init => IInv
        BY InitTypes, InitControlInv, InitFilesInv DEF IInv
    <1>2. IInv /\ [Next]_vars => IInv'
        BY StepIInv
    <1>3. QED BY <1>1, <1>2, PTL DEF Spec

\* A save that was reported as committed is in the history of whatever any
\* reader selects, as long as no process was overtaken between an assertion of
\* its lease and lock and the change behind it.
THEOREM CommitsSurvive == Spec => []AckedSurvives
    <1>1. IInv => AckedSurvives
        BY ConsistentKeepsAcked DEF IInv, FilesInv, AckedSurvives, TypeOK
    <1>2. QED BY <1>1, Invariant, PTL

\* Until then no reader meets two worlds of one generation.
THEOREM GenerationsAgree == Spec => []NoGenerationConflict
    <1>1. IInv => NoGenerationConflict
        BY ConsistentHasNoConflict DEF IInv, FilesInv, NoGenerationConflict, TypeOK
    <1>2. QED BY <1>1, Invariant, PTL

LEMMA HeadIsPrimary ==
    ASSUME NEW fs \in [AllPaths -> Content], NEW acks, Consistent(fs, acks),
           ~IsValid(fs["primary"])
    PROVE  fs["backup"].snap = fs["primary"].snap
    <1>1. fs["backup"].snap \in Seq(Payload) /\ fs["primary"].snap = <<>>
          /\ IsPrefix(fs["backup"].snap, fs["primary"].snap)
        BY SnapTypes DEF IsValid, Consistent, AllPaths, CandidateRoles
    <1>2. QED BY <1>1, EmptySeq, LenProperties DEF IsPrefix

\* And until then every step leaves the committed head or replaces it by a child
\* of itself.
THEOREM HeadOnlyGrows == Spec => HeadMoves
    <1>1. ASSUME IInv, IInv', [Next]_vars, ~overtaken'
          PROVE  \/ CommittedHead' = CommittedHead
                 \/ CommittedHead' # <<>> /\ Front(CommittedHead') = CommittedHead
        <2>1. ~overtaken
            BY <1>1, OvertakenStays DEF IInv
        <2>2. Grows
            BY <1>1, <2>1, StepFilesInv DEF IInv
        <2>3. CommittedHead = Primary
            BY <1>1, <2>1, HeadIsPrimary DEF IInv, FilesInv, TypeOK, CommittedHead, Primary
        <2>4. CommittedHead' = Primary'
            BY <1>1, HeadIsPrimary DEF IInv, FilesInv, TypeOK, CommittedHead, Primary
        <2>5. QED BY <2>2, <2>3, <2>4 DEF Grows, IsChild
    <1>2. QED BY <1>1, Invariant, PTL DEF Spec, HeadMoves
=============================================================================
