------------------------- MODULE WriterLease_proofs -------------------------
(***************************************************************************)
(* Proofs about WriterLease, for any number of processes, tokens and ticks *)
(* of the clock: its type invariant, the uniqueness of tokens, and, as     *)
(* long as the run is orderly, exclusion, succession and that archived     *)
(* tokens stay out.                                                        *)
(*                                                                         *)
(* The argument: an election finds every lower token dead, and a dead      *)
(* token stays dead unless its process acts after its time has run out.    *)
(* So at most one token that ever won is alive, and it is the highest.     *)
(* The archival only takes tokens that are retired, and no deletion on the *)
(* way lets a retired token contend again.  A token that was once used     *)
(* stays used when its claim is deleted, because the archive then reaches  *)
(* it.                                                                     *)
(***************************************************************************)
EXTENDS WriterLease, TLAPS

\* A claim of the token was once created.
Used(t) == claims[t] # "absent" \/ t <= archive.through

\* The token was elected, and its process may still act on that.
Elected(t) == expiry[t] > 0 \/ \E w \in Writers : pc[w] = "activate" /\ token[w] = t

\* The token cannot become active without a step that is late.
Dead(t) ==
    \/ t <= archive.through
    \/ claims[t] = "empty" /\ ~BeingWritten(t)
    \/ t \in released
    \/ claims[t] = "written" /\ expiry[t] = 0 /\ deadline[t] <= clock
    \/ expiry[t] > 0 /\ expiry[t] <= clock

\* Nothing an archival deletes of the token lets it contend again.
Retired(t) ==
    \/ claims[t] = "absent"
    \/ t \in released
    \/ /\ expiry[t] <= clock
       /\ (expiry[t] = 0 /\ t > archive.through) \/ ProvisionalDuration <= LeaseDuration =>
            deadline[t] <= clock

LedgerInv ==
    /\ \A t \in Tokens : ~Used(t) \/ claims[t] = "empty" => expiry[t] = 0
    /\ \A t \in released : Used(t)
    /\ \A t, u \in Tokens : u < t /\ Used(t) => Used(u)
    /\ archive.highest # 0 => Used(archive.highest)
    /\ \A t \in Tokens : claims[t] = "empty" => t > archive.through
    /\ ProvisionalDuration <= LeaseDuration =>
         \A t \in Tokens : t > archive.through /\ expiry[t] > 0 => deadline[t] <= expiry[t]

Planning(w) == pc[w] \in {"openArchive", "writeArchive"}

\* What a process may rely on at each of its steps.
Sound(w) ==
    /\ time[w] <= clock
    /\ pc[w] = "create" =>
         /\ token[w] \in Tokens
         /\ \A u \in Tokens : u < token[w] => Used(u)
    /\ Claimed(w) =>
         /\ token[w] \in Tokens
         /\ token[w] \notin released
         /\ Used(token[w])
         /\ IF pc[w] = "write"
              THEN claims[token[w]] = "empty"
              ELSE token[w] > archive.through =>
                     /\ claims[token[w]] = "written"
                     /\ deadline[token[w]] <= time[w] + ProvisionalDuration
    /\ pc[w] \in {"elect", "activate"} =>
         expiry[token[w]] = 0 /\ (token[w] > archive.through => time[w] < deadline[token[w]])
    /\ pc[w] \in {"verify", "recover", "heartbeat"} =>
         (token[w] > archive.through => time[w] < expiry[token[w]])

ProcessInv == \A w \in Writers : Sound(w)

\* What an archival may rely on.
Archiving(w) ==
    /\ Planning(w) =>
         /\ plan[w].highest # 0 => Used(plan[w].highest)
         /\ \A t \in Tokens : t <= plan[w].through => Used(t) /\ claims[t] # "empty"
         /\ \A f \in doomed[w] : f[1] <= plan[w].through
    /\ pc[w] = "openArchive" => plan[w].from <= plan[w].through
    /\ pc[w] = "writeArchive" => torn /\ archive.through < plan[w].through
    /\ pc[w] = "delete" => \A f \in doomed[w] : f[1] <= archive.through
    /\ \A t \in Tokens : <<t, ReleaseFile>> \in doomed[w] =>
         <<t, Claim>> \in doomed[w] \/ claims[t] = "absent"
    /\ ~Planning(w) /\ pc[w] # "delete" => doomed[w] = {}

ArchivalInv ==
    /\ \A w \in Writers : Archiving(w)
    /\ \A v, w \in Writers : pc[v] = "writeArchive" /\ pc[w] = "writeArchive" => v = w

RetiredInv ==
    ~late =>
      /\ \A t \in Tokens : t <= archive.through => Retired(t)
      /\ \A w \in Writers : Planning(w) => \A t \in Tokens : t <= plan[w].through => Retired(t)

\* In an orderly run every token below an elected one is dead.
ElectionInv ==
    ~late /\ ~blind =>
        /\ \A t, u \in Tokens : t < u /\ Elected(u) => Dead(t)
        /\ owner # 0 => expiry[owner] > 0 \/ owner <= archive.through

Core == LedgerInv /\ ProcessInv /\ ArchivalInv /\ RetiredInv /\ ElectionInv

IInv == TypeOK /\ TokensUnique /\ (~reissued => Core)

-----------------------------------------------------------------------------
(***************************************************************************)
(* The steps.                                                              *)
(***************************************************************************)
StepOf(w) ==
    Acquire(w) \/ UseHandle(w) \/ ArchiveLedger(w) \/ ArchiveUnreadable(w) \/ Crash(w)

\* The steps that touch a file of the ledger or of the archive, or decide which
\* to touch.
Writing(w) ==
    \/ CreateClaim(w) \/ WriteClaim(w) \/ Activate(w) \/ Heartbeat(w)
    \/ Withdraw(w) \/ Release(w)
    \/ PlanArchive(w) \/ OpenArchive(w) \/ WriteArchive(w) \/ DeleteRecord(w)

\* The others leave the files alone and w without an archival.
Quiet(w) ==
    /\ UNCHANGED <<ledger, archive, torn>>
    /\ pc'[w] \notin {"openArchive", "writeArchive", "delete"}
    /\ doomed'[w] = {}

LEMMA StepStarts ==
    ASSUME NEW w \in Writers, StepOf(w)
    PROVE  ~reissued
    <1>. USE DEF At, Step
    <1>1. CASE BeginAcquire(w)
        BY <1>1 DEF BeginAcquire, Observe
    <1>2. CASE PreflightHeld(w)
        BY <1>2 DEF PreflightHeld
    <1>3. CASE PreflightFree(w)
        BY <1>3 DEF PreflightFree
    <1>4. CASE Allocate(w)
        BY <1>4 DEF Allocate
    <1>5. CASE CreateClaim(w)
        BY <1>5 DEF CreateClaim
    <1>6. CASE WriteClaim(w)
        BY <1>6 DEF WriteClaim
    <1>7. CASE Elect(w)
        BY <1>7 DEF Elect
    <1>8. CASE Activate(w)
        BY <1>8 DEF Activate
    <1>9. CASE VerifyActivation(w)
        BY <1>9 DEF VerifyActivation
    <1>10. CASE RecoverBase(w)
        BY <1>10 DEF RecoverBase
    <1>11. CASE RecoverFails(w)
        BY <1>11 DEF RecoverFails
    <1>12. CASE Withdraw(w)
        BY <1>12 DEF Withdraw
    <1>13. CASE BeginAssert(w)
        BY <1>13 DEF BeginAssert, Observe
    <1>14. CASE AssertLease(w)
        BY <1>14 DEF AssertLease, AssertThen
    <1>15. CASE BeginRenew(w)
        BY <1>15 DEF BeginRenew, Observe
    <1>16. CASE RenewAssert(w)
        BY <1>16 DEF RenewAssert, AssertThen
    <1>17. CASE Heartbeat(w)
        BY <1>17 DEF Heartbeat
    <1>18. CASE BeginRelease(w)
        BY <1>18 DEF BeginRelease, Observe
    <1>19. CASE InspectRelease(w)
        BY <1>19 DEF InspectRelease
    <1>20. CASE Release(w)
        BY <1>20 DEF Release
    <1>21. CASE BeginArchive(w)
        BY <1>21 DEF BeginArchive, Observe
    <1>22. CASE ArchiveAssert(w)
        BY <1>22 DEF ArchiveAssert, AssertThen
    <1>23. CASE NothingToArchive(w)
        BY <1>23 DEF NothingToArchive
    <1>24. CASE ArchiveRefuses(w)
        BY <1>24 DEF ArchiveRefuses
    <1>25. CASE PlanArchive(w)
        BY <1>25 DEF PlanArchive
    <1>26. CASE OpenArchive(w)
        BY <1>26 DEF OpenArchive
    <1>27. CASE WriteArchive(w)
        BY <1>27 DEF WriteArchive
    <1>28. CASE DeleteRecord(w)
        BY <1>28 DEF DeleteRecord
    <1>29. CASE EndArchive(w)
        BY <1>29 DEF EndArchive
    <1>30. CASE ArchiveUnreadable(w)
        BY <1>30 DEF ArchiveUnreadable
    <1>31. CASE Crash(w)
        BY <1>31 DEF Crash
    <1>. QED BY StepOf(w), <1>1, <1>2, <1>3, <1>4, <1>5, <1>6, <1>7, <1>8, <1>9,
        <1>10, <1>11, <1>12, <1>13, <1>14, <1>15, <1>16, <1>17, <1>18, <1>19, <1>20,
        <1>21, <1>22, <1>23, <1>24, <1>25, <1>26, <1>27, <1>28, <1>29, <1>30, <1>31
        DEF StepOf, Acquire, UseHandle, ArchiveLedger

LEMMA StepShape ==
    ASSUME TypeOK, ArchivalInv, NEW w \in Writers, StepOf(w)
    PROVE  Writing(w) \/ Quiet(w)
    <1>1. ~Planning(w) /\ pc[w] # "delete" => doomed[w] = {}
        BY DEF ArchivalInv, Archiving
    <1>2. CASE Writing(w)
        BY <1>2
    <1>3. CASE ~Writing(w)
        <2>. USE <1>1 DEF TypeOK, Planning, Quiet, Steps, AcquireSteps,
                          HandleSteps, ledger, archival, history, At, Step, Forget
        <2>1. CASE BeginAcquire(w)
            BY <2>1 DEF BeginAcquire, Observe
        <2>2. CASE PreflightHeld(w)
            BY <2>2 DEF PreflightHeld
        <2>3. CASE PreflightFree(w)
            BY <2>3 DEF PreflightFree
        <2>4. CASE Allocate(w)
            BY <2>4 DEF Allocate
        <2>5. CASE Elect(w)
            BY <2>5 DEF Elect
        <2>6. CASE VerifyActivation(w)
            BY <2>6 DEF VerifyActivation
        <2>7. CASE RecoverBase(w)
            BY <2>7 DEF RecoverBase
        <2>8. CASE RecoverFails(w)
            BY <2>8 DEF RecoverFails
        <2>9. CASE BeginAssert(w)
            BY <2>9 DEF BeginAssert, Observe
        <2>10. CASE AssertLease(w)
            BY <2>10 DEF AssertLease, AssertThen
        <2>11. CASE BeginRenew(w)
            BY <2>11 DEF BeginRenew, Observe
        <2>12. CASE RenewAssert(w)
            BY <2>12 DEF RenewAssert, AssertThen
        <2>13. CASE BeginRelease(w)
            BY <2>13 DEF BeginRelease, Observe
        <2>14. CASE InspectRelease(w)
            BY <2>14 DEF InspectRelease
        <2>15. CASE BeginArchive(w)
            BY <2>15 DEF BeginArchive, Observe
        <2>16. CASE ArchiveAssert(w)
            BY <2>16 DEF ArchiveAssert, AssertThen
        <2>17. CASE NothingToArchive(w)
            BY <2>17 DEF NothingToArchive
        <2>18. CASE ArchiveRefuses(w)
            BY <2>18 DEF ArchiveRefuses
        <2>19. CASE EndArchive(w)
            BY <2>19 DEF EndArchive
        <2>20. CASE ArchiveUnreadable(w)
            BY <2>20 DEF ArchiveUnreadable
        <2>21. CASE Crash(w)
            BY <2>21 DEF Crash
        <2>. QED BY StepOf(w), <1>3, <2>1, <2>2, <2>3, <2>4, <2>5, <2>6, <2>7, <2>8,
            <2>9, <2>10, <2>11, <2>12, <2>13, <2>14, <2>15, <2>16, <2>17, <2>18,
            <2>19, <2>20, <2>21 DEF StepOf, Acquire, UseHandle, ArchiveLedger, Writing
    <1>. QED BY <1>2, <1>3

-----------------------------------------------------------------------------
(***************************************************************************)
(* Type correctness.                                                       *)
(***************************************************************************)
LEMMA TypeInit == Init => TypeOK
    <1>. SUFFICES ASSUME Init PROVE TypeOK
        OBVIOUS
    <1>1. clock \in Nat /\ owner \in Tokens \cup {0} BY DEF Init
    <1>2. claims \in [Tokens -> {"absent", "empty", "written"}] BY DEF Init
    <1>3. deadline \in [Tokens -> Nat] /\ expiry \in [Tokens -> Nat] BY DEF Init
    <1>4. pc \in [Writers -> Steps] BY DEF Init, Steps
    <1>5. time \in [Writers -> Nat] BY DEF Init
    <1>6. token \in [Writers -> Tokens \cup {0}] BY DEF Init
    <1>7. released \subseteq Tokens /\ late \in BOOLEAN /\ blind \in BOOLEAN
        BY DEF Init
    <1>8. archive \in Archives /\ torn \in BOOLEAN /\ reissued \in BOOLEAN
        BY DEF Init, NoArchive, Archives
    <1>9. plan \in [Writers -> Archives] /\ doomed \in [Writers -> SUBSET Files]
        BY DEF Init, NoArchive, Archives
    <1>. QED BY <1>1, <1>2, <1>3, <1>4, <1>5, <1>6, <1>7, <1>8, <1>9 DEF TypeOK

LEMMA NoArchiveType == NoArchive \in Archives
    BY DEF NoArchive, Archives

LEMMA TypeStep ==
    ASSUME TypeOK, ProcessInv, NEW w \in Writers, StepOf(w)
    PROVE  TypeOK'
    <1>. USE LeaseAssumption, NoArchiveType DEF TypeOK, Steps, AcquireSteps,
            HandleSteps, ledger, archival, history, At, Step, Forget
    <1>0. Claimed(w) => token[w] \in Tokens
        BY DEF ProcessInv, Sound
    <1>t. Tokens \subseteq Nat
        BY DEF Tokens
    <1>1. CASE BeginAcquire(w)
        BY <1>1 DEF BeginAcquire, Observe
    <1>2. CASE PreflightHeld(w)
        BY <1>2 DEF PreflightHeld
    <1>3. CASE PreflightFree(w)
        BY <1>3 DEF PreflightFree
    <1>4. CASE Allocate(w)
        BY <1>4 DEF Allocate
    <1>5. CASE CreateClaim(w)
        <2>1. CASE claims[token[w]] = "absent"
            BY <1>5, <2>1 DEF CreateClaim
        <2>2. CASE claims[token[w]] # "absent"
            BY <1>5, <2>2 DEF CreateClaim
        <2>. QED BY <2>1, <2>2
    <1>6. CASE WriteClaim(w)
        <2>1. token[w] \in Tokens BY <1>0, <1>6 DEF WriteClaim, Claimed
        <2>2. time[w] + ProvisionalDuration \in Nat OBVIOUS
        <2>3. deadline' \in [Tokens -> Nat] BY <2>1, <2>2, <1>6 DEF WriteClaim
        <2>. QED BY <2>1, <2>3, <1>6 DEF WriteClaim
    <1>7. CASE Elect(w)
        BY <1>7 DEF Elect
    <1>8. CASE Activate(w)
        <2>1. token[w] \in Tokens BY <1>0, <1>8 DEF Activate, Claimed
        <2>2. time[w] + LeaseDuration \in Nat OBVIOUS
        <2>3. expiry' \in [Tokens -> Nat] BY <2>1, <2>2, <1>8 DEF Activate
        <2>. QED BY <2>1, <2>3, <1>8 DEF Activate
    <1>9. CASE VerifyActivation(w)
        BY <1>9 DEF VerifyActivation
    <1>10. CASE RecoverBase(w)
        BY <1>10 DEF RecoverBase
    <1>11. CASE RecoverFails(w)
        BY <1>11 DEF RecoverFails
    <1>12. CASE Withdraw(w)
        BY <1>0, <1>12 DEF Withdraw, Claimed
    <1>13. CASE BeginAssert(w)
        BY <1>13 DEF BeginAssert, Observe
    <1>14. CASE AssertLease(w)
        BY <1>14 DEF AssertLease, AssertThen
    <1>15. CASE BeginRenew(w)
        BY <1>15 DEF BeginRenew, Observe
    <1>16. CASE RenewAssert(w)
        BY <1>16 DEF RenewAssert, AssertThen
    <1>17. CASE Heartbeat(w)
        <2>1. token[w] \in Tokens BY <1>0, <1>17 DEF Heartbeat, Claimed
        <2>2. time[w] + LeaseDuration \in Nat OBVIOUS
        <2>3. expiry' \in [Tokens -> Nat] BY <2>1, <2>2, <1>17 DEF Heartbeat
        <2>. QED BY <2>1, <2>3, <1>17 DEF Heartbeat
    <1>18. CASE BeginRelease(w)
        BY <1>18 DEF BeginRelease, Observe
    <1>19. CASE InspectRelease(w)
        BY <1>19 DEF InspectRelease
    <1>20. CASE Release(w)
        BY <1>0, <1>20 DEF Release, Claimed
    <1>21. CASE BeginArchive(w)
        BY <1>21 DEF BeginArchive, Observe
    <1>22. CASE ArchiveAssert(w)
        BY <1>22 DEF ArchiveAssert, AssertThen
    <1>23. CASE NothingToArchive(w)
        BY <1>23 DEF NothingToArchive
    <1>24. CASE ArchiveRefuses(w)
        BY <1>24 DEF ArchiveRefuses
    <1>25. CASE PlanArchive(w)
        <2>1. plan' \in [Writers -> Archives] BY <1>25 DEF PlanArchive
        <2>2. UNION {FilesOf(t) : t \in Eligible(w)} \subseteq Files BY DEF FilesOf
        <2>3. doomed' \in [Writers -> SUBSET Files] BY <1>25, <2>2 DEF PlanArchive
        <2>. QED BY <1>25, <2>1, <2>3 DEF PlanArchive
    <1>26. CASE OpenArchive(w)
        BY <1>26 DEF OpenArchive
    <1>27. CASE WriteArchive(w)
        BY <1>27 DEF WriteArchive
    <1>28. CASE DeleteRecord(w)
        <2>1. PICK f \in doomed[w] :
                 /\ expiry' = IF f[2] = Activation THEN [expiry EXCEPT ![f[1]] = 0] ELSE expiry
                 /\ claims' = IF f[2] = Claim THEN [claims EXCEPT ![f[1]] = "absent"] ELSE claims
                 /\ deadline' = IF f[2] = Claim THEN [deadline EXCEPT ![f[1]] = 0] ELSE deadline
                 /\ released' = IF f[2] = ReleaseFile THEN released \ {f[1]} ELSE released
                 /\ doomed' = [doomed EXCEPT ![w] = @ \ {f}]
            BY <1>28 DEF DeleteRecord
        <2>2. claims' \in [Tokens -> {"absent", "empty", "written"}] BY <2>1
        <2>3. deadline' \in [Tokens -> Nat] /\ expiry' \in [Tokens -> Nat] BY <2>1
        <2>4. released' \subseteq Tokens /\ doomed' \in [Writers -> SUBSET Files] BY <2>1
        <2>. QED BY <1>28, <2>2, <2>3, <2>4 DEF DeleteRecord
    <1>29. CASE EndArchive(w)
        BY <1>29 DEF EndArchive
    <1>30. CASE ArchiveUnreadable(w)
        <2>1. pc' \in [Writers -> Steps] BY <1>30 DEF ArchiveUnreadable
        <2>2. UNCHANGED <<clock, ledger, history, archive, torn>> BY <1>30 DEF ArchiveUnreadable
        <2>3. plan' \in [Writers -> Archives] BY <1>30 DEF ArchiveUnreadable
        <2>4. doomed' \in [Writers -> SUBSET Files] BY <1>30 DEF ArchiveUnreadable
        <2>5. time' \in [Writers -> Nat]
            <3>1. time' = time \/ time' = [time EXCEPT ![w] = 0] BY <1>30 DEF ArchiveUnreadable
            <3>. QED BY <3>1
        <2>6. token' \in [Writers -> Tokens \cup {0}] BY <1>30 DEF ArchiveUnreadable
        <2>. QED BY <2>1, <2>2, <2>3, <2>4, <2>5, <2>6
    <1>31. CASE Crash(w)
        BY <1>31 DEF Crash
    <1>. QED BY StepOf(w), <1>1, <1>2, <1>3, <1>4, <1>5, <1>6, <1>7, <1>8, <1>9,
        <1>10, <1>11, <1>12, <1>13, <1>14, <1>15, <1>16, <1>17, <1>18, <1>19, <1>20,
        <1>21, <1>22, <1>23, <1>24, <1>25, <1>26, <1>27, <1>28, <1>29, <1>30, <1>31
        DEF StepOf, Acquire, UseHandle, ArchiveLedger

-----------------------------------------------------------------------------
(***************************************************************************)
(* What a step leaves alone.                                               *)
(***************************************************************************)
\* A deletion concerns an archived token, and its release record is the last.
LEMMA Deletion ==
    ASSUME TypeOK, ArchivalInv, NEW w \in Writers, DeleteRecord(w)
    PROVE  \E f \in doomed[w] :
              /\ f[1] \in Tokens /\ f[1] <= archive.through
              /\ f[2] = ReleaseFile => claims[f[1]] = "absent"
              /\ expiry' = IF f[2] = Activation THEN [expiry EXCEPT ![f[1]] = 0] ELSE expiry
              /\ claims' = IF f[2] = Claim THEN [claims EXCEPT ![f[1]] = "absent"] ELSE claims
              /\ deadline' = IF f[2] = Claim THEN [deadline EXCEPT ![f[1]] = 0] ELSE deadline
              /\ released' = IF f[2] = ReleaseFile THEN released \ {f[1]} ELSE released
              /\ doomed' = [doomed EXCEPT ![w] = @ \ {f}]
    <1>1. PICK f \in doomed[w] :
             /\ \A g \in doomed[w] : Before(f, g)
             /\ expiry' = IF f[2] = Activation THEN [expiry EXCEPT ![f[1]] = 0] ELSE expiry
             /\ claims' = IF f[2] = Claim THEN [claims EXCEPT ![f[1]] = "absent"] ELSE claims
             /\ deadline' = IF f[2] = Claim THEN [deadline EXCEPT ![f[1]] = 0] ELSE deadline
             /\ released' = IF f[2] = ReleaseFile THEN released \ {f[1]} ELSE released
             /\ doomed' = [doomed EXCEPT ![w] = @ \ {f}]
        BY DEF DeleteRecord
    <1>2. f \in Files
        BY DEF TypeOK
    <1>3. f[1] \in Tokens /\ f = <<f[1], f[2]>>
        BY <1>2 DEF Files
    <1>4. Archiving(w) /\ pc[w] = "delete"
        BY DEF ArchivalInv, DeleteRecord, At
    <1>5. f[1] <= archive.through
        BY <1>4 DEF Archiving
    <1>6. ASSUME f[2] = ReleaseFile
          PROVE  claims[f[1]] = "absent"
        <2>1. f[1] \in Nat
            BY <1>3 DEF Tokens
        <2>2. <<f[1], Claim>> \notin doomed[w]
            <3>. SUFFICES ASSUME <<f[1], Claim>> \in doomed[w] PROVE FALSE
                OBVIOUS
            <3>1. Before(f, <<f[1], Claim>>)
                BY <1>1
            <3>. QED BY <1>6, <2>1, <3>1 DEF Before, ReleaseFile, Claim
        <2>3. <<f[1], ReleaseFile>> \in doomed[w]
            BY <1>3, <1>6
        <2>. QED BY <1>3, <1>4, <2>2, <2>3 DEF Archiving
    <1>. QED BY <1>1, <1>3, <1>5, <1>6

\* The archive only reaches further, and no claim is ever forgotten.
LEMMA UsedStays ==
    ASSUME TypeOK, ArchivalInv, NEW w \in Writers, StepOf(w)
    PROVE  /\ archive.through \in Nat /\ archive'.through \in Nat
           /\ archive.through <= archive'.through
           /\ \A t \in Tokens : Used(t) => Used(t)'
    <1>0. archive.through \in Nat /\ \A v \in Writers : plan[v].through \in Nat
        BY DEF TypeOK, Archives, Tokens
    <1>q. CASE Quiet(w)
        BY <1>0, <1>q DEF Quiet, Used, ledger
    <1>n. CASE archive' = archive /\ \A t \in Tokens : claims[t] # "absent" => claims'[t] # "absent"
        BY <1>0, <1>n DEF Used
    <1>. USE DEF TypeOK, At, Step, Forget, ledger, archival
    <1>1. CASE CreateClaim(w)
        <2>1. claims' = claims \/ claims' = [claims EXCEPT ![token[w]] = "empty"]
            BY <1>1 DEF CreateClaim
        <2>. QED BY <1>1, <1>n, <2>1 DEF CreateClaim
    <1>2. CASE WriteClaim(w)
        BY <1>n, <1>2 DEF WriteClaim
    <1>3. CASE Activate(w)
        BY <1>n, <1>3 DEF Activate
    <1>4. CASE Heartbeat(w)
        BY <1>n, <1>4 DEF Heartbeat
    <1>5. CASE Withdraw(w)
        BY <1>n, <1>5 DEF Withdraw
    <1>6. CASE Release(w)
        BY <1>n, <1>6 DEF Release
    <1>7. CASE PlanArchive(w)
        BY <1>n, <1>7 DEF PlanArchive
    <1>8. CASE OpenArchive(w)
        BY <1>n, <1>8 DEF OpenArchive
    <1>9. CASE WriteArchive(w)
        <2>1. archive.through < plan[w].through /\ archive' = plan[w] /\ claims' = claims
            BY <1>9 DEF WriteArchive, ArchivalInv, Archiving
        <2>2. ASSUME NEW t \in Tokens, Used(t) PROVE Used(t)'
            BY <1>0, <2>1, <2>2 DEF Used, Tokens
        <2>. QED BY <1>0, <2>1, <2>2
    <1>10. CASE DeleteRecord(w)
        <2>1. PICK f \in doomed[w] :
                 /\ f[1] \in Tokens /\ f[1] <= archive.through
                 /\ claims' = IF f[2] = Claim THEN [claims EXCEPT ![f[1]] = "absent"] ELSE claims
            BY <1>10, Deletion
        <2>2. archive' = archive
            BY <1>10 DEF DeleteRecord
        <2>. QED BY <1>0, <2>1, <2>2 DEF Used
    <1>. QED BY StepShape, <1>q, <1>1, <1>2, <1>3, <1>4, <1>5, <1>6, <1>7, <1>8, <1>9,
        <1>10 DEF Writing

LEMMA OthersUntouched ==
    ASSUME TypeOK, TokensUnique, LedgerInv, ProcessInv, ArchivalInv,
           NEW w \in Writers, StepOf(w), NEW v \in Writers, v # w
    PROVE  /\ pc'[v] = pc[v] /\ token'[v] = token[v] /\ time'[v] = time[v]
           /\ plan'[v] = plan[v] /\ doomed'[v] = doomed[v]
           /\ clock <= clock'
           /\ Claimed(v) => /\ token[v] \notin released'
                            /\ expiry[token[v]] = 0 => expiry'[token[v]] = 0
           /\ Claimed(v) /\ token[v] > archive.through =>
                /\ claims'[token[v]] = claims[token[v]]
                /\ deadline'[token[v]] = deadline[token[v]]
                /\ expiry'[token[v]] = expiry[token[v]]
    <1>0. Sound(v) /\ Sound(w) /\ ~reissued
        BY StepStarts DEF ProcessInv
    <1>1. Claimed(v) /\ Claimed(w) => token[v] # token[w]
        BY <1>0 DEF TokensUnique
    <1>2. pc'[v] = pc[v] /\ token'[v] = token[v] /\ time'[v] = time[v] /\ clock <= clock'
        <2>. USE DEF TypeOK, Steps, AcquireSteps,
                     HandleSteps, ledger, archival, history, At, Step, Forget
        <2>1. CASE BeginAcquire(w)
            BY <2>1 DEF BeginAcquire, Observe
        <2>2. CASE PreflightHeld(w)
            BY <2>2 DEF PreflightHeld
        <2>3. CASE PreflightFree(w)
            BY <2>3 DEF PreflightFree
        <2>4. CASE Allocate(w)
            BY <2>4 DEF Allocate
        <2>5. CASE CreateClaim(w)
            BY <2>5 DEF CreateClaim
        <2>6. CASE WriteClaim(w)
            BY <2>6 DEF WriteClaim
        <2>7. CASE Elect(w)
            BY <2>7 DEF Elect
        <2>8. CASE Activate(w)
            BY <2>8 DEF Activate
        <2>9. CASE VerifyActivation(w)
            BY <2>9 DEF VerifyActivation
        <2>10. CASE RecoverBase(w)
            BY <2>10 DEF RecoverBase
        <2>11. CASE RecoverFails(w)
            BY <2>11 DEF RecoverFails
        <2>12. CASE Withdraw(w)
            BY <2>12 DEF Withdraw
        <2>13. CASE BeginAssert(w)
            BY <2>13 DEF BeginAssert, Observe
        <2>14. CASE AssertLease(w)
            BY <2>14 DEF AssertLease, AssertThen
        <2>15. CASE BeginRenew(w)
            BY <2>15 DEF BeginRenew, Observe
        <2>16. CASE RenewAssert(w)
            BY <2>16 DEF RenewAssert, AssertThen
        <2>17. CASE Heartbeat(w)
            BY <2>17 DEF Heartbeat
        <2>18. CASE BeginRelease(w)
            BY <2>18 DEF BeginRelease, Observe
        <2>19. CASE InspectRelease(w)
            BY <2>19 DEF InspectRelease
        <2>20. CASE Release(w)
            BY <2>20 DEF Release
        <2>21. CASE BeginArchive(w)
            BY <2>21 DEF BeginArchive, Observe
        <2>22. CASE ArchiveAssert(w)
            BY <2>22 DEF ArchiveAssert, AssertThen
        <2>23. CASE NothingToArchive(w)
            BY <2>23 DEF NothingToArchive
        <2>24. CASE ArchiveRefuses(w)
            BY <2>24 DEF ArchiveRefuses
        <2>25. CASE PlanArchive(w)
            BY <2>25 DEF PlanArchive
        <2>26. CASE OpenArchive(w)
            BY <2>26 DEF OpenArchive
        <2>27. CASE WriteArchive(w)
            BY <2>27 DEF WriteArchive
        <2>28. CASE DeleteRecord(w)
            BY <2>28 DEF DeleteRecord
        <2>29. CASE EndArchive(w)
            BY <2>29 DEF EndArchive
        <2>30. CASE ArchiveUnreadable(w)
            <3>1. CASE Forget(w)
                BY <2>30, <3>1 DEF ArchiveUnreadable
            <3>2. CASE ~Forget(w)
                <4>1. pc' = [pc EXCEPT ![w] = "ready"] /\ UNCHANGED <<clock, time, token>>
                    BY <2>30, <3>2 DEF ArchiveUnreadable
                <4>. QED BY <4>1
            <3>. QED BY <3>1, <3>2
        <2>31. CASE Crash(w)
            BY <2>31 DEF Crash
        <2>. QED BY StepOf(w), <2>1, <2>2, <2>3, <2>4, <2>5, <2>6, <2>7, <2>8, <2>9,
            <2>10, <2>11, <2>12, <2>13, <2>14, <2>15, <2>16, <2>17, <2>18, <2>19,
            <2>20, <2>21, <2>22, <2>23, <2>24, <2>25, <2>26, <2>27, <2>28, <2>29,
            <2>30, <2>31 DEF StepOf, Acquire, UseHandle, ArchiveLedger
    <1>3. plan'[v] = plan[v] /\ doomed'[v] = doomed[v]
        <2>. USE DEF TypeOK, Steps, AcquireSteps,
                     HandleSteps, ledger, archival, history, At, Step, Forget
        <2>1. CASE BeginAcquire(w)
            BY <2>1 DEF BeginAcquire, Observe
        <2>2. CASE PreflightHeld(w)
            BY <2>2 DEF PreflightHeld
        <2>3. CASE PreflightFree(w)
            BY <2>3 DEF PreflightFree
        <2>4. CASE Allocate(w)
            BY <2>4 DEF Allocate
        <2>5. CASE CreateClaim(w)
            BY <2>5 DEF CreateClaim
        <2>6. CASE WriteClaim(w)
            BY <2>6 DEF WriteClaim
        <2>7. CASE Elect(w)
            BY <2>7 DEF Elect
        <2>8. CASE Activate(w)
            BY <2>8 DEF Activate
        <2>9. CASE VerifyActivation(w)
            BY <2>9 DEF VerifyActivation
        <2>10. CASE RecoverBase(w)
            BY <2>10 DEF RecoverBase
        <2>11. CASE RecoverFails(w)
            BY <2>11 DEF RecoverFails
        <2>12. CASE Withdraw(w)
            BY <2>12 DEF Withdraw
        <2>13. CASE BeginAssert(w)
            BY <2>13 DEF BeginAssert, Observe
        <2>14. CASE AssertLease(w)
            BY <2>14 DEF AssertLease, AssertThen
        <2>15. CASE BeginRenew(w)
            BY <2>15 DEF BeginRenew, Observe
        <2>16. CASE RenewAssert(w)
            BY <2>16 DEF RenewAssert, AssertThen
        <2>17. CASE Heartbeat(w)
            BY <2>17 DEF Heartbeat
        <2>18. CASE BeginRelease(w)
            BY <2>18 DEF BeginRelease, Observe
        <2>19. CASE InspectRelease(w)
            BY <2>19 DEF InspectRelease
        <2>20. CASE Release(w)
            BY <2>20 DEF Release
        <2>21. CASE BeginArchive(w)
            BY <2>21 DEF BeginArchive, Observe
        <2>22. CASE ArchiveAssert(w)
            BY <2>22 DEF ArchiveAssert, AssertThen
        <2>23. CASE NothingToArchive(w)
            BY <2>23 DEF NothingToArchive
        <2>24. CASE ArchiveRefuses(w)
            BY <2>24 DEF ArchiveRefuses
        <2>25. CASE PlanArchive(w)
            BY <2>25 DEF PlanArchive
        <2>26. CASE OpenArchive(w)
            BY <2>26 DEF OpenArchive
        <2>27. CASE WriteArchive(w)
            BY <2>27 DEF WriteArchive
        <2>28. CASE DeleteRecord(w)
            BY <2>28 DEF DeleteRecord
        <2>29. CASE EndArchive(w)
            BY <2>29 DEF EndArchive
        <2>30. CASE ArchiveUnreadable(w)
            BY <2>30 DEF ArchiveUnreadable
        <2>31. CASE Crash(w)
            BY <2>31 DEF Crash
        <2>. QED BY StepOf(w), <2>1, <2>2, <2>3, <2>4, <2>5, <2>6, <2>7, <2>8, <2>9,
            <2>10, <2>11, <2>12, <2>13, <2>14, <2>15, <2>16, <2>17, <2>18, <2>19,
            <2>20, <2>21, <2>22, <2>23, <2>24, <2>25, <2>26, <2>27, <2>28, <2>29,
            <2>30, <2>31 DEF StepOf, Acquire, UseHandle, ArchiveLedger
    <1>4. ASSUME Claimed(v)
          PROVE  /\ token[v] \notin released'
                 /\ expiry[token[v]] = 0 => expiry'[token[v]] = 0
                 /\ token[v] > archive.through =>
                      /\ claims'[token[v]] = claims[token[v]]
                      /\ deadline'[token[v]] = deadline[token[v]]
                      /\ expiry'[token[v]] = expiry[token[v]]
        <2>a. token[v] \in Tokens /\ token[v] \notin released /\ Used(token[v])
              /\ archive.through \in Nat /\ token[v] \in Nat
            BY <1>0, <1>4, UsedStays DEF Sound, Tokens
        <2>b. Claimed(w) => token[w] \in Tokens /\ token[v] # token[w]
            BY <1>0, <1>1, <1>4 DEF Sound
        <2>q. CASE Quiet(w)
            BY <2>a, <2>q DEF Quiet, ledger
        <2>. USE DEF TypeOK, Claimed, Steps, AcquireSteps,
                     HandleSteps, ledger, archival, history, At, Step, Forget
        <2>1. CASE CreateClaim(w)
            <3>1. \/ claims' = claims
                  \/ claims' = [claims EXCEPT ![token[w]] = "empty"] /\ claims[token[w]] = "absent"
                BY <2>1 DEF CreateClaim
            <3>2. token[v] > archive.through => claims'[token[v]] = claims[token[v]]
                BY <2>a, <3>1 DEF Used
            <3>. QED BY <2>1, <2>a, <3>2 DEF CreateClaim
        <2>2. CASE WriteClaim(w)
            BY <2>a, <2>b, <2>2 DEF WriteClaim
        <2>3. CASE Activate(w)
            BY <2>a, <2>b, <2>3 DEF Activate
        <2>4. CASE Heartbeat(w)
            BY <2>a, <2>b, <2>4 DEF Heartbeat
        <2>5. CASE Withdraw(w)
            BY <2>a, <2>b, <2>5 DEF Withdraw
        <2>6. CASE Release(w)
            BY <2>a, <2>b, <2>6 DEF Release
        <2>7. CASE PlanArchive(w)
            BY <2>a, <2>b, <2>7 DEF PlanArchive
        <2>8. CASE OpenArchive(w)
            BY <2>a, <2>b, <2>8 DEF OpenArchive
        <2>9. CASE WriteArchive(w)
            BY <2>a, <2>b, <2>9 DEF WriteArchive
        <2>10. CASE DeleteRecord(w)
            <3>1. PICK f \in doomed[w] :
                     /\ f[1] \in Tokens /\ f[1] <= archive.through
                     /\ expiry' = IF f[2] = Activation THEN [expiry EXCEPT ![f[1]] = 0] ELSE expiry
                     /\ claims' = IF f[2] = Claim THEN [claims EXCEPT ![f[1]] = "absent"] ELSE claims
                     /\ deadline' = IF f[2] = Claim THEN [deadline EXCEPT ![f[1]] = 0] ELSE deadline
                     /\ released' = IF f[2] = ReleaseFile THEN released \ {f[1]} ELSE released
                BY <2>10, Deletion
            <3>2. token[v] > archive.through => f[1] # token[v]
                BY <2>a, <3>1 DEF Tokens
            <3>. QED BY <2>a, <3>1, <3>2
        <2>. QED BY StepShape, <2>q, <2>1, <2>2, <2>3, <2>4, <2>5, <2>6, <2>7, <2>8,
            <2>9, <2>10 DEF Writing
    <1>. QED BY <1>2, <1>3, <1>4

-----------------------------------------------------------------------------
(***************************************************************************)
(* What each process relies on.                                            *)
(***************************************************************************)
LEMMA ActorSound ==
    ASSUME TypeOK, LedgerInv, ProcessInv, ArchivalInv, NEW w \in Writers, StepOf(w), ~reissued'
    PROVE  Sound(w)'
    <1>a. /\ Sound(w)
          /\ Tokens \subseteq Nat
          /\ \A t \in Tokens : claims[t] = "empty" => t > archive.through
        BY DEF ProcessInv, LedgerInv, Tokens
    <1>b. /\ archive.through \in Nat /\ archive'.through \in Nat
          /\ archive.through <= archive'.through
          /\ \A t \in Tokens : Used(t) => Used(t)'
        BY UsedStays
    <1>c. ASSUME pc[w] = "create", claims[token[w]] = "absent", ~(token[w] <= archive.through)
          PROVE  token[w] \in Tokens /\ token[w] > archive.through /\ token[w] \notin released
        <2>1. token[w] \in Tokens /\ token[w] \in Nat
            BY <1>a, <1>c DEF Sound
        <2>2. ~Used(token[w])
            BY <1>c DEF Used
        <2>. QED BY <1>b, <1>c, <2>1, <2>2 DEF LedgerInv
    <1>d. ASSUME pc[w] = "write"
          PROVE  expiry[token[w]] = 0 /\ time[w] < time[w] + ProvisionalDuration
        <2>1. token[w] \in Tokens /\ claims[token[w]] = "empty"
            BY <1>a, <1>d DEF Sound, Claimed, Steps, AcquireSteps
        <2>2. time[w] \in Nat
            BY DEF TypeOK
        <2>. QED BY <2>1, <2>2, LeaseAssumption DEF LedgerInv
    <1>e. Claimed(w) /\ token[w] > archive'.through => token[w] > archive.through
        <2>1. Claimed(w) => token[w] \in Nat
            BY <1>a DEF Sound
        <2>. QED BY <1>b, <2>1
    <1>. USE <1>a, <1>b, LeaseAssumption
         DEF TypeOK, Sound, Claimed, Steps, AcquireSteps,
             HandleSteps, ledger, archival, history, At, Step, Forget
    <1>1. CASE BeginAcquire(w)
        BY <1>1 DEF BeginAcquire, Observe, Used
    <1>2. CASE PreflightHeld(w)
        BY <1>2 DEF PreflightHeld, Used
    <1>3. CASE PreflightFree(w)
        BY <1>3 DEF PreflightFree, Used
    <1>4. CASE Allocate(w)
        <2>1. PICK t \in Tokens : Highest(t - 1) /\ token' = [token EXCEPT ![w] = t]
            BY <1>4 DEF Allocate
        <2>2. \A u \in Tokens : u < t => Used(u)
            <3>. SUFFICES ASSUME NEW u \in Tokens, u < t PROVE Used(u)
                OBVIOUS
            <3>1. t \in Nat /\ u \in Nat /\ u > 0 BY DEF Tokens
            <3>2. Used(t - 1) /\ t - 1 \in Tokens
                <4>1. t - 1 \in Named \/ t - 1 = archive.highest
                    BY <2>1 DEF Highest
                <4>2. t - 1 # 0 BY <3>1
                <4>3. archive.highest \in Tokens \cup {0} BY DEF Archives
                <4>. QED BY <4>1, <4>2, <4>3 DEF Named, Used, LedgerInv
            <3>3. u = t - 1 \/ u < t - 1 BY <3>1
            <3>. QED BY <3>2, <3>3 DEF LedgerInv
        <2>. QED BY <1>4, <2>1, <2>2 DEF Allocate, Used
    <1>5. CASE CreateClaim(w)
        <2>1. CASE claims[token[w]] = "absent"
            <3>1. token[w] \in Tokens /\ token[w] > archive.through /\ token[w] \notin released
                BY <1>5, <2>1, <1>c DEF CreateClaim
            <3>. QED BY <1>5, <2>1, <3>1 DEF CreateClaim, Used
        <2>2. CASE claims[token[w]] # "absent"
            BY <1>5, <2>2 DEF CreateClaim
        <2>. QED BY <2>1, <2>2
    <1>6. CASE WriteClaim(w)
        <2>0. pc[w] = "write" /\ token[w] \in Tokens /\ claims[token[w]] = "empty"
            BY <1>6 DEF WriteClaim
        <2>1. expiry[token[w]] = 0 /\ time[w] < time[w] + ProvisionalDuration
            BY <2>0, <1>d
        <2>. QED BY <1>6, <2>0, <2>1 DEF WriteClaim, Used
    <1>7. CASE Elect(w)
        BY <1>7 DEF Elect, Used, IsElected, Contends, Active, Provisional, Candidate
    <1>8. CASE Activate(w)
        BY <1>8 DEF Activate, Used
    <1>9. CASE VerifyActivation(w)
        BY <1>9 DEF VerifyActivation, Used, IsCurrent, Active
    <1>10. CASE RecoverBase(w)
        BY <1>10 DEF RecoverBase, Used
    <1>11. CASE RecoverFails(w)
        BY <1>11 DEF RecoverFails, Used
    <1>12. CASE Withdraw(w)
        BY <1>12 DEF Withdraw, Used
    <1>13. CASE BeginAssert(w)
        <2>1. PICK T \in (clock + 1)..MaxTime : clock' = T /\ time' = [time EXCEPT ![w] = T]
            BY <1>13 DEF BeginAssert, Observe
        <2>2. T \in Nat /\ time[w] + ProvisionalDuration <= T + ProvisionalDuration
            BY <2>1
        <2>3. /\ pc[w] = "ready" /\ pc'[w] \in {"assert", "renew", "inspect", "archive"}
              /\ UNCHANGED <<ledger, archival, token>>
            BY <1>13 DEF BeginAssert, Observe
        <2>4. Claimed(w) BY <2>3
        <2>5. deadline[token[w]] \in Nat /\ time'[w] = T BY <2>1, <2>4
        <2>. QED BY <2>1, <2>2, <2>3, <2>4, <2>5 DEF Used
    <1>14. CASE AssertLease(w)
        BY <1>14 DEF AssertLease, AssertThen, Owns, IsCurrent, Active, Used
    <1>15. CASE BeginRenew(w)
        <2>1. PICK T \in (clock + 1)..MaxTime : clock' = T /\ time' = [time EXCEPT ![w] = T]
            BY <1>15 DEF BeginRenew, Observe
        <2>2. T \in Nat /\ time[w] + ProvisionalDuration <= T + ProvisionalDuration
            BY <2>1
        <2>3. /\ pc[w] = "ready" /\ pc'[w] \in {"assert", "renew", "inspect", "archive"}
              /\ UNCHANGED <<ledger, archival, token>>
            BY <1>15 DEF BeginRenew, Observe
        <2>4. Claimed(w) BY <2>3
        <2>5. deadline[token[w]] \in Nat /\ time'[w] = T BY <2>1, <2>4
        <2>. QED BY <2>1, <2>2, <2>3, <2>4, <2>5 DEF Used
    <1>16. CASE RenewAssert(w)
        BY <1>16 DEF RenewAssert, AssertThen, Owns, IsCurrent, Active, Used
    <1>17. CASE Heartbeat(w)
        BY <1>17 DEF Heartbeat, Used
    <1>18. CASE BeginRelease(w)
        <2>1. PICK T \in (clock + 1)..MaxTime : clock' = T /\ time' = [time EXCEPT ![w] = T]
            BY <1>18 DEF BeginRelease, Observe
        <2>2. T \in Nat /\ time[w] + ProvisionalDuration <= T + ProvisionalDuration
            BY <2>1
        <2>3. /\ pc[w] = "ready" /\ pc'[w] \in {"assert", "renew", "inspect", "archive"}
              /\ UNCHANGED <<ledger, archival, token>>
            BY <1>18 DEF BeginRelease, Observe
        <2>4. Claimed(w) BY <2>3
        <2>5. deadline[token[w]] \in Nat /\ time'[w] = T BY <2>1, <2>4
        <2>. QED BY <2>1, <2>2, <2>3, <2>4, <2>5 DEF Used
    <1>19. CASE InspectRelease(w)
        BY <1>19 DEF InspectRelease, Used
    <1>20. CASE Release(w)
        BY <1>20 DEF Release, Used
    <1>21. CASE BeginArchive(w)
        <2>1. PICK T \in (clock + 1)..MaxTime : clock' = T /\ time' = [time EXCEPT ![w] = T]
            BY <1>21 DEF BeginArchive, Observe
        <2>2. T \in Nat /\ time[w] + ProvisionalDuration <= T + ProvisionalDuration
            BY <2>1
        <2>3. /\ pc[w] = "ready" /\ pc'[w] \in {"assert", "renew", "inspect", "archive"}
              /\ UNCHANGED <<ledger, archival, token>>
            BY <1>21 DEF BeginArchive, Observe
        <2>4. Claimed(w) BY <2>3
        <2>5. deadline[token[w]] \in Nat /\ time'[w] = T BY <2>1, <2>4
        <2>. QED BY <2>1, <2>2, <2>3, <2>4, <2>5 DEF Used
    <1>22. CASE ArchiveAssert(w)
        BY <1>22 DEF ArchiveAssert, AssertThen, Owns, IsCurrent, Active, Used
    <1>23. CASE NothingToArchive(w)
        BY <1>23 DEF NothingToArchive, Used
    <1>24. CASE ArchiveRefuses(w)
        BY <1>24 DEF ArchiveRefuses, Used
    <1>25. CASE PlanArchive(w)
        BY <1>25 DEF PlanArchive, Used
    <1>26. CASE OpenArchive(w)
        BY <1>26 DEF OpenArchive, Used
    <1>27. CASE WriteArchive(w)
        <2>1. /\ pc[w] = "writeArchive" /\ pc'[w] = "delete"
              /\ UNCHANGED <<clock, ledger, time, token>>
            BY <1>27 DEF WriteArchive
        <2>2. Claimed(w) /\ token[w] \in Tokens /\ Used(token[w])' BY <2>1
        <2>3. token[w] > archive'.through => token[w] > archive.through BY <1>e, <2>2
        <2>. QED BY <2>1, <2>2, <2>3
    <1>28. CASE DeleteRecord(w)
        <2>1. PICK f \in doomed[w] :
                 /\ f[1] \in Tokens /\ f[1] <= archive.through
                 /\ expiry' = IF f[2] = Activation THEN [expiry EXCEPT ![f[1]] = 0] ELSE expiry
                 /\ claims' = IF f[2] = Claim THEN [claims EXCEPT ![f[1]] = "absent"] ELSE claims
                 /\ deadline' = IF f[2] = Claim THEN [deadline EXCEPT ![f[1]] = 0] ELSE deadline
                 /\ released' = IF f[2] = ReleaseFile THEN released \ {f[1]} ELSE released
            BY <1>28, Deletion
        <2>2. pc[w] = "delete" /\ UNCHANGED <<clock, archive, pc, time, token>>
            BY <1>28 DEF DeleteRecord
        <2>3. token[w] \in Tokens /\ token[w] \notin released' /\ Used(token[w])'
            BY <2>1, <2>2
        <2>4. token[w] > archive.through => token[w] # f[1]
            <3>1. token[w] \in Nat BY <2>3
            <3>. QED BY <2>1, <3>1
        <2>. QED BY <2>1, <2>2, <2>3, <2>4
    <1>29. CASE EndArchive(w)
        BY <1>29 DEF EndArchive, Used
    <1>30. CASE ArchiveUnreadable(w)
        <2>1. CASE Forget(w)
            BY <1>30, <2>1 DEF ArchiveUnreadable
        <2>2. CASE ~Forget(w)
            BY <1>30, <2>2 DEF ArchiveUnreadable, Used
        <2>. QED BY <2>1, <2>2
    <1>31. CASE Crash(w)
        BY <1>31 DEF Crash, Used
    <1>. QED BY StepOf(w), <1>1, <1>2, <1>3, <1>4, <1>5, <1>6, <1>7, <1>8, <1>9,
        <1>10, <1>11, <1>12, <1>13, <1>14, <1>15, <1>16, <1>17, <1>18, <1>19, <1>20,
        <1>21, <1>22, <1>23, <1>24, <1>25, <1>26, <1>27, <1>28, <1>29, <1>30, <1>31
        DEF StepOf, Acquire, UseHandle, ArchiveLedger

-----------------------------------------------------------------------------
(***************************************************************************)
(* Tokens and records.                                                     *)
(***************************************************************************)
\* A process comes by a claim only by creating the file of an unused token.
LEMMA ActorClaims ==
    ASSUME TypeOK, ProcessInv, ArchivalInv, NEW w \in Writers, StepOf(w), ~reissued', Claimed(w)'
    PROVE  \/ Claimed(w) /\ token'[w] = token[w]
           \/ token'[w] \in Tokens /\ ~Used(token'[w])
    <1>a. pc[w] = "create" => token[w] \in Tokens
        BY DEF ProcessInv, Sound
    <1>. USE <1>a DEF TypeOK, Claimed, Steps, AcquireSteps,
                      HandleSteps, ledger, archival, history, At, Step, Forget
    <1>1. CASE BeginAcquire(w)
        BY <1>1 DEF BeginAcquire, Observe
    <1>2. CASE PreflightHeld(w)
        BY <1>2 DEF PreflightHeld
    <1>3. CASE PreflightFree(w)
        BY <1>3 DEF PreflightFree
    <1>4. CASE Allocate(w)
        BY <1>4 DEF Allocate
    <1>5. CASE CreateClaim(w)
        BY <1>5 DEF CreateClaim, Used
    <1>6. CASE WriteClaim(w)
        BY <1>6 DEF WriteClaim
    <1>7. CASE Elect(w)
        BY <1>7 DEF Elect
    <1>8. CASE Activate(w)
        BY <1>8 DEF Activate
    <1>9. CASE VerifyActivation(w)
        BY <1>9 DEF VerifyActivation
    <1>10. CASE RecoverBase(w)
        BY <1>10 DEF RecoverBase
    <1>11. CASE RecoverFails(w)
        BY <1>11 DEF RecoverFails
    <1>12. CASE Withdraw(w)
        BY <1>12 DEF Withdraw
    <1>13. CASE BeginAssert(w)
        BY <1>13 DEF BeginAssert, Observe
    <1>14. CASE AssertLease(w)
        BY <1>14 DEF AssertLease, AssertThen
    <1>15. CASE BeginRenew(w)
        BY <1>15 DEF BeginRenew, Observe
    <1>16. CASE RenewAssert(w)
        BY <1>16 DEF RenewAssert, AssertThen
    <1>17. CASE Heartbeat(w)
        BY <1>17 DEF Heartbeat
    <1>18. CASE BeginRelease(w)
        BY <1>18 DEF BeginRelease, Observe
    <1>19. CASE InspectRelease(w)
        BY <1>19 DEF InspectRelease
    <1>20. CASE Release(w)
        BY <1>20 DEF Release
    <1>21. CASE BeginArchive(w)
        BY <1>21 DEF BeginArchive, Observe
    <1>22. CASE ArchiveAssert(w)
        BY <1>22 DEF ArchiveAssert, AssertThen
    <1>23. CASE NothingToArchive(w)
        BY <1>23 DEF NothingToArchive
    <1>24. CASE ArchiveRefuses(w)
        BY <1>24 DEF ArchiveRefuses
    <1>25. CASE PlanArchive(w)
        BY <1>25 DEF PlanArchive
    <1>26. CASE OpenArchive(w)
        BY <1>26 DEF OpenArchive
    <1>27. CASE WriteArchive(w)
        BY <1>27 DEF WriteArchive
    <1>28. CASE DeleteRecord(w)
        BY <1>28 DEF DeleteRecord
    <1>29. CASE EndArchive(w)
        BY <1>29 DEF EndArchive
    <1>30. CASE ArchiveUnreadable(w)
        BY <1>30 DEF ArchiveUnreadable
    <1>31. CASE Crash(w)
        BY <1>31 DEF Crash
    <1>. QED BY StepOf(w), <1>1, <1>2, <1>3, <1>4, <1>5, <1>6, <1>7, <1>8, <1>9,
        <1>10, <1>11, <1>12, <1>13, <1>14, <1>15, <1>16, <1>17, <1>18, <1>19, <1>20,
        <1>21, <1>22, <1>23, <1>24, <1>25, <1>26, <1>27, <1>28, <1>29, <1>30, <1>31
        DEF StepOf, Acquire, UseHandle, ArchiveLedger

LEMMA UniqueStep ==
    ASSUME TypeOK, TokensUnique, LedgerInv, ProcessInv, ArchivalInv, NEW w \in Writers, StepOf(w)
    PROVE  TokensUnique'
    <1>. SUFFICES ASSUME ~reissued'
                  PROVE  \A v, x \in Writers :
                            Claimed(v)' /\ Claimed(x)' /\ token'[v] = token'[x] => v = x
        BY DEF TokensUnique
    <1>1. \A v \in Writers : v # w => token'[v] = token[v] /\ (Claimed(v)' <=> Claimed(v))
        BY OthersUntouched DEF Claimed
    <1>2. \A v \in Writers : Claimed(v) => Used(token[v])
        BY DEF ProcessInv, Sound
    <1>3. \A v \in Writers : v # w /\ Claimed(v)' /\ Claimed(w)' => token'[v] # token'[w]
        BY StepStarts, <1>1, <1>2, ActorClaims DEF TokensUnique
    <1>. QED BY StepStarts, <1>1, <1>3 DEF TokensUnique

LEMMA ProcessStep ==
    ASSUME TypeOK, TypeOK', TokensUnique, LedgerInv, ProcessInv, ArchivalInv,
           NEW w \in Writers, StepOf(w), ~reissued'
    PROVE  ProcessInv'
    <1>. SUFFICES ASSUME NEW v \in Writers PROVE Sound(v)'
        BY DEF ProcessInv
    <1>1. CASE v = w
        BY <1>1, ActorSound
    <1>2. CASE v # w
        <2>1. Sound(v) BY DEF ProcessInv
        <2>2. /\ pc'[v] = pc[v] /\ token'[v] = token[v] /\ time'[v] = time[v]
              /\ clock <= clock'
              /\ Claimed(v)' <=> Claimed(v)
            BY <1>2, OthersUntouched DEF Claimed
        <2>3. /\ archive.through \in Nat /\ archive'.through \in Nat
              /\ archive.through <= archive'.through
              /\ \A t \in Tokens : Used(t) => Used(t)'
            BY UsedStays
        <2>4. time'[v] <= clock'
            BY <2>1, <2>2 DEF Sound, TypeOK
        <2>5. pc[v] = "create" => \A u \in Tokens : u < token[v] => Used(u)'
            BY <2>1, <2>3 DEF Sound
        <2>6. pc[v] \in {"write", "elect", "activate", "verify", "recover", "heartbeat"} => Claimed(v)
            BY DEF Claimed, Steps, AcquireSteps, HandleSteps
        <2>7. ASSUME Claimed(v)
              PROVE  /\ token[v] \in Tokens /\ token[v] \notin released'
                     /\ Used(token[v])'
                     /\ token[v] > archive'.through => token[v] > archive.through
                     /\ expiry[token[v]] = 0 => expiry'[token[v]] = 0
                     /\ pc[v] = "write" => token[v] > archive.through
                     /\ token[v] > archive.through =>
                          /\ claims'[token[v]] = claims[token[v]]
                          /\ deadline'[token[v]] = deadline[token[v]]
                          /\ expiry'[token[v]] = expiry[token[v]]
            <3>1. token[v] \in Tokens /\ Used(token[v]) /\ token[v] \in Nat
                BY <2>1, <2>7 DEF Sound, Tokens
            <3>2. pc[v] = "write" => token[v] > archive.through
                BY <2>1, <2>7, <3>1 DEF Sound, LedgerInv
            <3>. QED BY <1>2, <2>3, <2>7, <3>1, <3>2, OthersUntouched
        <2>. QED BY <2>1, <2>2, <2>4, <2>5, <2>6, <2>7 DEF Sound
    <1>. QED BY <1>1, <1>2

-----------------------------------------------------------------------------
(***************************************************************************)
(* What a step does to the files of one token.                             *)
(***************************************************************************)
Kept(t) ==
    /\ claims'[t] = claims[t]
    /\ deadline'[t] = deadline[t]
    /\ expiry'[t] = expiry[t]
    /\ t \in released' <=> t \in released

Created(w, t) ==
    /\ pc[w] = "create" /\ token[w] = t
    /\ claims[t] = "absent" /\ t > archive.through
    /\ claims'[t] = "empty"
    /\ deadline'[t] = deadline[t]
    /\ expiry'[t] = expiry[t]
    /\ t \in released' <=> t \in released

Written(w, t) ==
    /\ pc[w] = "write" /\ token[w] = t
    /\ claims[t] = "empty"
    /\ claims'[t] = "written"
    /\ deadline'[t] = time[w] + ProvisionalDuration
    /\ expiry'[t] = expiry[t]
    /\ t \in released' <=> t \in released

Activated(w, t) ==
    /\ pc[w] = "activate" /\ token[w] = t
    /\ ~late' => ~late /\ ~RunOut(w, deadline[t])
    /\ claims'[t] = claims[t]
    /\ deadline'[t] = deadline[t]
    /\ expiry'[t] = time[w] + LeaseDuration
    /\ t \in released' <=> t \in released

Extended(w, t) ==
    /\ pc[w] = "heartbeat" /\ token[w] = t
    /\ ~late' => ~late /\ ~RunOut(w, expiry[t])
    /\ claims'[t] = claims[t]
    /\ deadline'[t] = deadline[t]
    /\ expiry'[t] = IF expiry[t] = 0 THEN 0 ELSE time[w] + LeaseDuration
    /\ t \in released' <=> t \in released

Withdrawn(w, t) ==
    /\ pc[w] \in {"withdraw", "release"} /\ token[w] = t
    /\ claims'[t] = claims[t]
    /\ deadline'[t] = deadline[t]
    /\ expiry'[t] = expiry[t]
    /\ t \in released'

\* One of its archived files is deleted, the release record after the claim.
Deleted(t) ==
    /\ t <= archive.through
    /\ \/ /\ expiry'[t] = 0 /\ claims'[t] = claims[t] /\ deadline'[t] = deadline[t]
          /\ t \in released' <=> t \in released
       \/ claims'[t] = "absent" /\ expiry'[t] = expiry[t] /\ (t \in released' => t \in released)
       \/ claims[t] = "absent" /\ claims'[t] = "absent" /\ expiry'[t] = expiry[t]
          /\ t \notin released'

Touched(w, t) ==
    \/ Kept(t) \/ Created(w, t) \/ Written(w, t) \/ Activated(w, t)
    \/ Extended(w, t) \/ Withdrawn(w, t) \/ Deleted(t)

LEMMA TokenStep ==
    ASSUME TypeOK, ProcessInv, ArchivalInv, NEW w \in Writers, StepOf(w), ~reissued',
           NEW t \in Tokens
    PROVE  Touched(w, t)
    <1>b. archive.through \in Nat /\ t \in Nat
        BY UsedStays DEF Tokens
    <1>s. Sound(w)
        BY DEF ProcessInv
    <1>k. UNCHANGED ledger => Kept(t)
        BY DEF Kept, ledger
    <1>q. CASE Quiet(w)
        BY <1>k, <1>q DEF Quiet, Touched
    <1>f. /\ claims \in [Tokens -> {"absent", "empty", "written"}]
          /\ deadline \in [Tokens -> Nat] /\ expiry \in [Tokens -> Nat]
          /\ released \subseteq Tokens
        BY DEF TypeOK
    <1>1. CASE CreateClaim(w)
        <2>1. CASE claims[token[w]] = "absent"
            <3>1. /\ pc[w] = "create" /\ ~(token[w] <= archive.through)
                  /\ claims' = [claims EXCEPT ![token[w]] = "empty"]
                  /\ UNCHANGED <<deadline, expiry, released>>
                BY <1>1, <2>1 DEF CreateClaim, At
            <3>2. CASE token[w] = t
                <4>1. t > archive.through
                    BY <1>b, <3>1, <3>2
                <4>. QED BY <1>f, <2>1, <3>1, <3>2, <4>1 DEF Created, Touched
            <3>3. CASE token[w] # t
                BY <1>f, <3>1, <3>3 DEF Kept, Touched
            <3>. QED BY <3>2, <3>3
        <2>2. CASE claims[token[w]] # "absent"
            BY <1>k, <1>1, <2>2 DEF CreateClaim, Touched, ledger
        <2>. QED BY <2>1, <2>2
    <1>2. CASE WriteClaim(w)
        <2>0. pc[w] = "write" /\ claims[token[w]] = "empty"
            BY <1>s, <1>2 DEF WriteClaim, Step, At, Sound, Claimed, Steps, AcquireSteps
        <2>1. /\ claims' = [claims EXCEPT ![token[w]] = "written"]
              /\ deadline' = [deadline EXCEPT ![token[w]] = time[w] + ProvisionalDuration]
              /\ UNCHANGED <<expiry, released>>
            BY <1>2 DEF WriteClaim, At, Step
        <2>2. CASE token[w] = t
            BY <1>f, <2>0, <2>1, <2>2 DEF Written, Touched
        <2>3. CASE token[w] # t
            BY <1>f, <2>1, <2>3 DEF Kept, Touched
        <2>. QED BY <2>2, <2>3
    <1>3. CASE Activate(w)
        <2>1. /\ pc[w] = "activate" /\ (~late' => ~late /\ ~RunOut(w, deadline[token[w]]))
              /\ expiry' = [expiry EXCEPT ![token[w]] = time[w] + LeaseDuration]
              /\ UNCHANGED <<claims, deadline, released>>
            BY <1>3 DEF Activate, At, Step
        <2>2. CASE token[w] = t
            BY <1>f, <2>1, <2>2 DEF Activated, Touched
        <2>3. CASE token[w] # t
            BY <1>f, <2>1, <2>3 DEF Kept, Touched
        <2>. QED BY <2>2, <2>3
    <1>4. CASE Heartbeat(w)
        <2>1. /\ pc[w] = "heartbeat" /\ (~late' => ~late /\ ~RunOut(w, expiry[token[w]]))
              /\ expiry' = [expiry EXCEPT ![token[w]] = IF @ = 0 THEN 0 ELSE time[w] + LeaseDuration]
              /\ UNCHANGED <<claims, deadline, released>>
            BY <1>4 DEF Heartbeat, At, Step
        <2>2. CASE token[w] = t
            BY <1>f, <2>1, <2>2 DEF Extended, Touched
        <2>3. CASE token[w] # t
            BY <1>f, <2>1, <2>3 DEF Kept, Touched
        <2>. QED BY <2>2, <2>3
    <1>5. CASE Withdraw(w)
        <2>1. /\ pc[w] = "withdraw" /\ released' = released \cup {token[w]}
              /\ UNCHANGED <<claims, deadline, expiry>>
            BY <1>5 DEF Withdraw, At, Step
        <2>2. CASE token[w] = t
            BY <1>f, <2>1, <2>2 DEF Withdrawn, Touched
        <2>3. CASE token[w] # t
            BY <1>f, <2>1, <2>3 DEF Kept, Touched
        <2>. QED BY <2>2, <2>3
    <1>6. CASE Release(w)
        <2>1. /\ pc[w] = "release" /\ released' = released \cup {token[w]}
              /\ UNCHANGED <<claims, deadline, expiry>>
            BY <1>6 DEF Release, At, Step
        <2>2. CASE token[w] = t
            BY <1>f, <2>1, <2>2 DEF Withdrawn, Touched
        <2>3. CASE token[w] # t
            BY <1>f, <2>1, <2>3 DEF Kept, Touched
        <2>. QED BY <2>2, <2>3
    <1>7. CASE PlanArchive(w)
        BY <1>k, <1>7 DEF PlanArchive, Touched
    <1>8. CASE OpenArchive(w)
        BY <1>k, <1>8 DEF OpenArchive, Touched
    <1>9. CASE WriteArchive(w)
        BY <1>k, <1>9 DEF WriteArchive, Touched
    <1>10. CASE DeleteRecord(w)
        <2>1. PICK f \in doomed[w] :
                 /\ f[1] \in Tokens /\ f[1] <= archive.through
                 /\ f[2] = ReleaseFile => claims[f[1]] = "absent"
                 /\ expiry' = IF f[2] = Activation THEN [expiry EXCEPT ![f[1]] = 0] ELSE expiry
                 /\ claims' = IF f[2] = Claim THEN [claims EXCEPT ![f[1]] = "absent"] ELSE claims
                 /\ deadline' = IF f[2] = Claim THEN [deadline EXCEPT ![f[1]] = 0] ELSE deadline
                 /\ released' = IF f[2] = ReleaseFile THEN released \ {f[1]} ELSE released
            BY <1>10, Deletion
        <2>2. CASE f[1] = t
            <3>1. CASE f[2] = Activation
                BY <1>f, <2>1, <2>2, <3>1 DEF Activation, Claim, ReleaseFile, Deleted, Touched
            <3>2. CASE f[2] = Claim
                BY <1>f, <2>1, <2>2, <3>2 DEF Activation, Claim, ReleaseFile, Deleted, Touched
            <3>3. CASE f[2] = ReleaseFile
                BY <1>f, <2>1, <2>2, <3>3 DEF Activation, Claim, ReleaseFile, Deleted, Touched
            <3>4. CASE f[2] \notin {Activation, Claim, ReleaseFile}
                BY <2>1, <3>4 DEF Kept, Touched
            <3>. QED BY <3>1, <3>2, <3>3, <3>4
        <2>3. CASE f[1] # t
            BY <1>f, <2>1, <2>3 DEF Kept, Touched
        <2>. QED BY <2>2, <2>3
    <1>. QED BY StepShape, <1>q, <1>1, <1>2, <1>3, <1>4, <1>5, <1>6, <1>7, <1>8, <1>9,
        <1>10 DEF Writing

LEMMA ArchiveStep ==
    ASSUME TypeOK, ArchivalInv, NEW w \in Writers, StepOf(w)
    PROVE  \/ archive' = archive
           \/ WriteArchive(w) /\ pc[w] = "writeArchive" /\ archive' = plan[w]
                /\ (\A t \in Tokens : Kept(t))
    <1>q. CASE Quiet(w)
        BY <1>q DEF Quiet
    <1>. USE DEF At, Step, Forget, archival
    <1>1. CASE CreateClaim(w)
        BY <1>1 DEF CreateClaim
    <1>2. CASE WriteClaim(w)
        BY <1>2 DEF WriteClaim
    <1>3. CASE Activate(w)
        BY <1>3 DEF Activate
    <1>4. CASE Heartbeat(w)
        BY <1>4 DEF Heartbeat
    <1>5. CASE Withdraw(w)
        BY <1>5 DEF Withdraw
    <1>6. CASE Release(w)
        BY <1>6 DEF Release
    <1>7. CASE PlanArchive(w)
        BY <1>7 DEF PlanArchive
    <1>8. CASE OpenArchive(w)
        BY <1>8 DEF OpenArchive
    <1>9. CASE WriteArchive(w)
        BY <1>9 DEF WriteArchive, Kept, ledger
    <1>10. CASE DeleteRecord(w)
        BY <1>10 DEF DeleteRecord
    <1>. QED BY StepShape, <1>q, <1>1, <1>2, <1>3, <1>4, <1>5, <1>6, <1>7, <1>8, <1>9,
        <1>10 DEF Writing

LEMMA UsedChanges ==
    ASSUME TypeOK, ProcessInv, ArchivalInv, NEW w \in Writers, StepOf(w), ~reissued',
           NEW t \in Tokens, Used(t)', ~Used(t)
    PROVE  Created(w, t)
    <1>1. claims[t] = "absent" /\ ~(t <= archive.through)
        BY DEF Used
    <1>2. CASE archive' = archive
        <2>1. claims'[t] # "absent"
            BY <1>1, <1>2 DEF Used
        <2>2. pc[w] \in {"write", "activate", "heartbeat", "withdraw", "release"} => Claimed(w)
            BY DEF Claimed, Steps, AcquireSteps, HandleSteps
        <2>. QED BY <1>1, <2>1, <2>2, TokenStep
                 DEF Touched, Kept, Written, Activated, Extended, Withdrawn, Deleted
    <1>3. CASE WriteArchive(w) /\ pc[w] = "writeArchive" /\ archive' = plan[w] /\ Kept(t)
        <2>1. claims'[t] = "absent" /\ t <= plan[w].through
            BY <1>1, <1>3 DEF Used, Kept
        <2>. QED BY <1>3, <2>1 DEF ArchivalInv, Archiving, Planning, Used
    <1>. QED BY <1>2, <1>3, ArchiveStep

LEMMA LedgerStep ==
    ASSUME TypeOK, TypeOK', LedgerInv, ProcessInv, ArchivalInv,
           NEW w \in Writers, StepOf(w), ~reissued'
    PROVE  LedgerInv'
    <1>1. /\ archive.through \in Nat /\ archive'.through \in Nat
          /\ archive.through <= archive'.through
          /\ \A t \in Tokens : Used(t) => Used(t)'
        BY UsedStays
    <1>2. Sound(w)
        BY DEF ProcessInv
    <1>3. pc[w] \in {"write", "activate", "heartbeat", "withdraw", "release"} =>
             /\ token[w] \in Tokens /\ Used(token[w])
             /\ claims[token[w]] = "empty" => pc[w] = "write"
             /\ pc[w] \in {"activate", "heartbeat"} /\ token[w] > archive.through =>
                  deadline[token[w]] <= time[w] + ProvisionalDuration
        <2>. SUFFICES ASSUME pc[w] \in {"write", "activate", "heartbeat", "withdraw", "release"}
                      PROVE  /\ token[w] \in Tokens /\ Used(token[w])
                             /\ claims[token[w]] = "empty" => pc[w] = "write"
                             /\ pc[w] \in {"activate", "heartbeat"} /\ token[w] > archive.through =>
                                  deadline[token[w]] <= time[w] + ProvisionalDuration
            OBVIOUS
        <2>1. Claimed(w)
            BY DEF Claimed, Steps, AcquireSteps, HandleSteps
        <2>. QED BY <1>2, <2>1 DEF Sound, LedgerInv
    <1>4. ASSUME NEW t \in Tokens
          PROVE  ~Used(t)' \/ claims'[t] = "empty" => expiry'[t] = 0
        <2>1. ~Used(t)' => ~Used(t)
            BY <1>1
        <2>2. ~Used(t) \/ claims[t] = "empty" => expiry[t] = 0
            BY DEF LedgerInv
        <2>3. claims[t] = "empty" => ~(t <= archive.through)
            BY <1>1 DEF LedgerInv, Tokens
        <2>4. Touched(w, t)
            BY TokenStep
        <2>5. CASE Created(w, t)
            <3>1. ~Used(t)
                BY <1>1, <2>5 DEF Created, Used, Tokens
            <3>. QED BY <2>2, <2>5, <3>1 DEF Created
        <2>6. CASE ~Created(w, t)
            BY <1>3, <2>1, <2>2, <2>3, <2>4, <2>6
               DEF Touched, Kept, Written, Activated, Extended, Withdrawn, Deleted
        <2>. QED BY <2>5, <2>6
    <1>5. ASSUME NEW t \in released'
          PROVE  Used(t)'
        <2>1. t \in Tokens
            BY DEF TypeOK
        <2>2. t \in released => Used(t)
            BY DEF LedgerInv
        <2>3. CASE Created(w, t)
            BY <1>1, <2>1, <2>2, <2>3 DEF Created
        <2>4. CASE ~Created(w, t)
            BY <1>1, <1>3, <2>1, <2>2, <2>4, TokenStep
               DEF Touched, Kept, Written, Activated, Extended, Withdrawn, Deleted
        <2>. QED BY <2>3, <2>4
    <1>6. ASSUME NEW t \in Tokens, NEW u \in Tokens, u < t, Used(t)'
          PROVE  Used(u)'
        <2>1. CASE Used(t)
            BY <1>1, <1>6, <2>1 DEF LedgerInv
        <2>2. CASE ~Used(t)
            BY <1>1, <1>2, <1>6, <2>2, UsedChanges DEF Created, Sound
        <2>. QED BY <2>1, <2>2
    <1>7. (archive.highest # 0 => Used(archive.highest))'
        <2>1. archive'.highest # 0 => archive'.highest \in Tokens
            BY DEF TypeOK, Archives
        <2>2. archive'.highest # 0 => Used(archive'.highest)
            BY ArchiveStep DEF LedgerInv, ArchivalInv, Archiving, Planning
        <2>3. ASSUME NEW h \in Tokens, h = archive'.highest, Used(h)
              PROVE  Used(archive.highest)'
            BY <1>1, <2>3 DEF Used
        <2>. QED BY <2>1, <2>2, <2>3
    <1>8. ASSUME NEW t \in Tokens, claims'[t] = "empty"
          PROVE  t > archive'.through
        <2>1. claims[t] = "empty" => t > archive.through
            BY DEF LedgerInv
        <2>2. t > archive.through
            BY <1>3, <1>8, <2>1, TokenStep
               DEF Touched, Kept, Created, Written, Activated, Extended, Withdrawn, Deleted
        <2>3. CASE pc[w] = "writeArchive" /\ archive' = plan[w] /\ Kept(t)
            <3>1. claims[t] = "empty" => ~(t <= plan[w].through)
                BY <2>3 DEF ArchivalInv, Archiving, Planning
            <3>2. ~(t <= archive'.through)
                BY <1>8, <2>3, <3>1 DEF Kept
            <3>. QED BY <1>1, <3>2 DEF Tokens
        <2>. QED BY <2>2, <2>3, ArchiveStep
    <1>9. ASSUME ProvisionalDuration <= LeaseDuration,
                 NEW t \in Tokens, t > archive'.through, expiry'[t] > 0
          PROVE  deadline'[t] <= expiry'[t]
        <2>1. t > archive.through /\ ~(t <= archive.through)
            BY <1>1, <1>9 DEF Tokens
        <2>2. expiry[t] > 0 => deadline[t] <= expiry[t]
            BY <1>9, <2>1 DEF LedgerInv
        <2>3. /\ deadline[t] \in Nat /\ expiry[t] \in Nat /\ time[w] \in Nat
              /\ ProvisionalDuration \in Nat /\ LeaseDuration \in Nat
            BY LeaseAssumption DEF TypeOK
        <2>4. CASE Written(w, t)
            <3>1. expiry[t] = 0
                BY <2>4 DEF Written, LedgerInv
            <3>. QED BY <1>9, <2>4, <3>1 DEF Written
        <2>5. CASE Activated(w, t) \/ Extended(w, t)
            <3>1. deadline[t] <= time[w] + ProvisionalDuration
                BY <1>3, <2>1, <2>5 DEF Activated, Extended
            <3>2. deadline'[t] = deadline[t] /\ expiry'[t] = time[w] + LeaseDuration
                BY <1>9, <2>5 DEF Activated, Extended
            <3>. QED BY <1>9, <2>3, <3>1, <3>2
        <2>6. CASE Kept(t) \/ Created(w, t) \/ Withdrawn(w, t)
            BY <1>9, <2>2, <2>6 DEF Kept, Created, Withdrawn
        <2>7. Touched(w, t) /\ ~Deleted(t)
            BY <2>1, TokenStep DEF Deleted
        <2>. QED BY <2>4, <2>5, <2>6, <2>7 DEF Touched
    <1>. QED BY <1>4, <1>5, <1>6, <1>7, <1>8, <1>9 DEF LedgerInv

-----------------------------------------------------------------------------
(***************************************************************************)
(* Archivals.                                                              *)
(***************************************************************************)
\* A used token is not created again.
LEMMA UsedOnce ==
    ASSUME TypeOK, ProcessInv, ArchivalInv, NEW w \in Writers, StepOf(w), ~reissued',
           NEW t \in Tokens, Used(t)
    PROVE  /\ claims[t] # "empty" => claims'[t] # "empty"
           /\ claims[t] = "absent" => claims'[t] = "absent"
    <1>1. ~Created(w, t)
        BY UsedStays DEF Created, Used, Tokens
    <1>2. pc[w] = "write" => claims[token[w]] = "empty"
        BY DEF ProcessInv, Sound, Claimed, Steps, AcquireSteps
    <1>. QED BY <1>1, <1>2, TokenStep
             DEF Touched, Kept, Written, Activated, Extended, Withdrawn, Deleted

LEMMA TornStep ==
    ASSUME TypeOK, ArchivalInv, NEW w \in Writers, StepOf(w)
    PROVE  /\ torn => torn' \/ pc[w] = "writeArchive"
           /\ pc'[w] = "writeArchive" => ~torn
    <1>q. CASE Quiet(w)
        BY <1>q DEF Quiet
    <1>. USE DEF TypeOK, At, Step, Forget, archival
    <1>1. CASE CreateClaim(w)
        BY <1>1 DEF CreateClaim
    <1>2. CASE WriteClaim(w)
        BY <1>2 DEF WriteClaim
    <1>3. CASE Activate(w)
        BY <1>3 DEF Activate
    <1>4. CASE Heartbeat(w)
        BY <1>4 DEF Heartbeat
    <1>5. CASE Withdraw(w)
        BY <1>5 DEF Withdraw
    <1>6. CASE Release(w)
        BY <1>6 DEF Release
    <1>7. CASE PlanArchive(w)
        BY <1>7 DEF PlanArchive
    <1>8. CASE OpenArchive(w)
        BY <1>8 DEF OpenArchive
    <1>9. CASE WriteArchive(w)
        BY <1>9 DEF WriteArchive
    <1>10. CASE DeleteRecord(w)
        BY <1>10 DEF DeleteRecord
    <1>. QED BY StepShape, <1>q, <1>1, <1>2, <1>3, <1>4, <1>5, <1>6, <1>7, <1>8, <1>9,
        <1>10 DEF Writing

\* Whatever is doomed belongs to a used token.
LEMMA DoomedUsed ==
    ASSUME TypeOK, ArchivalInv, NEW v \in Writers, NEW f \in doomed[v]
    PROVE  f[1] \in Tokens /\ Used(f[1])
    <1>1. f \in Files
        BY DEF TypeOK
    <1>2. f[1] \in Tokens
        BY <1>1 DEF Files
    <1>3. Archiving(v)
        BY DEF ArchivalInv
    <1>. QED BY <1>2, <1>3 DEF Archiving, Used

LEMMA OtherArchiving ==
    ASSUME TypeOK, TokensUnique, LedgerInv, ProcessInv, ArchivalInv,
           NEW w \in Writers, StepOf(w), ~reissued', NEW v \in Writers, v # w
    PROVE  Archiving(v)'
    <1>1. Archiving(v)
        BY DEF ArchivalInv
    <1>2. pc'[v] = pc[v] /\ plan'[v] = plan[v] /\ doomed'[v] = doomed[v]
        BY OthersUntouched
    <1>3. /\ archive.through \in Nat /\ archive'.through \in Nat
          /\ archive.through <= archive'.through
          /\ \A t \in Tokens : Used(t) => Used(t)'
        BY UsedStays
    <1>4. Planning(v)' <=> Planning(v)
        BY <1>2 DEF Planning
    <1>5. ASSUME Planning(v)
          PROVE  /\ (plan[v].highest # 0 => Used(plan[v].highest))'
                 /\ \A t \in Tokens : t <= plan'[v].through => Used(t)' /\ claims'[t] # "empty"
                 /\ \A f \in doomed'[v] : f[1] <= plan'[v].through
        <2>1. plan[v].highest # 0 => plan[v].highest \in Tokens /\ Used(plan[v].highest)
            BY <1>1, <1>5 DEF TypeOK, Archives, Archiving
        <2>2. ASSUME NEW h \in Tokens, h = plan'[v].highest, Used(h)
              PROVE  (Used(plan[v].highest))'
            BY <1>3, <2>2 DEF Used
        <2>3. (plan[v].highest # 0 => Used(plan[v].highest))'
            BY <1>2, <2>1, <2>2
        <2>4. ASSUME NEW t \in Tokens, t <= plan'[v].through
              PROVE  Used(t)' /\ claims'[t] # "empty"
            BY <1>1, <1>2, <1>3, <1>5, <2>4, UsedOnce DEF Archiving
        <2>. QED BY <1>1, <1>2, <1>5, <2>3, <2>4 DEF Archiving
    <1>6. pc[v] = "writeArchive" => pc[w] # "writeArchive" /\ torn /\ torn' /\ archive' = archive
        <2>1. pc[v] = "writeArchive" => pc[w] # "writeArchive" /\ torn
            BY <1>1 DEF ArchivalInv, Archiving
        <2>. QED BY <2>1, TornStep, ArchiveStep
    <1>7. ASSUME pc[v] = "delete", NEW f \in doomed[v]
          PROVE  f[1] <= archive'.through
        <2>1. f[1] \in Nat /\ f[1] <= archive.through
            BY <1>1, <1>7, DoomedUsed DEF Archiving, Tokens
        <2>. QED BY <1>3, <2>1
    <1>8. ASSUME NEW t \in Tokens, <<t, ReleaseFile>> \in doomed[v],
                 <<t, Claim>> \notin doomed[v]
          PROVE  claims'[t] = "absent"
        <2>1. claims[t] = "absent"
            BY <1>1, <1>8 DEF Archiving
        <2>2. Used(<<t, ReleaseFile>>[1])
            BY <1>8, DoomedUsed
        <2>3. Used(t)
            BY <2>2
        <2>. QED BY <2>1, <2>3, UsedOnce
    <1>. QED BY <1>1, <1>2, <1>4, <1>5, <1>6, <1>7, <1>8 DEF Archiving

LEMMA ActorArchiving ==
    ASSUME TypeOK, LedgerInv, ProcessInv, ArchivalInv, NEW w \in Writers, StepOf(w), ~reissued'
    PROVE  Archiving(w)'
    <1>a. Archiving(w)
        BY DEF ArchivalInv
    <1>b. /\ archive.through \in Nat /\ archive'.through \in Nat
          /\ \A t \in Tokens : Used(t) => Used(t)'
          /\ Tokens \subseteq Nat
        BY UsedStays DEF Tokens
    <1>q. CASE Quiet(w)
        BY <1>q DEF Quiet, Archiving, Planning
    <1>n. ASSUME ~Planning(w), pc[w] # "delete", doomed'[w] \subseteq doomed[w],
                 pc'[w] \notin {"openArchive", "writeArchive", "delete"}
          PROVE  Archiving(w)'
        BY <1>a, <1>n DEF Archiving, Planning
    <1>t. pc \in [Writers -> Steps] /\ doomed \in [Writers -> SUBSET Files]
          /\ plan \in [Writers -> Archives]
        BY DEF TypeOK
    <1>1. CASE CreateClaim(w)
        <2>. ~Planning(w) /\ pc[w] # "delete" /\ doomed'[w] \subseteq doomed[w]
                 /\ pc'[w] \notin {"openArchive", "writeArchive", "delete"}
            BY <1>t, <1>1 DEF CreateClaim, At, Step, Forget, Planning, archival
        <2>. QED BY <1>n
    <1>2. CASE WriteClaim(w)
        <2>. ~Planning(w) /\ pc[w] # "delete" /\ doomed'[w] \subseteq doomed[w]
                 /\ pc'[w] \notin {"openArchive", "writeArchive", "delete"}
            BY <1>t, <1>2 DEF WriteClaim, At, Step, Forget, Planning, archival
        <2>. QED BY <1>n
    <1>3. CASE Activate(w)
        <2>. ~Planning(w) /\ pc[w] # "delete" /\ doomed'[w] \subseteq doomed[w]
                 /\ pc'[w] \notin {"openArchive", "writeArchive", "delete"}
            BY <1>t, <1>3 DEF Activate, At, Step, Forget, Planning, archival
        <2>. QED BY <1>n
    <1>4. CASE Heartbeat(w)
        <2>. ~Planning(w) /\ pc[w] # "delete" /\ doomed'[w] \subseteq doomed[w]
                 /\ pc'[w] \notin {"openArchive", "writeArchive", "delete"}
            BY <1>t, <1>4 DEF Heartbeat, At, Step, Forget, Planning, archival
        <2>. QED BY <1>n
    <1>5. CASE Withdraw(w)
        <2>. ~Planning(w) /\ pc[w] # "delete" /\ doomed'[w] \subseteq doomed[w]
                 /\ pc'[w] \notin {"openArchive", "writeArchive", "delete"}
            BY <1>t, <1>5 DEF Withdraw, At, Step, Forget, Planning, archival
        <2>. QED BY <1>n
    <1>6. CASE Release(w)
        <2>. ~Planning(w) /\ pc[w] # "delete" /\ doomed'[w] \subseteq doomed[w]
                 /\ pc'[w] \notin {"openArchive", "writeArchive", "delete"}
            BY <1>t, <1>6 DEF Release, At, Step, Forget, Planning, archival
        <2>. QED BY <1>n
    <1>7. CASE PlanArchive(w)
        <2>1. PICK a \in Archives :
                 /\ a.from = archive.through + 1
                 /\ a.through \in Eligible(w)
                 /\ \A t \in Eligible(w) : t <= a.through
                 /\ Highest(a.highest)
                 /\ plan' = [plan EXCEPT ![w] = a]
            BY <1>7 DEF PlanArchive
        <2>2. /\ pc'[w] = "openArchive" /\ plan'[w] = a /\ UNCHANGED <<claims, archive>>
              /\ doomed'[w] = UNION {FilesOf(t) : t \in Eligible(w)}
            BY <1>t, <1>7, <2>1 DEF PlanArchive, Step, At, ledger
        <2>3. a.highest # 0 => Used(a.highest)'
            <3>1. a.highest # 0 => Used(a.highest)
                BY <2>1 DEF Highest, Named, LedgerInv, Used
            <3>. QED BY <2>2, <3>1 DEF Used
        <2>4. ASSUME NEW t \in Tokens, t <= a.through
              PROVE  Used(t)' /\ claims'[t] # "empty"
            <3>1. CASE t <= archive.through
                <4>1. ~(archive.through < t)
                    BY <1>b, <3>1
                <4>2. claims[t] # "empty"
                    BY <1>b, <4>1 DEF LedgerInv
                <4>. QED BY <2>2, <3>1, <4>2 DEF Used
            <3>2. CASE ~(t <= archive.through)
                <4>1. archive.through < t
                    BY <1>b, <3>2
                <4>2. claims[t] = "written"
                    BY <2>1, <2>4, <4>1 DEF Eligible, Archivable
                <4>. QED BY <2>2, <4>2 DEF Used
            <3>. QED BY <3>1, <3>2
        <2>5. ASSUME NEW f \in doomed'[w]
              PROVE  f[1] <= a.through
            BY <2>1, <2>2 DEF FilesOf
        <2>6. a.from <= a.through
            <3>1. a.through \in Tokens /\ a.through > archive.through
                BY <2>1 DEF Eligible
            <3>2. /\ a.through \in Nat /\ archive.through \in Nat
                  /\ a.from = archive.through + 1
                BY <1>b, <2>1, <3>1
            <3>. QED BY <3>1, <3>2
        <2>7. ASSUME NEW t \in Tokens, <<t, ReleaseFile>> \in doomed'[w]
              PROVE  <<t, Claim>> \in doomed'[w]
            <3>1. PICK u \in Eligible(w) : <<t, ReleaseFile>> \in FilesOf(u)
                BY <2>2, <2>7
            <3>2. u = t
                BY <3>1 DEF FilesOf
            <3>3. <<t, Claim>> \in FilesOf(t)
                BY DEF FilesOf, Files
            <3>. QED BY <2>2, <3>1, <3>2, <3>3
        <2>8. \A h : h = a.highest => (Used(h)' => (Used(plan[w].highest))')
            BY <2>2 DEF Used
        <2>. QED BY <2>2, <2>3, <2>4, <2>5, <2>6, <2>7, <2>8 DEF Archiving, Planning
    <1>8. CASE OpenArchive(w)
        <2>1. CASE torn \/ archive.through + 1 # plan[w].from
            BY <1>t, <1>8, <2>1 DEF OpenArchive, At, Archiving, Planning
        <2>2. CASE ~(torn \/ archive.through + 1 # plan[w].from)
            <3>1. /\ pc[w] = "openArchive" /\ pc'[w] = "writeArchive" /\ torn'
                  /\ UNCHANGED <<plan, doomed, claims, archive>>
                BY <1>t, <1>8, <2>2 DEF OpenArchive, At, ledger
            <3>2. plan[w].through \in Nat /\ plan[w].from <= plan[w].through
                <4>1. plan[w].through \in Tokens \cup {0}
                    BY <1>t DEF Archives
                <4>2. plan[w].through \in Nat
                    BY <4>1, LeaseAssumption DEF Tokens
                <4>. QED BY <1>a, <3>1, <4>2 DEF Archiving
            <3>3. archive.through < plan[w].through
                BY <1>b, <2>2, <3>2
            <3>4. \A t : Used(t)' <=> Used(t)
                BY <3>1 DEF Used
            <3>5. (Used(plan[w].highest))' <=> Used(plan[w].highest)
                BY <3>1 DEF Used
            <3>. QED BY <1>a, <3>1, <3>3, <3>4, <3>5 DEF Archiving, Planning
        <2>. QED BY <2>1, <2>2
    <1>9. CASE WriteArchive(w)
        <2>1. /\ pc[w] = "writeArchive" /\ pc'[w] = "delete" /\ archive' = plan[w]
              /\ UNCHANGED <<doomed, claims>>
            BY <1>t, <1>9 DEF WriteArchive, Step, At, ledger
        <2>. QED BY <1>a, <2>1 DEF Archiving, Planning
    <1>10. CASE DeleteRecord(w)
        <2>1. PICK f \in doomed[w] :
                 /\ f[1] \in Tokens /\ f[1] <= archive.through
                 /\ claims' = IF f[2] = Claim THEN [claims EXCEPT ![f[1]] = "absent"] ELSE claims
                 /\ doomed' = [doomed EXCEPT ![w] = @ \ {f}]
            BY <1>10, Deletion
        <2>2. pc[w] = "delete" /\ UNCHANGED <<pc, archive>> /\ doomed'[w] = doomed[w] \ {f}
            BY <1>t, <2>1, <1>10 DEF DeleteRecord, At
        <2>3. ASSUME NEW t \in Tokens, <<t, ReleaseFile>> \in doomed'[w],
                     <<t, Claim>> \notin doomed'[w]
              PROVE  claims'[t] = "absent"
            <3>0. claims \in [Tokens -> {"absent", "empty", "written"}]
                BY DEF TypeOK
            <3>1. CASE <<t, Claim>> = f
                BY <2>1, <3>0, <3>1
            <3>2. CASE <<t, Claim>> # f
                <4>1. claims[t] = "absent"
                    BY <1>a, <2>2, <2>3, <3>2 DEF Archiving
                <4>. QED BY <2>1, <3>0, <4>1
            <3>. QED BY <3>1, <3>2
        <2>. QED BY <1>a, <2>2, <2>3 DEF Archiving, Planning
    <1>. QED BY StepShape, <1>q, <1>1, <1>2, <1>3, <1>4, <1>5, <1>6, <1>7, <1>8, <1>9,
        <1>10 DEF Writing

LEMMA ArchivalStep ==
    ASSUME TypeOK, TokensUnique, LedgerInv, ProcessInv, ArchivalInv,
           NEW w \in Writers, StepOf(w), ~reissued'
    PROVE  ArchivalInv'
    <1>1. ASSUME NEW v \in Writers
          PROVE  Archiving(v)'
        BY OtherArchiving, ActorArchiving
    <1>2. ASSUME NEW v \in Writers, v # w, pc'[v] = "writeArchive"
          PROVE  pc'[w] # "writeArchive"
        BY <1>2, OthersUntouched, TornStep DEF ArchivalInv, Archiving
    <1>3. ASSUME NEW v \in Writers, NEW x \in Writers, v # w, x # w,
                 pc'[v] = "writeArchive", pc'[x] = "writeArchive"
          PROVE  v = x
        BY <1>3, OthersUntouched DEF ArchivalInv
    <1>. QED BY <1>1, <1>2, <1>3 DEF ArchivalInv

LEMMA NatThrough ==
    ASSUME TypeOK
    PROVE  archive.through \in Nat
    BY LeaseAssumption DEF TypeOK, Archives, Tokens

LEMMA HistoryStep ==
    ASSUME TypeOK, ProcessInv, NEW w \in Writers, StepOf(w), ~late'
    PROVE  /\ ~late
           /\ ~blind' => ~blind
           /\ clock <= clock'
           /\ pc'[w] = "write" => claims[token'[w]] = "absent"
           /\ pc'[w] = "activate" =>
                /\ pc[w] = "elect"
                /\ token'[w] = token[w]
                /\ IsElected(token[w], time[w])
                /\ ~blind' => ~ \E u \in Tokens : u < token[w] /\ BeingWritten(u)
           /\ owner' # owner =>
                /\ owner' = token[w] /\ owner' \in Tokens
                /\ ~(owner' <= archive.through)
                /\ owner' \notin released /\ claims[owner'] = "written"
                /\ clock < expiry[owner']
                /\ UNCHANGED <<clock, ledger, archive>>
    <1>s. Sound(w) BY DEF ProcessInv
    <1>c. pc[w] \in HandleSteps \cup {"recover"} => Claimed(w)
        BY DEF Claimed, Steps, AcquireSteps, HandleSteps
    <1>t. /\ clock \in Nat /\ time \in [Writers -> Nat] /\ expiry \in [Tokens -> Nat]
          /\ pc \in [Writers -> Steps] /\ token \in [Writers -> Tokens \cup {0}]
        BY DEF TypeOK
    <1>. USE <1>t DEF At, Step, Forget, ledger, archival, history
    <1>a. ASSUME NEW from, NEW to, from \in HandleSteps, to \in HandleSteps, AssertThen(w, from, to)
          PROVE  /\ ~late /\ (~blind' => ~blind)
                 /\ clock <= clock'
                 /\ pc'[w] \in HandleSteps
                 /\ owner' # owner =>
                      /\ owner' = token[w] /\ owner' \in Tokens
                      /\ ~(owner' <= archive.through)
                      /\ owner' \notin released /\ claims[owner'] = "written"
                      /\ clock < expiry[owner']
                      /\ UNCHANGED <<clock, ledger, archive>>
        <2>1. pc[w] = from /\ pc'[w] \in {to, "ready"} /\ UNCHANGED <<clock, ledger, archive, blind>>
            BY <1>a DEF AssertThen
        <2>2. CASE Owns(token[w], time[w])
            <3>1. owner' = token[w] /\ ~late /\ ~RunOut(w, expiry[token[w]])
                BY <1>a, <2>2 DEF AssertThen
            <3>2. token[w] \in Tokens
                BY <1>s, <1>c, <1>a, <2>1 DEF Sound
            <3>3. /\ claims[token[w]] = "written" /\ token[w] \notin released
                  /\ time[w] < expiry[token[w]]
                BY <2>2, <3>2 DEF Owns, IsCurrent, Active, Candidate
            <3>. QED BY <1>a, <2>1, <3>1, <3>2, <3>3 DEF RunOut, HandleSteps
        <2>3. CASE ~Owns(token[w], time[w])
            BY <1>a, <2>1, <2>3 DEF AssertThen, HandleSteps
        <2>. QED BY <2>2, <2>3
    <1>1. CASE BeginAcquire(w)
        BY <1>1 DEF BeginAcquire, Observe
    <1>2. CASE PreflightHeld(w)
        BY <1>2 DEF PreflightHeld
    <1>3. CASE PreflightFree(w)
        BY <1>3 DEF PreflightFree
    <1>4. CASE Allocate(w)
        BY <1>4 DEF Allocate
    <1>5. CASE CreateClaim(w)
        BY <1>5 DEF CreateClaim
    <1>6. CASE WriteClaim(w)
        BY <1>6 DEF WriteClaim
    <1>7. CASE Elect(w)
        <2>1. ~late /\ (~blind' => ~blind /\ ~ \E u \in Tokens : u < token[w] /\ BeingWritten(u))
            BY <1>7 DEF Elect
        <2>2. UNCHANGED <<clock, token, owner>>
            BY <1>7 DEF Elect
        <2>3. /\ pc[w] = "elect"
              /\ pc'[w] = IF IsElected(token[w], time[w]) THEN "activate" ELSE "withdraw"
            BY <1>7 DEF Elect
        <2>. QED BY <2>1, <2>2, <2>3
    <1>8. CASE Activate(w)
        <2>1. ~late
            BY <1>8 DEF Activate
        <2>2. pc'[w] = "verify" /\ UNCHANGED <<clock, owner, blind>>
            BY <1>8 DEF Activate
        <2>. QED BY <2>1, <2>2
    <1>9. CASE VerifyActivation(w)
        <2>1. ~late
            BY <1>9 DEF VerifyActivation
        <2>2. pc'[w] \in {"recover", "withdraw"} /\ UNCHANGED <<clock, owner, blind>>
            BY <1>9 DEF VerifyActivation
        <2>. QED BY <2>1, <2>2
    <1>10. CASE RecoverBase(w)
        <2>1. /\ pc[w] = "recover" /\ pc'[w] = "ready" /\ owner' = token[w]
              /\ ~late /\ ~RunOut(w, expiry[token[w]])
              /\ UNCHANGED <<clock, ledger, archive, blind>>
            BY <1>10 DEF RecoverBase
        <2>2. /\ token[w] \in Tokens /\ token[w] \notin released
              /\ ~(token[w] <= archive.through)
            BY <1>s, <1>c, <2>1 DEF Sound, RunOut
        <2>3. token[w] > archive.through
            BY <2>2, NatThrough DEF Tokens
        <2>4. claims[token[w]] = "written" /\ time[w] < expiry[token[w]]
            BY <1>s, <1>c, <2>1, <2>3 DEF Sound
        <2>5. clock < expiry[token[w]]
            BY <2>1, <2>2, <2>4 DEF RunOut
        <2>. QED BY <2>1, <2>2, <2>4, <2>5
    <1>11. CASE RecoverFails(w)
        BY <1>11 DEF RecoverFails
    <1>12. CASE Withdraw(w)
        BY <1>12 DEF Withdraw
    <1>13. CASE BeginAssert(w)
        BY <1>13 DEF BeginAssert, Observe
    <1>14. CASE AssertLease(w)
        <2>1. AssertThen(w, "assert", "ready")
            BY <1>14 DEF AssertLease
        <2>. QED BY <1>a, <2>1 DEF HandleSteps
    <1>15. CASE BeginRenew(w)
        BY <1>15 DEF BeginRenew, Observe
    <1>16. CASE RenewAssert(w)
        <2>1. AssertThen(w, "renew", "heartbeat")
            BY <1>16 DEF RenewAssert
        <2>. QED BY <1>a, <2>1 DEF HandleSteps
    <1>17. CASE Heartbeat(w)
        <2>1. ~late
            BY <1>17 DEF Heartbeat
        <2>2. pc'[w] = "ready" /\ UNCHANGED <<clock, owner, blind>>
            BY <1>17 DEF Heartbeat
        <2>. QED BY <2>1, <2>2
    <1>18. CASE BeginRelease(w)
        BY <1>18 DEF BeginRelease, Observe
    <1>19. CASE InspectRelease(w)
        BY <1>19 DEF InspectRelease
    <1>20. CASE Release(w)
        BY <1>20 DEF Release
    <1>21. CASE BeginArchive(w)
        BY <1>21 DEF BeginArchive, Observe
    <1>22. CASE ArchiveAssert(w)
        <2>1. AssertThen(w, "archive", "scan")
            BY <1>22 DEF ArchiveAssert
        <2>. QED BY <1>a, <2>1 DEF HandleSteps
    <1>23. CASE NothingToArchive(w)
        BY <1>23 DEF NothingToArchive
    <1>24. CASE ArchiveRefuses(w)
        BY <1>24 DEF ArchiveRefuses
    <1>25. CASE PlanArchive(w)
        BY <1>25 DEF PlanArchive
    <1>26. CASE OpenArchive(w)
        BY <1>26 DEF OpenArchive
    <1>27. CASE WriteArchive(w)
        BY <1>27 DEF WriteArchive
    <1>28. CASE DeleteRecord(w)
        BY <1>28 DEF DeleteRecord
    <1>29. CASE EndArchive(w)
        BY <1>29 DEF EndArchive
    <1>30. CASE ArchiveUnreadable(w)
        <2>1. pc'[w] \in {"idle", "ready"} /\ UNCHANGED <<clock, owner, blind, late>>
            BY <1>30 DEF ArchiveUnreadable
        <2>. QED BY <2>1
    <1>31. CASE Crash(w)
        BY <1>31 DEF Crash
    <1>. QED BY StepOf(w), <1>1, <1>2, <1>3, <1>4, <1>5, <1>6, <1>7, <1>8, <1>9,
        <1>10, <1>11, <1>12, <1>13, <1>14, <1>15, <1>16, <1>17, <1>18, <1>19, <1>20,
        <1>21, <1>22, <1>23, <1>24, <1>25, <1>26, <1>27, <1>28, <1>29, <1>30, <1>31
        DEF StepOf, Acquire, UseHandle, ArchiveLedger

-----------------------------------------------------------------------------
(***************************************************************************)
(* Dead and retired tokens.                                                *)
(***************************************************************************)
\* What a step that is not late relies on.
LEMMA InTime ==
    ASSUME TypeOK, LedgerInv, ProcessInv, NEW w \in Writers, NEW t \in Tokens, ~late'
    PROVE  /\ Activated(w, t) => /\ ~(t <= archive.through) /\ claims[t] = "written"
                                 /\ t \notin released
                                 /\ expiry[t] = 0 /\ clock < deadline[t]
           /\ Extended(w, t) => /\ ~(t <= archive.through) /\ claims[t] = "written"
                                /\ t \notin released /\ clock < expiry[t]
    <1>0. t \in Nat
        BY DEF Tokens
    <1>1. /\ archive.through \in Nat /\ t \in Nat /\ clock \in Nat
          /\ deadline[t] \in Nat /\ expiry[t] \in Nat
        BY <1>0, NatThrough DEF TypeOK
    <1>2. ~(t <= archive.through) => t > archive.through
        BY <1>1
    <1>3. Sound(w)
        BY DEF ProcessInv
    <1>4. pc[w] \in {"activate", "heartbeat"} => Claimed(w)
        BY DEF Claimed, Steps, AcquireSteps, HandleSteps
    <1>5. ASSUME Activated(w, t)
          PROVE  /\ ~(t <= archive.through) /\ claims[t] = "written"
                 /\ t \notin released
                 /\ expiry[t] = 0 /\ clock < deadline[t]
        <2>1. pc[w] = "activate" /\ token[w] = t /\ ~RunOut(w, deadline[t])
            BY <1>5 DEF Activated
        <2>2. ~(t <= archive.through) /\ (time[w] < deadline[t] => ~(deadline[t] <= clock))
            BY <2>1 DEF RunOut
        <2>3. time[w] < deadline[t] /\ expiry[t] = 0 /\ claims[t] = "written" /\ t \notin released
            BY <1>2, <1>3, <1>4, <2>1, <2>2 DEF Sound
        <2>. QED BY <1>1, <2>2, <2>3
    <1>6. ASSUME Extended(w, t)
          PROVE  /\ ~(t <= archive.through) /\ claims[t] = "written"
                 /\ t \notin released /\ clock < expiry[t]
        <2>1. pc[w] = "heartbeat" /\ token[w] = t /\ ~RunOut(w, expiry[t])
            BY <1>6 DEF Extended
        <2>2. ~(t <= archive.through) /\ (time[w] < expiry[t] => ~(expiry[t] <= clock))
            BY <2>1 DEF RunOut
        <2>3. time[w] < expiry[t] /\ claims[t] = "written" /\ t \notin released
            BY <1>2, <1>3, <1>4, <2>1, <2>2 DEF Sound
        <2>. QED BY <1>1, <2>2, <2>3
    <1>. QED BY <1>5, <1>6

\* A dead token stays dead.
LEMMA DeadStays ==
    ASSUME TypeOK, TypeOK', TokensUnique, LedgerInv, ProcessInv, ArchivalInv,
           NEW w \in Writers, StepOf(w), ~reissued', ~late', NEW t \in Tokens, Dead(t)
    PROVE  Dead(t)'
    <1>0. t \in Nat
        BY DEF Tokens
    <1>1. /\ clock \in Nat /\ clock' \in Nat /\ clock <= clock'
          /\ deadline[t] \in Nat /\ expiry[t] \in Nat /\ t \in Nat
        BY <1>0, HistoryStep DEF TypeOK
    <1>2. /\ archive.through \in Nat /\ archive'.through \in Nat
          /\ archive.through <= archive'.through
        BY UsedStays
    <1>3. /\ Touched(w, t)
          /\ Activated(w, t) => claims[t] = "written" /\ t \notin released
                                /\ expiry[t] = 0 /\ clock < deadline[t]
          /\ Extended(w, t) => claims[t] = "written" /\ t \notin released /\ clock < expiry[t]
        BY TokenStep, InTime
    <1>4. CASE t <= archive.through
        BY <1>1, <1>2, <1>4 DEF Dead
    <1>5. CASE ~(t <= archive.through)
        <2>1. ~Deleted(t)
            BY <1>5 DEF Deleted
        <2>2. CASE claims[t] = "empty" /\ ~BeingWritten(t)
            <3>1. ~Written(w, t)
                BY <2>2 DEF Written, BeingWritten
            <3>2. claims'[t] = "empty"
                BY <1>3, <2>1, <2>2, <3>1
                   DEF Touched, Kept, Created, Activated, Extended, Withdrawn
            <3>3. ~BeingWritten(t)'
                <4>. SUFFICES ASSUME NEW v \in Writers, pc'[v] = "write", token'[v] = t
                              PROVE  FALSE
                    BY DEF BeingWritten
                <4>1. CASE v = w
                    BY <2>2, <4>1, HistoryStep
                <4>2. CASE v # w
                    BY <2>2, <4>2, OthersUntouched DEF BeingWritten
                <4>. QED BY <4>1, <4>2
            <3>. QED BY <3>2, <3>3 DEF Dead
        <2>3. CASE t \in released
            BY <1>3, <2>1, <2>3
               DEF Dead, Touched, Kept, Created, Written, Activated, Extended, Withdrawn
        <2>4. CASE claims[t] = "written" /\ expiry[t] = 0 /\ deadline[t] <= clock
            <3>1. ~Activated(w, t)
                BY <1>1, <1>3, <2>4
            <3>2. claims'[t] = "written" /\ deadline'[t] = deadline[t] /\ expiry'[t] = 0
                BY <1>3, <2>1, <2>4, <3>1
                   DEF Touched, Kept, Created, Written, Extended, Withdrawn
            <3>. QED BY <1>1, <2>4, <3>2 DEF Dead
        <2>5. CASE expiry[t] > 0 /\ expiry[t] <= clock
            <3>1. ~Activated(w, t) /\ ~Extended(w, t)
                BY <1>1, <1>3, <2>5
            <3>2. expiry'[t] = expiry[t]
                BY <1>3, <2>1, <2>5, <3>1
                   DEF Touched, Kept, Created, Written, Withdrawn
            <3>. QED BY <1>1, <2>5, <3>2 DEF Dead
        <2>. QED BY <1>5, <2>2, <2>3, <2>4, <2>5 DEF Dead
    <1>. QED BY <1>4, <1>5

\* A used and retired token stays retired.
LEMMA RetiredStays ==
    ASSUME TypeOK, TypeOK', LedgerInv, ProcessInv, ArchivalInv,
           NEW w \in Writers, StepOf(w), ~reissued', ~late',
           NEW t \in Tokens, Used(t), claims[t] # "empty", Retired(t)
    PROVE  Retired(t)'
    <1>0. t \in Nat
        BY DEF Tokens
    <1>1. /\ clock \in Nat /\ clock' \in Nat /\ clock <= clock'
          /\ deadline[t] \in Nat /\ expiry[t] \in Nat /\ t \in Nat
        BY <1>0, HistoryStep DEF TypeOK
    <1>2. /\ archive.through \in Nat /\ archive'.through \in Nat
          /\ archive.through <= archive'.through
        BY UsedStays
    <1>3. /\ Touched(w, t)
          /\ Activated(w, t) => claims[t] = "written" /\ t \notin released /\ expiry[t] = 0
                                /\ ~(t <= archive.through) /\ clock < deadline[t]
          /\ Extended(w, t) => claims[t] = "written" /\ t \notin released /\ clock < expiry[t]
        BY TokenStep, InTime
    <1>4. claims[t] = "absent" => claims'[t] = "absent"
        BY UsedOnce
    <1>5. CASE claims[t] = "absent"
        BY <1>4, <1>5 DEF Retired
    <1>6. CASE claims[t] # "absent" /\ t \in released
        BY <1>3, <1>6
           DEF Retired, Touched, Kept, Created, Written, Activated, Extended, Withdrawn, Deleted
    <1>7. CASE claims[t] # "absent" /\ t \notin released
        <2>1. /\ expiry[t] <= clock
              /\ (expiry[t] = 0 /\ t > archive.through) \/ ProvisionalDuration <= LeaseDuration =>
                   deadline[t] <= clock
            BY <1>7 DEF Retired
        <2>2. ~Created(w, t) /\ ~Written(w, t)
            BY <1>7 DEF Created, Written
        <2>3. ~Activated(w, t)
            <3>. SUFFICES ASSUME Activated(w, t) PROVE FALSE
                OBVIOUS
            <3>1. t > archive.through
                BY <1>1, <1>2, <1>3
            <3>. QED BY <1>1, <1>3, <2>1, <3>1
        <2>4. ~Extended(w, t)
            BY <1>1, <1>3, <2>1
        <2>5. CASE Kept(t)
            <3>1. t > archive'.through => t > archive.through
                BY <1>1, <1>2
            <3>2. expiry'[t] = expiry[t] /\ deadline'[t] = deadline[t]
                BY <2>5 DEF Kept
            <3>3. expiry'[t] <= clock'
                BY <1>1, <2>1, <3>2
            <3>4. (expiry'[t] = 0 /\ t > archive'.through) \/ ProvisionalDuration <= LeaseDuration =>
                     deadline'[t] <= clock'
                BY <1>1, <2>1, <3>1, <3>2
            <3>. QED BY <3>3, <3>4 DEF Retired
        <2>6. CASE Withdrawn(w, t)
            BY <2>6 DEF Withdrawn, Retired
        <2>7. CASE Deleted(t)
            <3>1. CASE claims'[t] = "absent"
                BY <3>1 DEF Retired
            <3>2. CASE claims'[t] # "absent"
                <4>1. t <= archive.through /\ expiry'[t] = 0 /\ deadline'[t] = deadline[t]
                    BY <2>7, <3>2 DEF Deleted
                <4>2. ~(t > archive'.through)
                    BY <1>1, <1>2, <4>1
                <4>3. ProvisionalDuration <= LeaseDuration => deadline'[t] <= clock'
                    BY <1>1, <2>1, <4>1
                <4>4. expiry'[t] <= clock'
                    BY <1>1, <4>1
                <4>. QED BY <4>2, <4>3, <4>4 DEF Retired
            <3>. QED BY <3>1, <3>2
        <2>. QED BY <1>3, <2>2, <2>3, <2>4, <2>5, <2>6, <2>7 DEF Touched
    <1>. QED BY <1>5, <1>6, <1>7

\* An archival starts to plan only by choosing what is eligible.
LEMMA PlanStep ==
    ASSUME TypeOK, ArchivalInv, NEW w \in Writers, StepOf(w), Planning(w)',
           ~PlanArchive(w)
    PROVE  Planning(w) /\ plan'[w] = plan[w]
    <1>q. CASE Quiet(w)
        BY <1>q DEF Quiet, Planning
    <1>. USE DEF TypeOK, Planning, At, Step, Forget, archival
    <1>1. CASE CreateClaim(w)
        BY <1>1 DEF CreateClaim
    <1>2. CASE WriteClaim(w)
        BY <1>2 DEF WriteClaim
    <1>3. CASE Activate(w)
        BY <1>3 DEF Activate
    <1>4. CASE Heartbeat(w)
        BY <1>4 DEF Heartbeat
    <1>5. CASE Withdraw(w)
        BY <1>5 DEF Withdraw
    <1>6. CASE Release(w)
        BY <1>6 DEF Release
    <1>7. CASE PlanArchive(w)
        BY <1>7
    <1>8. CASE OpenArchive(w)
        BY <1>8 DEF OpenArchive
    <1>9. CASE WriteArchive(w)
        BY <1>9 DEF WriteArchive
    <1>10. CASE DeleteRecord(w)
        BY <1>10 DEF DeleteRecord
    <1>. QED BY StepShape, <1>q, <1>1, <1>2, <1>3, <1>4, <1>5, <1>6, <1>7, <1>8, <1>9,
        <1>10 DEF Writing

\* What is eligible has run out: its deletion cannot let it contend again.
LEMMA PlanRetired ==
    ASSUME TypeOK, LedgerInv, ProcessInv, RetiredInv, ~late,
           NEW w \in Writers, PlanArchive(w), NEW t \in Tokens, t <= plan'[w].through
    PROVE  Retired(t)'
    <1>1. /\ plan'[w].through \in Eligible(w)
          /\ UNCHANGED <<clock, ledger, archive>>
        BY DEF PlanArchive, TypeOK
    <1>0. t \in Nat
        BY DEF Tokens
    <1>2. /\ clock \in Nat /\ time[w] \in Nat /\ time[w] <= clock
          /\ deadline[t] \in Nat /\ expiry[t] \in Nat
          /\ archive.through \in Nat
        BY NatThrough DEF TypeOK, ProcessInv, Sound
    <1>. SUFFICES Retired(t)
        BY <1>1 DEF Retired, ledger
    <1>3. CASE t <= archive.through
        BY <1>3 DEF RetiredInv
    <1>4. CASE ~(t <= archive.through)
        <2>1. archive.through < t
            BY <1>0, <1>2, <1>4
        <2>2. claims[t] = "written" /\ ~Contends(t, time[w])
            BY <1>1, <2>1 DEF Eligible, Archivable
        <2>3. CASE t \in released
            BY <2>3 DEF Retired
        <2>4. CASE t \notin released
            <3>1. /\ ~(expiry[t] > time[w])
                  /\ expiry[t] = 0 => ~(deadline[t] > time[w])
                BY <2>2, <2>4 DEF Contends, Active, Provisional, Candidate
            <3>2. expiry[t] <= clock /\ (expiry[t] = 0 => deadline[t] <= clock)
                BY <1>2, <3>1
            <3>3. expiry[t] # 0 /\ ProvisionalDuration <= LeaseDuration => deadline[t] <= expiry[t]
                BY <1>2, <2>1 DEF LedgerInv
            <3>4. ProvisionalDuration <= LeaseDuration => deadline[t] <= clock
                BY <1>2, <3>2, <3>3
            <3>. QED BY <3>2, <3>4 DEF Retired
        <2>. QED BY <2>3, <2>4
    <1>. QED BY <1>3, <1>4

LEMMA RetiredStep ==
    ASSUME TypeOK, TypeOK', TokensUnique, LedgerInv, ProcessInv, ArchivalInv, RetiredInv,
           NEW w \in Writers, StepOf(w), ~reissued'
    PROVE  RetiredInv'
    <1>. SUFFICES ASSUME ~late'
                  PROVE  /\ \A t \in Tokens : t <= archive'.through => Retired(t)'
                         /\ \A v \in Writers : Planning(v)' =>
                              \A t \in Tokens : t <= plan'[v].through => Retired(t)'
        BY DEF RetiredInv
    <1>1. ~late
        BY HistoryStep
    <1>2. ASSUME NEW t \in Tokens, t <= archive.through
          PROVE  Retired(t)'
        <2>1. Used(t) /\ Retired(t)
            BY <1>1, <1>2 DEF Used, RetiredInv
        <2>2. t \in Nat /\ archive.through \in Nat
            BY NatThrough DEF Tokens
        <2>3. claims[t] # "empty"
            BY <1>2, <2>2 DEF LedgerInv
        <2>. QED BY <2>1, <2>3, RetiredStays
    <1>3. ASSUME NEW v \in Writers, Planning(v), NEW t \in Tokens, t <= plan[v].through
          PROVE  Retired(t)'
        <2>1. Retired(t)
            BY <1>1, <1>3 DEF RetiredInv
        <2>2. Used(t) /\ claims[t] # "empty"
            BY <1>3 DEF ArchivalInv, Archiving
        <2>. QED BY <2>1, <2>2, RetiredStays
    <1>4. ASSUME NEW t \in Tokens, t <= archive'.through
          PROVE  Retired(t)'
        <2>1. CASE archive' = archive
            BY <1>2, <1>4, <2>1
        <2>2. CASE pc[w] = "writeArchive" /\ archive' = plan[w]
            BY <1>3, <1>4, <2>2 DEF Planning
        <2>. QED BY <2>1, <2>2, ArchiveStep
    <1>5. ASSUME NEW v \in Writers, Planning(v)', NEW t \in Tokens, t <= plan'[v].through
          PROVE  Retired(t)'
        <2>1. CASE v # w
            <3>1. Planning(v) /\ plan'[v] = plan[v]
                BY <1>5, <2>1, OthersUntouched DEF Planning
            <3>. QED BY <1>3, <1>5, <3>1
        <2>2. CASE v = w /\ PlanArchive(w)
            BY <1>1, <1>5, <2>2, PlanRetired
        <2>3. CASE v = w /\ Planning(w) /\ plan'[w] = plan[w]
            BY <1>3, <1>5, <2>3
        <2>. QED BY <1>5, <2>1, <2>2, <2>3, PlanStep
    <1>. QED BY <1>4, <1>5

-----------------------------------------------------------------------------
(***************************************************************************)
(* Elections.                                                              *)
(***************************************************************************)
\* An election that misses no claim being written finds every lower token dead.
LEMMA ElectionFindsDead ==
    ASSUME TypeOK, LedgerInv, ProcessInv, NEW w \in Writers,
           pc[w] = "elect", IsElected(token[w], time[w]),
           ~ \E u \in Tokens : u < token[w] /\ BeingWritten(u),
           NEW t \in Tokens, t < token[w]
    PROVE  Dead(t)
    <1>1. Sound(w) /\ Claimed(w)
        BY DEF ProcessInv, Claimed, Steps, AcquireSteps
    <1>2. token[w] \in Tokens /\ Used(token[w]) /\ time[w] <= clock
        BY <1>1 DEF Sound
    <1>3. Used(t)
        BY <1>2 DEF LedgerInv
    <1>4. ~Contends(t, time[w])
        <2>1. t \in Nat /\ token[w] \in Nat
            BY <1>2 DEF Tokens
        <2>2. Contends(t, time[w]) => token[w] <= t
            BY DEF IsElected
        <2>. QED BY <2>1, <2>2
    <1>5. /\ clock \in Nat /\ time[w] \in Nat
          /\ deadline[t] \in Nat /\ expiry[t] \in Nat
          /\ claims[t] \in {"absent", "empty", "written"}
        BY DEF TypeOK
    <1>6. CASE claims[t] = "absent"
        BY <1>3, <1>6 DEF Used, Dead
    <1>7. CASE claims[t] = "empty"
        BY <1>7 DEF Dead
    <1>8. CASE claims[t] = "written" /\ t \notin released
        <2>1. /\ ~(expiry[t] > time[w])
              /\ expiry[t] = 0 => ~(deadline[t] > time[w])
            BY <1>4, <1>8 DEF Contends, Active, Provisional, Candidate
        <2>2. expiry[t] <= clock /\ (expiry[t] = 0 => deadline[t] <= clock)
            BY <1>2, <1>5, <2>1
        <2>3. expiry[t] = 0 \/ expiry[t] > 0
            BY <1>5
        <2>. QED BY <1>8, <2>2, <2>3 DEF Dead
    <1>9. CASE t \in released
        BY <1>9 DEF Dead
    <1>. QED BY <1>5, <1>6, <1>7, <1>8, <1>9

LEMMA ElectionStep ==
    ASSUME TypeOK, TypeOK', TokensUnique, LedgerInv, ProcessInv, ArchivalInv, ElectionInv,
           NEW w \in Writers, StepOf(w), ~reissued'
    PROVE  ElectionInv'
    <1>. SUFFICES ASSUME ~late', ~blind'
                  PROVE  /\ \A t, u \in Tokens : t < u /\ Elected(u)' => Dead(t)'
                         /\ (owner # 0 => expiry[owner] > 0 \/ owner <= archive.through)'
        BY DEF ElectionInv
    <1>0. ~late /\ ~blind
        BY HistoryStep
    <1>1. ASSUME NEW t \in Tokens, NEW u \in Tokens, t < u, Elected(u)'
          PROVE  Dead(t)'
        <2>1. CASE Elected(u)
            BY <1>0, <1>1, <2>1, DeadStays DEF ElectionInv
        <2>2. CASE ~Elected(u)
            <3>1. expiry[u] = 0 /\ ~(pc[w] = "activate" /\ token[w] = u)
                <4>. expiry[u] \in Nat
                    BY DEF TypeOK
                <4>. QED BY <2>2 DEF Elected
            <3>2. expiry'[u] = 0
                BY <3>1, TokenStep
                   DEF Touched, Kept, Created, Written, Activated, Extended, Withdrawn, Deleted
            <3>3. PICK v \in Writers : pc'[v] = "activate" /\ token'[v] = u
                BY <1>1, <3>2 DEF Elected
            <3>4. v = w
                BY <2>2, <3>3, OthersUntouched DEF Elected
            <3>5. /\ pc[w] = "elect" /\ token[w] = u
                  /\ IsElected(token[w], time[w])
                  /\ ~ \E x \in Tokens : x < token[w] /\ BeingWritten(x)
                BY <3>3, <3>4, HistoryStep
            <3>6. Dead(t)
                BY <1>1, <3>5, ElectionFindsDead
            <3>. QED BY <3>6, DeadStays
        <2>. QED BY <2>1, <2>2
    <1>2. (owner # 0 => expiry[owner] > 0 \/ owner <= archive.through)'
        <2>. SUFFICES ASSUME NEW t \in Tokens, owner' = t
                      PROVE  expiry'[t] > 0 \/ t <= archive'.through
            BY DEF TypeOK
        <2>1. /\ expiry[t] \in Nat /\ time[w] \in Nat /\ clock \in Nat
              /\ LeaseDuration \in Nat /\ LeaseDuration > 0
            BY LeaseAssumption DEF TypeOK
        <2>2. CASE owner' = owner
            <3>1. expiry[t] > 0 \/ t <= archive.through
                <4>1. t # 0
                    BY DEF Tokens
                <4>. QED BY <1>0, <2>2, <4>1 DEF ElectionInv
            <3>2. t <= archive.through => t <= archive'.through
                <4>1. t \in Nat
                    BY DEF Tokens
                <4>. QED BY <4>1, UsedStays
            <3>3. Deleted(t) => t <= archive.through
                BY DEF Deleted
            <3>4. time[w] + LeaseDuration > 0
                BY <2>1
            <3>5. expiry[t] > 0 /\ ~Deleted(t) => expiry'[t] > 0
                BY <2>1, <3>4, TokenStep
                   DEF Touched, Kept, Created, Written, Activated, Extended, Withdrawn
            <3>. QED BY <3>1, <3>2, <3>3, <3>5
        <2>3. CASE owner' # owner
            <3>1. clock < expiry[t] /\ expiry'[t] = expiry[t]
                BY <2>3, HistoryStep DEF ledger
            <3>. QED BY <2>1, <3>1
        <2>. QED BY <2>2, <2>3
    <1>. QED BY <1>1, <1>2

-----------------------------------------------------------------------------
(***************************************************************************)
(* The theorems.                                                           *)
(***************************************************************************)
LEMMA InvInit == Init => IInv
    <1>. SUFFICES ASSUME Init PROVE IInv
        OBVIOUS
    <1>1. TypeOK BY TypeInit
    <1>2. TokensUnique BY DEF Init, TokensUnique, Claimed
    <1>0. Tokens \subseteq Nat \ {0}
        BY DEF Tokens
    <1>a. archive.through = 0 /\ archive.highest = 0
        BY DEF Init, NoArchive
    <1>u. \A t \in Tokens : ~Used(t) /\ ~(t <= archive.through)
        BY <1>0, <1>a DEF Init, Used
    <1>3. LedgerInv BY <1>a, <1>u DEF Init, LedgerInv
    <1>4. ProcessInv BY DEF Init, ProcessInv, Sound, Claimed
    <1>5. ArchivalInv BY DEF Init, ArchivalInv, Archiving, Planning
    <1>6. RetiredInv BY <1>u DEF Init, RetiredInv, Planning
    <1>7. ElectionInv BY DEF Init, ElectionInv, Elected
    <1>. QED BY <1>1, <1>2, <1>3, <1>4, <1>5, <1>6, <1>7 DEF IInv, Core

LEMMA InvStutters ==
    ASSUME IInv, UNCHANGED vars
    PROVE  IInv'
    <1>. USE DEF vars, ledger, archival, history
    <1>1. TypeOK' BY DEF IInv, TypeOK
    <1>2. TokensUnique' BY DEF IInv, TokensUnique, Claimed
    <1>3. ASSUME ~reissued' PROVE Core'
        <2>. Core BY <1>3 DEF IInv
        <2>1. LedgerInv' BY DEF Core, LedgerInv, Used
        <2>2. ProcessInv' BY DEF Core, ProcessInv, Sound, Used, Claimed
        <2>3. ArchivalInv' BY DEF Core, ArchivalInv, Archiving, Planning, Used
        <2>4. RetiredInv' BY DEF Core, RetiredInv, Planning, Retired
        <2>5. ElectionInv' BY DEF Core, ElectionInv, Elected, Dead, BeingWritten
        <2>. QED BY <2>1, <2>2, <2>3, <2>4, <2>5 DEF Core
    <1>. QED BY <1>1, <1>2, <1>3 DEF IInv

LEMMA InvStep == IInv /\ [Next]_vars => IInv'
    <1>. SUFFICES ASSUME IInv, [Next]_vars PROVE IInv'
        OBVIOUS
    <1>1. CASE UNCHANGED vars
        BY <1>1, InvStutters
    <1>2. ASSUME NEW w \in Writers, StepOf(w)
          PROVE  IInv'
        <2>. /\ TypeOK /\ TokensUnique
             /\ LedgerInv /\ ProcessInv /\ ArchivalInv /\ RetiredInv /\ ElectionInv
            BY <1>2, StepStarts DEF IInv, Core
        <2>1. TypeOK' BY <1>2, TypeStep
        <2>2. TokensUnique' BY <1>2, UniqueStep
        <2>3. ASSUME ~reissued' PROVE Core'
            <3>1. LedgerInv' BY <1>2, <2>1, <2>3, LedgerStep
            <3>2. ProcessInv' BY <1>2, <2>1, <2>3, ProcessStep
            <3>3. ArchivalInv' BY <1>2, <2>3, ArchivalStep
            <3>4. RetiredInv' BY <1>2, <2>1, <2>3, RetiredStep
            <3>5. ElectionInv' BY <1>2, <2>1, <2>3, ElectionStep
            <3>. QED BY <3>1, <3>2, <3>3, <3>4, <3>5 DEF Core
        <2>. QED BY <2>1, <2>2, <2>3 DEF IInv
    <1>. QED BY <1>1, <1>2 DEF Next, StepOf

\* The inductive invariant holds in every reachable state of every instance.
THEOREM InvariantHolds == Spec => []IInv
    BY InvInit, InvStep, PTL DEF Spec

\* Every variable keeps its type: the ledger, the archive and the processes are
\* only ever in the states that the code distinguishes.
THEOREM TypeCorrect == Spec => []TypeOK
    BY InvariantHolds, PTL DEF IInv

\* Exclusive creation gives every claim one owner, whatever the interleaving of
\* acquisitions and archivals and whoever crashes.
THEOREM TokensNeverShared == Spec => []TokensUnique
    BY InvariantHolds, PTL DEF IInv

\* A retired token is not active, and where a provisional claim does not outlive
\* a lease it does not contend at all.
LEMMA RetiredIsOut ==
    ASSUME TypeOK, NEW t \in Tokens, Retired(t)
    PROVE  /\ ~Active(t, clock)
           /\ ProvisionalDuration <= LeaseDuration => ~Contends(t, clock)
    <1>1. clock \in Nat /\ expiry[t] \in Nat /\ deadline[t] \in Nat
        BY DEF TypeOK
    <1>2. CASE ~Candidate(t)
        BY <1>2 DEF Contends, Active, Provisional
    <1>3. CASE Candidate(t)
        <2>1. /\ expiry[t] <= clock
              /\ ProvisionalDuration <= LeaseDuration => deadline[t] <= clock
            BY <1>3 DEF Retired, Candidate
        <2>2. ~(expiry[t] > clock) /\ (ProvisionalDuration <= LeaseDuration => ~(deadline[t] > clock))
            BY <1>1, <2>1
        <2>. QED BY <2>2 DEF Contends, Active, Provisional
    <1>. QED BY <1>2, <1>3

\* Two unexpired leases are never held at once in an orderly run.
LEMMA Exclusion == IInv => OrderlyExclusion
    <1>. SUFFICES ASSUME IInv, Orderly,
                         NEW v \in Writers, NEW w \in Writers, Holds(v), Holds(w)
                  PROVE  v = w
        BY DEF OrderlyExclusion
    <1>0. /\ TypeOK /\ TokensUnique /\ ~late /\ ~blind /\ ~reissued
          /\ ProcessInv /\ RetiredInv /\ ElectionInv
        BY DEF IInv, Core, Orderly
    <1>1. ASSUME NEW x \in Writers, Holds(x)
          PROVE  /\ Claimed(x) /\ token[x] \in Tokens
                 /\ claims[token[x]] = "written" /\ token[x] \notin released
                 /\ expiry[token[x]] > clock /\ expiry[token[x]] > 0
                 /\ ~(token[x] <= archive.through)
        <2>1. Claimed(x)
            BY <1>1 DEF Holds, Claimed, HandleSteps, Steps
        <2>2. token[x] \in Tokens
            BY <1>0, <2>1 DEF ProcessInv, Sound
        <2>3. expiry[token[x]] \in Nat /\ clock \in Nat
            BY <1>0, <2>2 DEF TypeOK
        <2>4. Active(token[x], clock)
            BY <1>1 DEF Holds
        <2>5. ~(token[x] <= archive.through)
            BY <1>0, <2>2, <2>4, RetiredIsOut DEF RetiredInv
        <2>. QED BY <2>1, <2>2, <2>3, <2>4, <2>5 DEF Active, Candidate
    <1>2. ASSUME NEW x \in Writers, NEW y \in Writers, Holds(x), Holds(y)
          PROVE  ~ (token[x] < token[y])
        <2>. SUFFICES ASSUME token[x] < token[y] PROVE FALSE
            OBVIOUS
        <2>1. Dead(token[x])
            BY <1>0, <1>1, <1>2 DEF ElectionInv, Elected
        <2>2. expiry[token[x]] \in Nat /\ clock \in Nat
            BY <1>0, <1>1, <1>2 DEF TypeOK
        <2>3. ~(expiry[token[x]] <= clock) /\ expiry[token[x]] # 0
            BY <1>1, <1>2, <2>2
        <2>. QED BY <1>1, <1>2, <2>1, <2>3 DEF Dead
    <1>3. token[v] = token[w]
        <2>1. token[v] \in Nat /\ token[w] \in Nat
            BY <1>1 DEF Tokens
        <2>. QED BY <1>2, <2>1
    <1>. QED BY <1>0, <1>1, <1>3 DEF TokensUnique

\* However elections, renewals, releases, archivals and crashes interleave, an
\* orderly run has one holder at a time.
THEOREM ExclusionHolds == Spec => []OrderlyExclusion
    BY InvariantHolds, Exclusion, PTL

\* Wherever an archival was interrupted, no archived token contends again.
LEMMA Archived == IInv => ArchivedStaysOut
    <1>. SUFFICES ASSUME IInv, ~late, ~reissued, ProvisionalDuration <= LeaseDuration,
                         NEW t \in Tokens, t <= archive.through
                  PROVE  ~Contends(t, clock)
        BY DEF ArchivedStaysOut
    <1>1. TypeOK /\ Retired(t)
        BY DEF IInv, Core, RetiredInv
    <1>. QED BY <1>1, RetiredIsOut

\* Deleting the records of archived tokens, in any interrupted order, never
\* brings one of them back.
THEOREM ArchivedHolds == Spec => []ArchivedStaysOut
    BY InvariantHolds, Archived, PTL

\* In an orderly run nobody is confirmed below a token confirmed before.
LEMMA Succession ==
    ASSUME IInv, IInv', [Next]_vars, Orderly'
    PROVE  owner' >= owner
    <1>0. owner \in Nat /\ owner' \in Nat
        <2>1. owner \in Tokens \cup {0} /\ owner' \in Tokens \cup {0}
            BY DEF IInv, TypeOK
        <2>. QED BY <2>1 DEF Tokens
    <1>1. CASE owner' = owner
        BY <1>0, <1>1
    <1>2. CASE owner' # owner
        <2>1. PICK w \in Writers : StepOf(w)
            BY <1>2 DEF Next, StepOf, vars, history
        <2>2. CASE owner = 0
            BY <1>0, <2>2
        <2>3. CASE owner # 0
            <3>. SUFFICES ASSUME owner' < owner PROVE FALSE
                BY <1>0
            <3>0. ~reissued /\ ~late' /\ ~blind'
                BY <2>1, StepStarts DEF Orderly
            <3>1. TypeOK /\ ProcessInv /\ RetiredInv /\ ElectionInv /\ owner \in Tokens
                BY <2>3, <3>0 DEF IInv, Core, TypeOK
            <3>2. /\ ~late /\ ~blind
                  /\ owner' \in Tokens /\ owner' \notin released
                  /\ ~(owner' <= archive.through)
                  /\ claims[owner'] = "written" /\ clock < expiry[owner']
                BY <1>2, <2>1, <3>0, <3>1, HistoryStep
            <3>3. expiry[owner] > 0 \/ owner <= archive.through
                BY <2>3, <3>1, <3>2 DEF ElectionInv
            <3>4. clock \in Nat /\ expiry[owner'] \in Nat /\ archive.through \in Nat
                BY <3>1, <3>2, NatThrough DEF TypeOK
            <3>5. CASE owner <= archive.through
                BY <1>0, <3>2, <3>4, <3>5
            <3>6. CASE expiry[owner] > 0
                <4>1. Dead(owner')
                    BY <3>1, <3>2, <3>6 DEF ElectionInv, Elected
                <4>2. ~(expiry[owner'] <= clock) /\ expiry[owner'] # 0
                    BY <3>2, <3>4
                <4>. QED BY <3>2, <4>1, <4>2 DEF Dead
            <3>. QED BY <3>3, <3>5, <3>6
        <2>. QED BY <2>2, <2>3
    <1>. QED BY <1>1, <1>2

\* Confirmed ownership only moves to higher fencing tokens in an orderly run.
THEOREM SuccessionHolds == Spec => OrderlySuccession
    <1>1. IInv /\ IInv' /\ [Next]_vars => [Orderly' => owner' >= owner]_vars
        BY Succession
    <1>. QED BY <1>1, InvariantHolds, PTL DEF Spec, OrderlySuccession

=============================================================================
