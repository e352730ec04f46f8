---------------------------- MODULE WriterLease ----------------------------
(***************************************************************************)
(* The writer lease (writer-lease-acquire.js, writer-lease-inspection.js,  *)
(* writer-lease-lifecycle.js, writer-lease-records.js) and the archival of *)
(* its ledger (lease-ledger-archive.js): records in a shared directory     *)
(* from which several processes agree who may write, with a fencing token  *)
(* per attempt and expiry on a logical clock.                              *)
(*                                                                         *)
(* Every await is a point where another process may run, and a process may *)
(* exit at each of them.  An operation reads the logical clock once, at    *)
(* its start, and judges the ledger by that time at every later step.      *)
(*                                                                         *)
(* One inspection is one step.  The code reads the directories one by one, *)
(* but it depends on the other process only: each of that one's tokens is  *)
(* dead before the next is made, so whatever it sees held at one instant.  *)
(* (With three processes that need not be so; the runs have two.)          *)
(*                                                                         *)
(* A torn activation, heartbeat or release record is invalid and counts as *)
(* absent; an archival refuses it.                                         *)
(*                                                                         *)
(* Left out: an inspection that overlaps the deletions of an archival may  *)
(* see the claim of a token and no longer its release (a spurious refusal, *)
(* not a second owner); old archive files are deleted, so that an archiver *)
(* suspended for several archivals may create one of those again; and the  *)
(* archival of the clock that follows, which LeaseClock models.            *)
(***************************************************************************)
EXTENDS Naturals, FiniteSets

CONSTANTS
    Writers,              \* the processes that use the store
    LeaseDuration,        \* leaseDurationMs
    ProvisionalDuration,  \* provisionalDurationMs
    RetainRecent,         \* retainRecentTokens of an archival
    MaxToken,             \* bound: claims ever made
    MaxTime               \* bound: the logical clock

ASSUME LeaseAssumption ==
    /\ LeaseDuration \in Nat \ {0}
    /\ ProvisionalDuration \in Nat \ {0}
    /\ RetainRecent \in Nat \ {0}
    /\ MaxToken \in Nat
    /\ MaxTime \in Nat

Tokens == 1..MaxToken

VARIABLES
    clock,      \* logical time of the latest clock observation
    claims,     \* claim file of each token: absent, created but empty, written
    deadline,   \* provisional expiry written in the claim
    expiry,     \* expiry of the latest activation or heartbeat record, 0 if none
    released,   \* tokens with a release record
    archive,    \* what the latest ledger archive says
    torn,       \* the file of a later archive exists and is not written
    plan,       \* the archive that the running archival of a process writes
    doomed,     \* the records it is still to delete
    pc,         \* the next step of each process
    time,       \* logical time its running operation observed
    token,      \* the token of its claim or of its handle, 0 if none
    owner,      \* history: the token last confirmed as current owner
    late,       \* history: a step was taken after the time it relied on ran out
    blind,      \* history: an election missed a lower claim still being written
    reissued    \* history: a token was issued again after its archival

ledger == <<claims, deadline, expiry, released>>
archival == <<archive, torn, plan, doomed>>
history == <<owner, late, blind, reissued>>
vars == <<clock, ledger, archival, pc, time, token, history>>

AcquireSteps == {"preflight", "allocate", "create", "write", "elect", "activate",
                 "verify", "recover", "withdraw"}
HandleSteps  == {"ready", "assert", "renew", "heartbeat", "inspect", "release",
                 "archive", "scan", "openArchive", "writeArchive", "delete"}
Steps == {"idle"} \cup AcquireSteps \cup HandleSteps

\* An archive: its first and its last archived token, and the highest allocated.
Archives == [from : Tokens \cup {0}, through : Tokens \cup {0}, highest : Tokens \cup {0}]
NoArchive == [from |-> 0, through |-> 0, highest |-> 0]

\* The files of a token in the order of their paths, which is that of deletion.
\* (The base lies between the first two and heartbeats after the second; neither
\* says more about the token once the one before is gone.)
Activation == 1
Claim == 2
ReleaseFile == 3
Files == Tokens \X {Activation, Claim, ReleaseFile}

Init ==
    /\ clock = 0
    /\ claims = [t \in Tokens |-> "absent"]
    /\ deadline = [t \in Tokens |-> 0]
    /\ expiry = [t \in Tokens |-> 0]
    /\ released = {}
    /\ archive = NoArchive
    /\ torn = FALSE
    /\ plan = [w \in Writers |-> NoArchive]
    /\ doomed = [w \in Writers |-> {}]
    /\ pc = [w \in Writers |-> "idle"]
    /\ time = [w \in Writers |-> 0]
    /\ token = [w \in Writers |-> 0]
    /\ owner = 0
    /\ late = FALSE
    /\ blind = FALSE
    /\ reissued = FALSE

-----------------------------------------------------------------------------
\* inspectWriterLeaseStore, as of logical time T.  An empty or half-written
\* claim is an invalid record: it names a token but is no candidate.
Candidate(t) == claims[t] = "written" /\ t \notin released

Active(t, T)      == Candidate(t) /\ expiry[t] > T
Provisional(t, T) == Candidate(t) /\ expiry[t] = 0 /\ deadline[t] > T
Contends(t, T)    == Active(t, T) \/ Provisional(t, T)

\* The highest active token is the authoritative one.
IsCurrent(t, T) ==
    /\ Active(t, T)
    /\ \A u \in Tokens : Active(u, T) => u <= t

\* Fault: the election looks at activated leases only.
LowestActive(t, T) ==
    /\ Contends(t, T)
    /\ \A u \in Tokens : Active(u, T) => t <= u

\* The lowest active or provisional token wins the election.
IsElected(t, T) ==
    /\ Contends(t, T)
    /\ \A u \in Tokens : Contends(u, T) => t <= u

\* A claim that its process is about to write is invisible to the election.
BeingWritten(t) == \E w \in Writers : pc[w] = "write" /\ token[w] = t

-----------------------------------------------------------------------------
\* Two leases under one token would share their files: the run ends there.
At(w, step) == pc[w] = step /\ ~reissued

Step(w, from, to) == At(w, from) /\ pc' = [pc EXCEPT ![w] = to]

\* What process w had under way is gone with it.
Forget(w) ==
    /\ plan' = [plan EXCEPT ![w] = NoArchive]
    /\ doomed' = [doomed EXCEPT ![w] = {}]
    /\ UNCHANGED <<archive, torn>>
    /\ pc' = [pc EXCEPT ![w] = "idle"]
    /\ token' = [token EXCEPT ![w] = 0]
    /\ time' = [time EXCEPT ![w] = 0]

\* resolveWriterLeaseTime: an observation of the clock is later than any before.
Observe(w, from, to) ==
    /\ Step(w, from, to)
    /\ \E T \in (clock + 1)..MaxTime : clock' = T /\ time' = [time EXCEPT ![w] = T]
    /\ UNCHANGED <<ledger, archival, token, history>>

BeginAcquire(w) == Observe(w, "idle", "preflight")
BeginAssert(w)  == Observe(w, "ready", "assert")
BeginRenew(w)   == Observe(w, "ready", "renew")
BeginRelease(w) == Observe(w, "ready", "inspect")
BeginArchive(w) == Observe(w, "ready", "archive")

\* Fault: a refused acquisition releases as well.
ReleaseRefused(w) ==
    /\ At(w, "preflight")
    /\ \E t \in Tokens : Active(t, time[w])
    /\ released' = released \cup {token[w]}
    /\ Forget(w)
    /\ UNCHANGED <<clock, claims, deadline, expiry, history>>

\* acquireWriterLease throws WRITER_LEASE_HELD before it has written anything.
PreflightHeld(w) ==
    /\ At(w, "preflight")
    /\ ~torn
    /\ \E t \in Tokens : Active(t, time[w])
    /\ Forget(w)
    /\ UNCHANGED <<clock, ledger, history>>

PreflightFree(w) ==
    /\ ~torn
    /\ ~ \E t \in Tokens : Active(t, time[w])
    /\ Step(w, "preflight", "allocate")
    /\ UNCHANGED <<clock, ledger, archival, time, token, history>>

\* The tokens that some claim file names, valid or not.
Named == {t \in Tokens : claims[t] # "absent"}

\* highestLeaseFencingToken.
Highest(t) ==
    /\ t \in Named \cup {archive.highest}
    /\ \A u \in Named \cup {archive.highest} : u <= t

\* allocateWriterLeaseClaim: one more than the highest token named by a file or
\* by the archive, created exclusively; EEXIST starts over.
Allocate(w) ==
    /\ ~torn
    /\ Step(w, "allocate", "create")
    /\ \E t \in Tokens : Highest(t - 1) /\ token' = [token EXCEPT ![w] = t]
    /\ UNCHANGED <<clock, ledger, archival, time, history>>

\* Fault: the claim file is opened with 'w'.
CreateAnyway(w) ==
    /\ At(w, "create")
    /\ claims' = [claims EXCEPT ![token[w]] = "empty"]
    /\ pc' = [pc EXCEPT ![w] = "write"]
    /\ UNCHANGED <<clock, deadline, expiry, released, archival, time, token, history>>

CreateClaim(w) ==
    /\ At(w, "create")
    /\ IF claims[token[w]] = "absent"
         THEN /\ claims' = [claims EXCEPT ![token[w]] = "empty"]
              /\ pc' = [pc EXCEPT ![w] = "write"]
              /\ reissued' = (reissued \/ token[w] <= archive.through)
              /\ UNCHANGED token
         ELSE /\ pc' = [pc EXCEPT ![w] = "allocate"]
              /\ token' = [token EXCEPT ![w] = 0]
              /\ UNCHANGED <<claims, reissued>>
    /\ UNCHANGED <<clock, deadline, expiry, released, archival, time, owner, late, blind>>

WriteClaim(w) ==
    /\ Step(w, "write", "elect")
    /\ claims' = [claims EXCEPT ![token[w]] = "written"]
    /\ deadline' = [deadline EXCEPT ![token[w]] = time[w] + ProvisionalDuration]
    /\ UNCHANGED <<clock, expiry, released, archival, time, token, history>>

\* What was valid when w read the clock has run out by now, or has even been
\* archived as having run out.
RunOut(w, limit) ==
    \/ time[w] < limit /\ limit <= clock
    \/ token[w] <= archive.through

Elect(w) ==
    /\ ~torn
    /\ Step(w, "elect", IF IsElected(token[w], time[w]) THEN "activate" ELSE "withdraw")
    /\ late' = (late \/ RunOut(w, deadline[token[w]]))
    /\ blind' = (blind \/ \E t \in Tokens : t < token[w] /\ BeingWritten(t))
    /\ UNCHANGED <<clock, ledger, archival, time, token, owner, reissued>>

Activate(w) ==
    /\ Step(w, "activate", "verify")
    /\ expiry' = [expiry EXCEPT ![token[w]] = time[w] + LeaseDuration]
    /\ late' = (late \/ RunOut(w, deadline[token[w]]))
    /\ UNCHANGED <<clock, claims, deadline, released, archival, time, token, owner, blind,
                   reissued>>

VerifyActivation(w) ==
    /\ ~torn
    /\ Step(w, "verify", IF IsCurrent(token[w], time[w]) THEN "recover" ELSE "withdraw")
    /\ late' = (late \/ RunOut(w, expiry[token[w]]))
    /\ UNCHANGED <<clock, ledger, archival, time, token, owner, blind, reissued>>

\* recoverAtomicWorldSnapshot succeeds, the base is recorded and the handle
\* returned: w is told that it owns the lease.
RecoverBase(w) ==
    /\ Step(w, "recover", "ready")
    /\ owner' = token[w]
    /\ late' = (late \/ RunOut(w, expiry[token[w]]))
    /\ UNCHANGED <<clock, ledger, archival, time, token, blind, reissued>>

RecoverFails(w) ==
    /\ Step(w, "recover", "withdraw")
    /\ UNCHANGED <<clock, ledger, archival, time, token, history>>

\* The release record of a lost election, a lost verification or a failed
\* recovery; the acquisition then throws.
Withdraw(w) ==
    /\ At(w, "withdraw")
    /\ released' = released \cup {token[w]}
    /\ Forget(w)
    /\ UNCHANGED <<clock, claims, deadline, expiry, history>>

-----------------------------------------------------------------------------
\* Fault: an assertion ignores the expiry of its own record.
OwnUnreleased(t, T) == Candidate(t)

\* assertWriterLease.
Owns(t, T) == IsCurrent(t, T)

\* What every operation on a handle starts with; a caller whose assertion failed
\* still has the handle and may try again.
AssertThen(w, from, to) ==
    /\ ~torn
    /\ Step(w, from, IF Owns(token[w], time[w]) THEN to ELSE "ready")
    /\ IF Owns(token[w], time[w])
         THEN owner' = token[w] /\ late' = (late \/ RunOut(w, expiry[token[w]]))
         ELSE UNCHANGED <<owner, late>>
    /\ UNCHANGED <<clock, ledger, archival, time, token, blind, reissued>>

AssertLease(w)   == AssertThen(w, "assert", "ready")
RenewAssert(w)   == AssertThen(w, "renew", "heartbeat")
ArchiveAssert(w) == AssertThen(w, "archive", "scan")

\* The heartbeat carries the asserted time; without an activation it counts for
\* nothing.
Heartbeat(w) ==
    /\ Step(w, "heartbeat", "ready")
    /\ expiry' = [expiry EXCEPT ![token[w]] = IF @ = 0 THEN 0 ELSE time[w] + LeaseDuration]
    /\ late' = (late \/ RunOut(w, expiry[token[w]]))
    /\ UNCHANGED <<clock, claims, deadline, released, archival, time, token, owner, blind,
                   reissued>>

\* releaseWriterLease writes its record whether or not the lease is current.
InspectRelease(w) ==
    /\ ~torn
    /\ Step(w, "inspect", "release")
    /\ UNCHANGED <<clock, ledger, archival, time, token, history>>

Release(w) ==
    /\ At(w, "release")
    /\ released' = released \cup {token[w]}
    /\ Forget(w)
    /\ UNCHANGED <<clock, claims, deadline, expiry, history>>

-----------------------------------------------------------------------------
\* archiveLeaseLedgerRecords.

\* Fault: the records of a token are deleted in the opposite order.
LastFileFirst(f, g) == f[1] < g[1] \/ (f[1] = g[1] /\ f[2] >= g[2])

\* The files are deleted token by token, and of each in the order of their paths.
Before(f, g) == f[1] < g[1] \/ (f[1] = g[1] /\ f[2] <= g[2])

\* tokenStatus: released, or run out by now; an invalid claim is neither.
Archivable(t, T) == claims[t] = "written" /\ ~Contends(t, T)

\* The tokens after the last archive, except the most recent ones, up to the
\* archiver's own or the first that may still run.
Eligible(w) ==
    {t \in Tokens :
        /\ t > archive.through
        /\ \E h \in Tokens : Highest(h) /\ t + RetainRecent <= h
        /\ \A u \in Tokens : archive.through < u /\ u <= t =>
              u # token[w] /\ Archivable(u, time[w])}

FilesOf(t) ==
    {f \in Files :
        /\ f[1] = t
        /\ \/ f[2] = Activation /\ expiry[t] > 0
           \/ f[2] = Claim
           \/ f[2] = ReleaseFile /\ t \in released}

NothingToArchive(w) ==
    /\ ~torn
    /\ Eligible(w) = {}
    /\ Step(w, "scan", "ready")
    /\ UNCHANGED <<clock, ledger, archival, time, token, history>>

\* One of their other records is torn: the archival throws.
ArchiveRefuses(w) ==
    /\ ~torn
    /\ Eligible(w) # {}
    /\ Step(w, "scan", "ready")
    /\ UNCHANGED <<clock, ledger, archival, time, token, history>>

PlanArchive(w) ==
    /\ ~torn
    /\ Step(w, "scan", "openArchive")
    /\ \E a \in Archives :
          /\ a.from = archive.through + 1
          /\ a.through \in Eligible(w)
          /\ \A t \in Eligible(w) : t <= a.through
          /\ Highest(a.highest)
          /\ plan' = [plan EXCEPT ![w] = a]
    /\ doomed' = [doomed EXCEPT ![w] = UNION {FilesOf(t) : t \in Eligible(w)}]
    /\ UNCHANGED <<clock, ledger, archive, torn, time, token, history>>

\* The next archive file is created exclusively, then written.
OpenArchive(w) ==
    /\ At(w, "openArchive")
    /\ IF torn \/ archive.through + 1 # plan[w].from
         THEN /\ pc' = [pc EXCEPT ![w] = "ready"]
              /\ plan' = [plan EXCEPT ![w] = NoArchive]
              /\ doomed' = [doomed EXCEPT ![w] = {}]
              /\ UNCHANGED torn
         ELSE /\ pc' = [pc EXCEPT ![w] = "writeArchive"]
              /\ torn' = TRUE
              /\ UNCHANGED <<plan, doomed>>
    /\ UNCHANGED <<clock, ledger, archive, time, token, history>>

WriteArchive(w) ==
    /\ Step(w, "writeArchive", "delete")
    /\ archive' = plan[w]
    /\ torn' = FALSE
    /\ plan' = [plan EXCEPT ![w] = NoArchive]
    /\ UNCHANGED <<clock, ledger, doomed, time, token, history>>

DeleteRecord(w) ==
    /\ At(w, "delete")
    /\ \E f \in doomed[w] :
          /\ \A g \in doomed[w] : Before(f, g)
          /\ expiry' = IF f[2] = Activation THEN [expiry EXCEPT ![f[1]] = 0] ELSE expiry
          /\ claims' = IF f[2] = Claim THEN [claims EXCEPT ![f[1]] = "absent"] ELSE claims
          /\ deadline' = IF f[2] = Claim THEN [deadline EXCEPT ![f[1]] = 0] ELSE deadline
          /\ released' = IF f[2] = ReleaseFile THEN released \ {f[1]} ELSE released
          /\ doomed' = [doomed EXCEPT ![w] = @ \ {f}]
    /\ UNCHANGED <<clock, archive, torn, plan, pc, time, token, history>>

EndArchive(w) ==
    /\ doomed[w] = {}
    /\ Step(w, "delete", "ready")
    /\ UNCHANGED <<clock, ledger, archival, time, token, history>>

\* LEASE_LEDGER_ARCHIVE_CORRUPT: while the latest archive is not written,
\* whatever looks at the ledger throws.
ArchiveUnreadable(w) ==
    /\ torn /\ ~reissued
    /\ \/ pc[w] \in {"preflight", "allocate", "elect", "verify"} /\ Forget(w)
       \/ /\ pc[w] \in {"assert", "renew", "inspect", "archive", "scan"}
          /\ pc' = [pc EXCEPT ![w] = "ready"]
          /\ UNCHANGED <<archival, time, token>>
    /\ UNCHANGED <<clock, ledger, history>>

\* The process exits; what it has written stays.
Crash(w) ==
    /\ pc[w] # "idle" /\ ~reissued
    /\ Forget(w)
    /\ UNCHANGED <<clock, ledger, history>>

-----------------------------------------------------------------------------
Acquire(w) ==
    \/ BeginAcquire(w) \/ PreflightHeld(w) \/ PreflightFree(w)
    \/ Allocate(w) \/ CreateClaim(w) \/ WriteClaim(w)
    \/ Elect(w) \/ Activate(w) \/ VerifyActivation(w)
    \/ RecoverBase(w) \/ RecoverFails(w) \/ Withdraw(w)

UseHandle(w) ==
    \/ BeginAssert(w) \/ AssertLease(w)
    \/ BeginRenew(w) \/ RenewAssert(w) \/ Heartbeat(w)
    \/ BeginRelease(w) \/ InspectRelease(w) \/ Release(w)

ArchiveLedger(w) ==
    \/ BeginArchive(w) \/ ArchiveAssert(w)
    \/ NothingToArchive(w) \/ ArchiveRefuses(w) \/ PlanArchive(w)
    \/ OpenArchive(w) \/ WriteArchive(w) \/ DeleteRecord(w) \/ EndArchive(w)

Next ==
    \E w \in Writers :
        Acquire(w) \/ UseHandle(w) \/ ArchiveLedger(w) \/ ArchiveUnreadable(w) \/ Crash(w)

Spec == Init /\ [][Next]_vars

-----------------------------------------------------------------------------
TypeOK ==
    /\ clock \in Nat
    /\ claims \in [Tokens -> {"absent", "empty", "written"}]
    /\ deadline \in [Tokens -> Nat]
    /\ expiry \in [Tokens -> Nat]
    /\ released \subseteq Tokens
    /\ archive \in Archives
    /\ torn \in BOOLEAN
    /\ plan \in [Writers -> Archives]
    /\ doomed \in [Writers -> SUBSET Files]
    /\ pc \in [Writers -> Steps]
    /\ time \in [Writers -> Nat]
    /\ token \in [Writers -> Tokens \cup {0}]
    /\ owner \in Tokens \cup {0}
    /\ late \in BOOLEAN
    /\ blind \in BOOLEAN
    /\ reissued \in BOOLEAN

\* The steps at which w has a claim of its own in the ledger.
Claimed(w) == pc[w] \in Steps \ {"idle", "preflight", "allocate", "create"}

\* However the reads and the exclusive creations of concurrent acquisitions
\* interleave, and whoever crashes, no two processes work under one token.  Only
\* an allocation suspended while its token was given, used, archived and deleted
\* gives it again; that happens, although the documents exclude it.
TokensUnique ==
    ~reissued =>
        \A v, w \in Writers : Claimed(v) /\ Claimed(w) /\ token[v] = token[w] => v = w

\* No step has outlived the time it relied on, no election has missed a claim
\* still being written and no token has been issued again.
Orderly == ~late /\ ~blind /\ ~reissued

\* w was given the lease and its records say that it still runs.
Holds(w) == pc[w] \in HandleSteps /\ Active(token[w], clock)

\* In an orderly run at most one process holds an unexpired lease.
OrderlyExclusion ==
    Orderly => \A v, w \in Writers : Holds(v) /\ Holds(w) => v = w

\* In an orderly run ownership only ever moves to higher tokens: nobody is
\* confirmed with a token below one that was confirmed before.
OrderlySuccession == [][Orderly' => owner' >= owner]_vars

\* An archived token never contends again, wherever the archival was interrupted
\* between the deletions: no later inspection takes a lease that was released or
\* had run out for one that still runs.
ArchivedStaysOut ==
    ~late /\ ~reissued /\ ProvisionalDuration <= LeaseDuration =>
        \A t \in Tokens : t <= archive.through => ~Contends(t, clock)

\* "old lease handles fail after a higher active token appears": no assertion
\* or renewal succeeds with a token below one that was confirmed before, even if
\* an election has read the ledger while a claim was being written.
OldHandlesFail ==
    [][~late' /\ ~reissued' /\ owner' < owner =>
         \A w \in Writers : pc[w] \in {"assert", "renew"} => token[w] # owner']_vars

=============================================================================
