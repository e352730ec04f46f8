# Verification of axm-EchoWorld

TLA+ models of the parts of EchoWorld whose correctness depends on crashes, on
concurrent processes or on long sequences of calls, model-checked with TLC, and
theorems about them proved with TLAPS. Paths such as `src/persistence/recovery.js`
are paths of the repository; a module's comment names the source it models.

    tlc -config AtomicStore_crash.cfg MCAtomicStore     one run
    tlapm AtomicStore_proofs.tla                        the proofs of one module

## 1. The system

EchoWorld is a deterministic grid of cells. Events change canonical truth; cells
remember events, pass signals to their neighbours and compact what they remember.
The world is saved as one snapshot with a recoverable on-disk protocol, by one of
several processes that agree on a writer through files alone.

Two kinds of concurrency must be told apart. Everything in `src/core`,
`src/handoff`, `src/memory` and `src/specialists` is synchronous: one call runs to
its end, and the hard part is what a long sequence of legal calls, each stopping
half way through its budget, adds up to. Everything in `src/persistence` is
asynchronous file-system code run by several processes: every `await` is a point
where another process may act or this one may exit, and only the files survive.

| Component | State | Operations | What is hard about it | What makes it correct |
|---|---|---|---|---|
| Atomic snapshot store: `atomic-store.js`, `recovery.js`, `snapshot-candidates.js`, `fs-durability.js`, `snapshot-envelope.js` | primary, backup, temp, recovery temp, backup temp | save, load, recover (inspect, select, promote, clean up) | exit at any call, in a save or in the recovery from an earlier exit; damage | an acknowledged save survives; candidates never conflict; one generation bounds the loss to damage |
| Snapshot lineage: `snapshot-lineage.js` | one record file per snapshot | reconcile, record, verify the chain | records lag behind the installed snapshot | the missing records can always be rebuilt; a chain never loses its fencing |
| Writer lease: `writer-lease-*.js` | claims, activations, heartbeats, bases, releases | acquire, assert, renew, release | interleaved acquisitions, expiry in the middle of an operation, exits | tokens are not shared; one holder at a time; ownership only moves up |
| Lease clock: `lease-clock.js` | numbered observations, archives | observe, archive | racing observers, archiving while others read, exits | logical time strictly advances; rollback is rejected; the clock stays readable |
| Ledger archive: `lease-ledger-archive.js` | archive records | archive, token status | exit between archiving and deleting | tokens stay unique and monotonic; an archived token never contends again |
| Platform lock: `platform-lock.js` | lock directory and owner file | acquire, take over, assert, release | two contenders for one stale lock; failed creations | whoever acts behind an assertion is the only one; only an exit leaves an unreadable lock |
| Leased checkpoint: `leased-checkpoint.js`, `checkpoint.js`, `checkpoint-session.js` | composition of lease, lock and store | save, load, barrier | writers suspended among the files of their successors | saves form one chain; no acknowledged save is undone |
| Recovery capsule: `snapshot-recovery-capsule.js` | a file outside the store | export, restore | exit during a restore, a retry, a directory that is not empty | replaces nothing else; a retry is admitted; the end is a store that loads |
| Handoff scheduler: `scheduler.js`, `mailbox.js`, `events.js`, `arrival.js` | queues, mailboxes, ledgers of what was seen, counters | start, drain, resume | several schedules over several drains, limits, deferral | each arrival is accepted once and accounted for; waves are complete; deferral ends |
| Memory and compaction: `memory.js`, `compaction.js` | working and compressed memory, journal, receipts | retain, compact, recover | interruption between the swaps, damaged journals | no record is lost or counted twice; no mixture is taken for a memory |
| World core: `core/state.js`, `core/world.js` | canonical truth, wake states, receipts | processEvent, persist, reload | a cell that fails in the middle of an event | truth before memory; who is awake afterwards |
| Specialists: `matcher.js`, `merge.js` | none | propose, merge | order in which specialists finish | the result does not depend on it |
| Portable replay, observer, discovery and tools | none of their own | generate and compare files | nothing of the above | not modelled |

How they interact. `processEvent` commits truth, writes memory (which may compact),
emits handoffs and may start a schedule; the scheduler delivers handoffs to dormant
cells, which again write memory. A leased checkpoint asks the world for its barrier,
renews and asserts the lease (which observes the clock), takes the platform lock,
recovers the store, and saves, asserting again at each authority boundary. An
acquisition of the lease recovers the store as well.

`PROJECT.json` lists every component with its status, and every hazard of the code
at its line with the properties aimed at it, or the reason why there is none.

## 2. Modules

    SnapshotFiles            files, candidates, selection, lineage walk (operators);
                             SnapshotFiles_proofs: lemmas about them
      AtomicStore            the store as a state machine, one action per fs call;
                             AtomicStore_proofs, MCAtomicStore
        RecoveryCapsule      capsules over the store, and damage to it;
                             RecoveryCapsule_proofs, MCRecoveryCapsule
      LeasedCheckpoint       many writers: lease, lock and store composed;
                             LeasedCheckpoint_proofs, MCLeasedCheckpoint
    PlatformLock             the lock's actions, part of LeasedCheckpoint
    SnapshotRegister         what the store promises (abstract)
    WriterLease              the lease and the archival of its ledger;
                             WriterLease_proofs, MCWriterLease
    LeaseClock               the clock;  LeaseClock_proofs, MCLeaseClock
    HandoffScheduler         schedules and mailboxes;  HandoffScheduler_proofs,
                             MCHandoffScheduler
    MemoryImages             memory, summaries, what compaction yields (operators)
      MemoryCompaction       journal, recovery, events;
                             MemoryCompaction_proofs, MCMemoryCompaction
    RetainedMemory           what compaction promises (abstract)

The modules named `*_proofs` hold the theorems, those named `MC*` instantiate a module
for TLC.

A definition headed "Fault:" is not part of a specification. It is a wrong version
of the definition after it, kept to show that a property would notice: every
property of every passing run has one that violates it (`PROJECT.json`, "mutants").

### AtomicStore

*State.* `files` maps the five paths to missing, torn or a snapshot. A snapshot is
the sequence of its payloads, so that generation, parent and ancestry need no hashes:
an envelope's hash chain determines exactly that sequence. `records` and
`tornRecords` are the lineage directory. `pc`, `request`, `base`, `new`, `cursor` are
the running operation; they are lost when the process exits (`Interrupt`).

*Actions.* One file-system call each with the synchronous code around it. Creating a
file and writing it are two steps; a rename is one. `Begin` starts a save, load or an
acquisition's recovery with the policy (highest trusted token) of its caller;
`Inspect*`, `Promote*`, `Clean*` are `recoverAtomicWorldSnapshot`; `Reconcile`,
`Record*`, `VerifyChain` are the lineage; `Build` to `Commit` are the save.

*Abstractions.* A rename replaces its target in one step, as POSIX has it. The fallback of
`renameReplacing` for platforms that refuse that (EEXIST or EPERM: delete the target, then
rename; `fs-durability.js:41`) is not modelled, here and in LeasedCheckpoint.

*Assumption.* One operation at a time. That is what the store requires of its callers
and what the lease and the lock are there to provide; LeasedCheckpoint is the model of how far they do.

### RecoveryCapsule

*State.* AtomicStore's, the exported `capsule` (a capsule embeds the head envelope and
its records, all determined by the head: the capsule *is* its head), and the running
restore: its next file-system call and how many records it has written. *Actions.*
`Export`; `BeginRestore` with everything it refuses; creating and writing each missing
record, the verification of the chain, the cleanup, the temp, the rename and the final
check; `InterruptRestore` (exit, or a stage hook throws) between any two. `StoreStep` is
any step of AtomicStore between restores, `CorruptPrimary` damage to the primary from
outside, and `MoveToNewDirectory` the caller who keeps the damaged store and restores elsewhere.

*Abstractions.* Only texts that are the pinned capsule appear: every other is refused
before anything is touched. The refusal of a torn lineage record is one with
`RECOVERY_TARGET_NOT_EMPTY`. A restore acknowledges no save.

### PlatformLock and LeasedCheckpoint

*State.* `gate` is what is at the lock path: nothing, a bare directory, an owner record
that is still empty, or a complete one, and whether its time still runs. Of the lease
only its outcome is kept: the `latest` token granted, whether it is `live`, and the
token each process carries. The files are those of AtomicStore; `session` is the memory
of the operation each process runs, with the file it holds open, because a file that is
renamed or deleted under an open handle is still written to.

*Actions.* The lock is taken by the calls of `acquirePlatformWriteLock` (`MakeLock`,
`OpenOwner`, `WriteOwner`, `RemoveLock`, `FindStale`, `StealLock`) and given back by
`AssertRelease` and `RenameReleased`, each acting on whatever is at the path by then. A
leased save is admission (`Admit`), its own recovery, then each call of
`saveAtomicWorldSnapshot` with a `Guard*` step at each authority boundary. An
acquisition recovers without the lock, as does a fenced load. `LeaseExpires` and
`LockExpires` may happen at any time, so a process may be suspended at any await until
others have taken over and saved. `Throw` and `Exit` may happen at any step.

*Abstractions.* How a lease is won is WriterLease's; here a grant happens when none
runs. The reads of one inspection are one step, so are the deletions of a cleanup, a
deletion with the creation after it, and the lineage records: AtomicStore has them
apart. The checkpoint barrier is a refusal that may happen or not. `platformLockDurationMs`
is not used, so that a lock lasts as long as its lease had left.

*overtaken.* The documents admit that a process suspended between an assertion and the
call behind it acts after it was replaced. `overtaken` records that such a step has
changed a file; the properties say what holds until then. A process that never asserted
being the owner (`owned`) is not excused: that is what the mutants drop.

### WriterLease

*State.* Per token the claim file (absent, empty, written), its provisional deadline,
the latest expiry of activation or heartbeat, and whether a release exists; `archive`,
what the latest ledger archive says, and whether a later one was created and not
written (`torn`); per process the step it is at, the logical time it observed, its
token, the archive it is writing (`plan`) and the files it is still to delete
(`doomed`). `owner`, `late`, `blind`, `reissued` are history. A run is *orderly* as long
as no step was taken after the time it relied on had run out (`late`), no election
missed a lower claim that was still being written (`blind`), and no token was issued
again after its archival (`reissued`).

*Actions.* Each operation first observes the clock, then takes its steps on the
ledger: preflight, allocate, create, write, elect, activate, verify, recover the base
or withdraw; assert; renew (assert, then heartbeat); release (inspect, then write);
archive (assert, choose the tokens, create the archive file, write it, and delete the
archived files one by one in the order of their paths).

*Abstractions.* A clock observation is one step that may advance the clock: LeaseClock
is the model of why two observations do not return the same or a decreasing time. One
inspection of the ledger is one step. The code reads the directories one after the
other, but depends only on the other process's records, and each token of that
process is dead before it makes the next, so that whatever the inspection finds held
at one instant. With three processes that argument fails; the runs have two. A torn
activation, heartbeat or release record is invalid and counts as absent. A clock
rollback is refused and changes nothing. `minimumRemainingMs` is 0. An exception from
a stage callback leaves the files as an exit does. The base record is written, not
read, by these operations.

*Left out.* An inspection that overlaps the deletions of an archival may see a claim
without its release: a refusal that need not have been, not a second owner. Old archive
files are pruned, so that an archiver suspended for several archivals may create one of
those again. The archival of the clock that follows that of the ledger is LeaseClock's.

### LeaseClock

*State.* Observation and archive files, each sealed (written) or only created; per
process what it has listed and read. *Actions.* Listing, each read, the decision, the
exclusive creation, the write, and each deletion are steps; `Crash` forgets the
process's view. An observation's id hashes its content and is represented by its
logical time. `stale` is history: a sequence number was created a second time, which
requires that it was used, archived and deleted during a single inspection by another
process. `reborn`, the same for an archive's generation, requires that two newer archives
were made, and the older one pruned, while an archiving waited to create its own. Old
archives are pruned in one step. Wall-clock readings are at least 1.

### HandoffScheduler

*State.* What was seen; the mailbox entries of all cells with their remaining lifetime
and retries; per schedule its options, queue, counters and status; which cells are not
dormant; the canonical revision. A queue is a set, ordered by `Precedes`
(compareHandoffs). *Actions.* `Start`; a drain as `BeginDrain` (next epoch and sweep),
one of `Reject`, `Accept`, `Defer`, `DeferDuplicate`, `DropByMailbox` per handoff
taken, and `EndDrain` (status). A drain is one synchronous call, so that cells change
their wake state (`Occupy`, `Vacate`), events commit (`Commit`) and other schedules
start only between drains.

*Abstractions.* Of the options of a schedule its own are `processArrivals` and
`maxQueueSize`; the limits of mailboxes, retries and lifetimes, which the code keeps
per schedule too, are constants, so that the models compare no two schedules that
differ in them. The finishing order of specialists is left out. The lifetime of an
entry is counted down in its own schedule's epochs instead of comparing growing epoch
numbers. A handoff's event id is determined by its cause, depth, sender and recipient;
only well-formed handoffs of `neighborHandoffs` and `deriveNextHandoffs` occur.
Specialists, perceptions and memory do not influence the scheduler. A journal that is
damaged, but was not recovered yet, would make memory throw in the middle of a drain;
the model has no such step. A released handoff that meets a busy cell again is
deferred anew with a fresh lifetime, as in the code.

### MemoryCompaction

*State.* Per cell its arrays, journal, generation, repair flag and final receipts, and
its wake state. *Actions.* `Event` is the memory part of `processEvent` at the one or
two cells it affects, including the case that one of them throws; `Observe` that of
`processAcceptedHandoff`; `Interrupt` is `compactWorkingMemory` stopped at one of its
four points; `Reload` persists and reloads the world; `Damage` alters a journal image
or the arrays from outside. Retaining, recovering and compacting are functions on the
memory of a cell because the code calls them in one synchronous step.

*Abstractions.* A record is the key of its summary (provenance, class, actor), so that
first and last revisions are left out. Episodic memory, lineage references, importance
scores and other receipts are not touched by compaction. Cells may start with more
records than their budget, as after a change of `memoryBudget`.

## 3. Runs

All bounds are constants whose comment says "bound". `CHECK_DEADLOCK FALSE` appears
where a bounded system comes to rest: operations, tokens, clock readings or records are
used up. In the scheduler a drain is always possible, and deadlock is checked.

| Run | Instance | States | What it shows |
|---|---|---|---|
| AtomicStore_crash | 2 worlds, 4 operations, 2 fencing tokens, exit anywhere | 282,719 | acknowledged saves survive, candidates never conflict, lineage can be rebuilt, and the store implements SnapshotRegister |
| RecoveryCapsule_damage | 5 operations or capsule restores, 2 damages to the primary, 2 directories | 2,038,190 | damage costs one generation, also when repeated; restores replace nothing, can be retried and end in a store that loads |
| AtomicStore_torn_lineage | 3 operations | violation | an exit while a lineage record is written makes the store unusable |
| AtomicStore_unleased_after_leased | 3 operations, 1 token | violation | an unleased save after a leased one installs a head that is refused |
| WriterLease_orderly | 2 processes, 3 tokens, 6 ticks, archivals | 1,346,027 | unique tokens; exclusion and succession in orderly runs; archived tokens stay out |
| WriterLease_old_handle | 2 processes, 2 tokens | violation | an old handle is confirmed again |
| LeasedCheckpoint_overlap | 2 processes, 3 tokens, 3 saves or loads, one handle used twice | 4,018,628 | until an overtaken process touches a file, saves form one chain and none is undone; unreadable locks |
| LeaseClock_archive | 2 processes, 3 observations, 2 archives | 3.36 million | time advances, rollback is rejected, the clock stays readable |
| LeaseClock_contiguous | the same | violation | an exit inside an archiving makes the clock unreadable |
| HandoffScheduler_drains | 2 schedules, 2 signals, 2x2 cells | 201,988 | limits, accounting, uniqueness, completeness, and that deferral ends |
| HandoffScheduler_resumed | 1 schedule | violation | a false AUTHORITY_BREACH |
| MemoryCompaction_recovery | 2 cells, 2 keys, 4 records per cell, 2 damages | 54,345 | conservation, receipts, repair, and that the cells implement RetainedMemory |

*Why the bounds are enough.* Four operations hold a first save, a second one that
makes a backup, an exit in it and a recovery that may itself be interrupted; five are
needed for damage, recovery, a further save and damage again. Two tokens give every
policy below, at and above a candidate's token. Two processes and three tokens contain
an owner, its replacement and a third claim by either; six ticks let a lease and a
provisional claim run out in the middle of an operation and in every order, and with one
token retained an archival takes the first, and a second archival follows on a first that
was interrupted among its deletions. In LeasedCheckpoint three saves are an acknowledged
one, one that its owner leaves half-way, and one of the successor beside it; two
processes with one handle are two concurrent saves of one lease. One world is enough
there: two saves are told apart by their tokens or by their places in the chain. Three
observations and two archives contain an observation before, during and after an
archiving and a second archive on the first. The queue, mailbox, retry, lifetime and
budget limits of the scheduler are small enough that each counter becomes positive in
some state. Four records per cell over budgets of one let a cell compact, merge into
and drop a summary, and roll back, several times in a row.

*Premises.* `OrderlyExclusion` and `OrderlySuccession` are about orderly runs:
outside them the code does not promise more than that a later assertion fails.
`TokensUnique` excludes only a token issued again (`reissued`). `ArchivedStaysOut` needs no
late step, no reissue, and `ProvisionalDuration <= LeaseDuration`, as the defaults have
it; the code does not demand it. (With a longer provisional time an archival that stops
after deleting an activation leaves a claim that looks provisional again.) `AckedSurvives`,
`NoGenerationConflict` and `HeadMoves` of LeasedCheckpoint hold until a process is
`overtaken`, and a fenced load does not start beside a save with the same handle;
`UnreadableLockIsBeingMade` excludes an exit while the lock is created (`abandoned`).
`RestoreResumable` excludes an exit between the creation of a file and its writing.
`TimeAdvances` excludes a re-created sequence (`stale`), `ReadableAtRest` that, a
re-created archive (`reborn`) and exits. `WaveComplete` is about a signal carried by one
schedule and never deferred: a deferred cell may be reached first over a longer path, with
fewer hops left.
`FailClosed` excludes the damaging step itself. `OneGenerationLoss` has no premise.

*Fairness.* Only HandoffScheduler has liveness. `WF(Turn(j))` says that a drain that
has begun runs on, which holds because it is one synchronous call. Nothing makes
anybody resume a schedule; that is the premise of `ResumedEnds`: *if* a schedule is
resumed again and again, its queue and mailbox entries are gone for good some day,
however busy the recipients are.

## 4. Findings

Each has a run that finds it (`PROJECT.json`, "findings").

1. **Torn lineage record** (`snapshot-lineage.js:102`). The record is created, then
   written. An exit in between leaves an empty file that every later load and save
   refuses as corrupt although the primary is intact.
2. **Unleased save after leased ones** (`atomic-store.js:193`). The save renames its
   primary into place before the lineage verification that refuses it
   (`SNAPSHOT_FENCING_GAP`); the store then refuses everything.
3. **Old handle confirmed again** (`writer-lease-records.js:150`). A claim is created
   before it is written, and an election in between does not see it. Both processes
   get a handle; after the higher token is released the lower one is current again,
   against `docs/CLAIM_BOUNDARY.md:72`.
4. **Interrupted clock archiving** (`lease-clock.js:354`). An exit between the archive
   and the deletions leaves observations that the archive already stands for, and every
   later observation is refused as not contiguous.
5. **False AUTHORITY_BREACH** (`scheduler.js:399`). A drain compares canonical truth
   with the hash of the start of its schedule, so that a schedule resumed after any
   other event reports that it changed truth.

Observations without a run of their own. They are part of the models, and the premises
above name them. Documents contradict the second; the last needs more processes and steps
than a run can afford.

- An exit while the platform lock is created leaves a lock that is refused as corrupt
  for good; one while an archive file is created leaves a ledger that is
  (`platform-lock.js:165`, `lease-ledger-archive.js:462`).
- A process suspended while it allocates a token may issue it again after the token was
  archived and its claim deleted (`writer-lease-inspection.js:309`). The documents promise
  otherwise: "every replacement receives a strictly higher fencing token"
  (`docs/CLAIM_BOUNDARY.md:39`), "tokens are not reused" (`:67`), "Tokens and old records
  are not reused" (`docs/WRITER_LEASE.md:78`). The instance of WriterLease_orderly reaches
  it, in 25 steps: one process waits before it creates claim 1, the other creates claim 1
  and exits, acquires token 2, archives and deletes claim 1, and the first creates it again.
  The properties of the module are about runs before that, and the model takes no further
  step of an operation after it.
- A fenced load beside a save with the same handle may rename the candidate it selected
  over the world the save has committed since (`leased-checkpoint.js:263`).
- With three processes, an archiving of the clock that waits before it creates its archive
  while others make two newer ones and prune the older may create that generation again.
  A process that had listed the pruned archive then reads this one in its place, archives
  on top of it what the newest archive does not stand for, and the observations no longer
  continue the newest archive (`lease-clock.js:354`). One such run has five
  observations, three archives and 120 steps.

## 5. Proofs

`AtomicStore_proofs` (for any set of worlds, number of operations and tokens):

- `TypeCorrect`: the types, interruptions included.
- `InvariantHolds`: the inductive invariant `IInv` of AtomicStore (whose files nobody
  damages from outside; RecoveryCapsule adds damage). None of the safety properties is
  inductive: that a promotion is safe depends on what the temp may hold. `DiskInv` says what the files hold at any instant:
  the backup is an ancestor of the primary, a valid temp is the primary or a child of
  it, a valid recovery temp is a child and the same as a valid temp, and every
  acknowledged snapshot is an ancestor of the primary. `StageInv` says what the running
  operation knows at each step, and `OperationInv` what it holds in memory. An exit
  keeps `DiskInv` and makes the rest vacuous, which is why a recovery may start
  anywhere.
- `NoConflictEver`, `AckedSurvivesAlways` follow from `DiskInv`; `Refinement` maps each
  step to a step of SnapshotRegister or a stutter, with the primary as the register.
- `LineageAlwaysReconcilable` rests on `LineageInv`, which is independent of the above: no
  envelope is written before the whole lineage of its parent is recorded, so the parent of
  whatever any file holds has a complete chain, and the walk from a selection stops at the
  selection itself or at its parent.

`RecoveryCapsule_proofs` (further, for any number of damages, restores and exits from them):
`CapsuleInvariant`, `DamageCostsOneGeneration`, `LineageSurvivesDamage`, `RestoreCanResume`,
`RestoreKeepsOthersFiles` and `RestoreEndsInLoadableStore`. Damage to the primary refutes
`DiskInv`, whose anchor is the primary. `LineInv` takes its place: the valid files lie on
one line of descent, backup, primary, recovery temp, temp, and the *parent* of every
acknowledged snapshot is an ancestor of the backup, which nobody damages.
`DamageStageInv` is what remains of `StageInv`: a promoted snapshot descends from the
backup instead of being the primary's child, and between the installation and the
commit of a save the backup holds the parent. `RestoreInv` says that the directory of
a restore that has not ended holds only copies of the pinned head, a torn recovery temp
and records of the capsule.

`LeasedCheckpoint_proofs` (for any number of processes, tokens, saves and loads): `TypeCorrect`,
`LockNeverStranded` (`UnreadableLockIsBeingMade`), `Invariant`, `CommitsSurvive`, `GenerationsAgree` and
`HeadOnlyGrows`. `GateInv` of PlatformLock says who may be between the creation of the
lock and its owner record. For the files the same `Consistent` as in AtomicStore holds
until a process is overtaken, but what the running operation knows of them now depends
on who else may act:

- `ControlInv`: tokens only grow, operations behind the lock began while their process
  owned it, and two processes carry one token only for as long as neither acquires or
  loads with it.
- One owner: of the processes that are not superseded at most one is in a step that
  changes files, so that a step of one leaves `OwnerInv` of the others alone; a superseded
  process stays superseded, and whatever it still does to the files is what `overtaken`
  records.
- `InstalledInv`: a save past its verification is part of the primary's history whoever
  owns the store by then, which is what its COMMITTED receipt needs.

`LeaseClock_proofs` (for any number of processes, observations and archives): `TypeCorrect`,
`Invariant`, `TimeAlwaysAdvances`, `RollbackAlwaysRejected` and `ReadableWheneverAtRest`. The
bounds of the types rest on
`BoundsInv`: logical time exceeds the wall clock by less than one per observation. Until
a number is created twice (`stale`), `ChronologyInv` holds: whatever a process has read,
a file or an archive holds, is *known*, that is, not ahead of the observation completed
last; a record about to be created *follows* it; and one process at most is writing, the
observation after the latest. A process that listed the files long ago knows too little,
not too much, so that its record is refused as existing or has the right number.
For the clock at rest `ContinuityInv` (while nothing disturbs it: no exit, no number used
again) says which archive the observations continue at every instant: the current one, or,
from the creation of its file on, the one being written. The observations behind it are
complete and linked (`Founded`), those it stands for are still in the hands of an archiving
that will delete them, and whatever an archiving has read behind it is still there, so that
its own archive, should it get to create it, is founded as well. A process that has read
another archive cannot create the next generation, which is there already.

`MemoryCompaction_proofs` (for any cells, keys, budgets and numbers of events, interruptions
and damages): `TypeCorrect`, `Invariant`, `RecordsConserved`, `ReceiptsAlwaysNumbered`,
`RepairNeverDormant`, `InterruptionsComplete`, `EvidenceIsKept` and `ImplementsRetainedMemory`.

- The count of a key in a memory is a fold over its sequences. Each fold is a function
  on an initial part of the numbers, whose existence is proved once (`FoldExists`), and
  facts about it are proved by induction with a *set* in the place of the predicate,
  for which the library's theorem about least elements of sets of numbers suffices.
- `MemoryInv`: a journal is the next compaction of a sound image, each array is the one
  before or the one after it, and an undamaged cell's last receipt is that compaction's.
- `ConservedInv`: every record retained in a cell is in the image the cell settles to or
  was evicted with it. Merging keeps the counts, a summary dropped at the budget is
  counted as evicted in the same step.
- The refinement is shown cell by cell: one operation moves a cell by a chain of at most
  recover, retain and compact, each of which is a step of RetainedMemory or none.


`WriterLease_proofs` (for any number of processes, tokens and ticks, any durations and
any number of retained tokens): `InvariantHolds`, `TypeCorrect`, `TokensNeverShared`,
`ArchivedHolds`, and, in orderly runs, `ExclusionHolds` and `SuccessionHolds`. The
inductive invariant is `TypeOK`, `TokensUnique` and, until a token is issued again,
`Core`:

- `LedgerInv`: the *used* tokens, those with a claim or archived, have no gap below them.
- `ProcessInv` (`Sound`): what each process may rely on at each step, in particular what
  its last inspection still implies although others have moved on.
- `ArchivalInv`: the tokens an archival plans or deletes, and that a claim is deleted
  before the release that marks it.
- `RetiredInv`: each archived or planned token is *retired*, that is, no deletion among
  its files can make it contend again. Being dead is not enough: a token that is dead
  only by its activation's expiry comes back to life as a provisional one when the
  activation is deleted first.
- `ElectionInv`: in an orderly run every token below one that was elected is *dead*, that
  is archived, released, torn or expired. A dead token stays dead unless its process
  takes a late step, so that the only live elected token is the highest one.

The key lemma is `TokenStep`, which lists what any step may do to the files of one token;
each part of the invariant is then kept by each of those changes. The theorems are
about the module, whose atomic inspection is justified for two processes only (above).

`HandoffScheduler_proofs` (for any grid, signals, schedules, limits and busy cells):
`InvariantHolds`, `TypeCorrect`, `BoundedHolds`, `AccountedHolds`, `OneEntryHolds`,
`NothingVanishesHolds`, `LossReportedHolds`, `AcceptedOnceHolds` and `WaveCompletes`. The
properties are strengthened by

- `Finite`, so that cardinalities are numbers, and `Unstarted`, `OneQueued`: a schedule
  that was not started holds nothing, and no queue holds two handoffs of one arrival.
  With `OneEntry` they make a set of handoffs as large as the set of its arrivals, which
  the balance of the counters needs.
- `PathsSeen`: each cell on the path of a waiting handoff is the origin or has accepted
  the signal. A handoff that is rejected because its recipient is on its path would
  otherwise vanish.
- `LossesCounted`: a schedule with a loss has a positive counter of losses, so that no
  later drain can report it away.

The limits rest on `FirstAreFew`: in a finite set with a strict total order at most *n*
elements have fewer than *n* before them. That compareHandoffs and the order of the sweep
are such orders on handoffs of different arrivals is part of the proof.

`WaveCompletes` has an invariant of its own, `Wave`, for a schedule that is `Calm`: alone
with its signal, with no deferral and no loss so far. `Shortest`: handoffs and accepted
events have the distance from the origin as their depth, except handoffs back to the
origin, which their paths reject. `Relayed`: a cell next to one that accepted, and further
out, is queued or has accepted. `Inward`: the same of every cell closer to the origin than
the depth of a queued handoff. The queue is taken in the order of depths (`NextIsLeast`), so
an accepted handoff finds all closer cells in the ledger, and what it derives can only go
further out. At the end of the drain a missed cell at the least distance would have a
closer neighbour (`CloserNeighbour`) that relayed to it. This order, and not the search of
each path, is why a wave needs no correction of depths, and why deferral breaks it.

Only model-checked: `ResumedEnds` of the scheduler, which is liveness and out of the
prover's reach. That a recursive definition computes the right value is not stated as
a theorem anywhere: the models have no RECURSIVE operator, and the folds of MemoryCompaction
are reasoned about through the functions that unfold them.

## 6. Not modelled, and the plan

Modelled so far, all with proofs: AtomicStore, RecoveryCapsule, WriterLease with the archival
of the ledger, LeaseClock, PlatformLock and LeasedCheckpoint, HandoffScheduler,
MemoryCompaction. To come:

- **WorldCore**: truth before memory, a repeated event, the checkpoint barrier. Its wake
  states and its calls into memory are already in MemoryCompaction, those into the
  scheduler in HandoffScheduler.
- **SpecialistMerge**: a pure operator, independent of the order of its inputs.

LeasedCheckpoint is not shown to implement SnapshotRegister: an overtaken process breaks
that, and until then `AckedSurvives` and `HeadMoves` say the same of the files.

Not planned: portable replay, observer, discovery and scripts, which call the core in
sequence and write files for readers; hashing, canonical JSON and envelope formats,
which stand in the models as the identity of what they identify; loss of power, as
opposed to exit of a process: what a file-system call has done stays done, and the
fsync calls of the code have no effect in the models.
