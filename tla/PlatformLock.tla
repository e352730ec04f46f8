---------------------------- MODULE PlatformLock ----------------------------
(***************************************************************************)
(* The platform write lock (platform-lock.js): a directory that exists     *)
(* while somebody holds the write gate, with an owner record in it, taken  *)
(* by mkdir, taken over by renaming it away once its owner's time is up,   *)
(* and released by renaming it away.                                       *)
(*                                                                         *)
(* The lock is used under a writer lease, whose own protocol is the        *)
(* subject of WriterLease.  Here only its outcome is kept: the highest     *)
(* token granted, whether that lease still runs, and the token each        *)
(* process carries.  Time is what it decides: a lease runs until it        *)
(* expires or is released, and a lock lasts at most as long as the lease   *)
(* it was taken under had left (lockDurationMs = remainingMs).             *)
(***************************************************************************)
EXTENDS Naturals

CONSTANTS
    Processes,   \* callers of the persistence API; None is not one of them
    None,
    MaxToken     \* bound: leases granted

ASSUME LockAssumption == None \notin Processes /\ MaxToken \in Nat

VARIABLES
    gate,        \* what is at the lock path
    latest,      \* the highest fencing token granted, 0 before the first
    live,        \* does that lease still run?
    token,       \* token[p]: the token of the handle p holds, 0 if none
    pc,          \* pc[p]: the next step of the operation p runs
    abandoned    \* history: a process exited while it was creating the lock

lockVars == <<gate, latest, live, token, abandoned>>

\* The directory is absent, bare (no owner record), or holds an owner record
\* that is still empty or complete; running: its expiry lies ahead.
Gates == [state : {"absent", "bare", "torn", "held"}, owner : Processes \cup {None},
          token : Nat, running : BOOLEAN]
Absent == [state |-> "absent", owner |-> None, token |-> 0, running |-> FALSE]
Bare   == [Absent EXCEPT !.state = "bare"]

\* Fault: the owner record carries no expiry.
OwnerFileWithoutExpiry(state, p) == [state |-> state, owner |-> p, token |-> token[p]]

OwnerFile(state, p) ==
    [state |-> state, owner |-> p, token |-> token[p],
     running |-> live /\ token[p] = latest]

LockSteps == {"lockMake", "lockOpen", "lockWrite", "lockFail", "lockInspect", "lockSteal"}
Creating  == {"lockOpen", "lockWrite", "lockFail"}

HoldsGate(p) == gate.state = "held" /\ gate.owner = p /\ gate.token = token[p]

\* assertWriterLease and assertPlatformWriteLock.
LeaseHeld(p) == live /\ token[p] = latest
LockHeld(p)  == HoldsGate(p) /\ gate.running

LockInit ==
    /\ gate = Absent
    /\ latest = 0
    /\ live = FALSE
    /\ token = [p \in Processes |-> 0]
    /\ abandoned = FALSE

Goto(p, step) == pc' = [pc EXCEPT ![p] = step]

-----------------------------------------------------------------------------
\* The lease, as the lock sees it.

\* acquireWriterLease up to its activation: only when no lease runs.
Grant(p) ==
    /\ token[p] = 0
    /\ ~live
    /\ latest < MaxToken
    /\ latest' = latest + 1
    /\ live' = TRUE
    /\ token' = [token EXCEPT ![p] = latest + 1]
    /\ UNCHANGED <<gate, abandoned>>

\* The latest lease runs out, and with it every lock taken under it.
LeaseExpires ==
    /\ live
    /\ live' = FALSE
    /\ gate' = [gate EXCEPT !.running = @ /\ gate.token # latest]
    /\ UNCHANGED <<latest, token, pc, abandoned>>

\* A lock runs out before its lease when the lease was renewed after it, and
\* outlives a lease that was released.
LockExpires ==
    /\ gate.running
    /\ gate' = [gate EXCEPT !.running = FALSE]
    /\ UNCHANGED <<latest, live, token, pc, abandoned>>

\* releaseWriterLease, also by a failed acquisition.
GiveUpLease(p) ==
    /\ live' = (live /\ token[p] # latest)
    /\ token' = [token EXCEPT ![p] = 0]
    /\ UNCHANGED <<gate, latest, abandoned>>

-----------------------------------------------------------------------------
\* acquirePlatformWriteLock.
MakeLock(p) ==
    /\ pc[p] = "lockMake"
    /\ IF gate.state = "absent"
         THEN gate' = Bare /\ Goto(p, "lockOpen")
         ELSE UNCHANGED gate /\ Goto(p, "lockInspect")
    /\ UNCHANGED <<latest, live, token, abandoned>>

\* writeOwner creates owner.json exclusively, in whatever directory is at the
\* path by now: EEXIST goes on to the inspection, ENOENT fails.
OpenOwner(p) ==
    /\ pc[p] = "lockOpen"
    /\ CASE gate.state = "bare"   -> gate' = OwnerFile("torn", p) /\ Goto(p, "lockWrite")
         [] gate.state = "absent" -> UNCHANGED gate /\ Goto(p, "lockFail")
         [] OTHER                 -> UNCHANGED gate /\ Goto(p, "lockInspect")
    /\ UNCHANGED <<latest, live, token, abandoned>>

\* The record reaches the file that was opened, at the path or not; syncing
\* the directory fails if nothing is at the path, and a stage hook may throw.
WriteOwner(p, then) ==
    /\ pc[p] = "lockWrite"
    /\ gate' = IF gate.state = "torn" /\ gate.owner = p
                 THEN OwnerFile("held", p) ELSE gate
    /\ \/ gate.state # "absent" /\ Goto(p, then)
       \/ Goto(p, "lockFail")
    /\ UNCHANGED <<latest, live, token, abandoned>>

\* A hook of AFTER_LOCK_DIRECTORY_CREATE, or the file system, throws.
CreationThrows(p) ==
    /\ pc[p] = "lockOpen"
    /\ Goto(p, "lockFail")
    /\ UNCHANGED lockVars

\* Fault: a failed creation leaves the directory to the next contender.
LeaveLock(p, then) ==
    /\ pc[p] = "lockFail"
    /\ Goto(p, then)
    /\ UNCHANGED lockVars

\* Any error but EEXIST removes whatever is at the path, and is thrown.
RemoveLock(p, then) ==
    /\ pc[p] = "lockFail"
    /\ gate' = Absent
    /\ Goto(p, then)
    /\ UNCHANGED <<latest, live, token, abandoned>>

\* PLATFORM_LOCK_CORRUPT without a readable owner record, PLATFORM_LOCK_HELD
\* under a running owner.  The time compared is the one p's lease was asserted
\* at, so an owner that has run out since may still be refused as active.
Contended(p, then) ==
    /\ pc[p] = "lockInspect"
    /\ Goto(p, then)
    /\ UNCHANGED lockVars

FindStale(p) ==
    /\ pc[p] = "lockInspect"
    /\ gate.state = "held"
    /\ ~gate.running
    /\ gate.token <= token[p]
    /\ Goto(p, "lockSteal")
    /\ UNCHANGED lockVars

\* The directory at the path is renamed away, whoever's it is by now; ENOENT
\* is another contender's success.  Either way the creation is tried again.
StealLock(p) ==
    /\ pc[p] = "lockSteal"
    /\ gate' = Absent
    /\ Goto(p, "lockMake")
    /\ UNCHANGED <<latest, live, token, abandoned>>

-----------------------------------------------------------------------------
\* releasePlatformWriteLock asserts ownership (at the time of the last
\* assertion, so a lock that has run out since passes) and then renames
\* whatever is at the path; the saving caller swallows every error.
AssertRelease(p, then) ==
    /\ pc[p] = "releaseAssert"
    /\ Goto(p, IF HoldsGate(p) THEN "releaseRename" ELSE then)
    /\ UNCHANGED lockVars

RenameReleased(p, then) ==
    /\ pc[p] = "releaseRename"
    /\ gate' = Absent
    /\ Goto(p, then)
    /\ UNCHANGED <<latest, live, token, abandoned>>

-----------------------------------------------------------------------------
\* The process exits: its handle is gone, its lease runs on and its lock stays.
LoseProcess(p) ==
    /\ token' = [token EXCEPT ![p] = 0]
    /\ abandoned' = (abandoned \/ pc[p] \in Creating)
    /\ UNCHANGED <<gate, latest, live>>

\* A lock nobody can read is one that a running process is creating, or one
\* that a process left by exiting in the middle of its creation: no takeover,
\* release or failed creation, in whatever order they meet, leaves another.
UnreadableLockIsBeingMade ==
    gate.state \in {"bare", "torn"} /\ ~abandoned =>
        \E p \in Processes : pc[p] \in Creating

LockTypeOK ==
    /\ gate \in Gates
    /\ latest \in Nat
    /\ live \in BOOLEAN
    /\ token \in [Processes -> Nat]
    /\ abandoned \in BOOLEAN

\* The inductive invariant behind UnreadableLockIsBeingMade: a directory without
\* an owner record has a creator about to write one or to remove it, and an
\* owner record that is being written has its writer.
GateInv ==
    ~abandoned =>
        /\ gate.state = "bare" => \E p \in Processes : pc[p] \in {"lockOpen", "lockFail"}
        /\ gate.state = "torn" => gate.owner \in Processes /\ pc[gate.owner] = "lockWrite"

=============================================================================
