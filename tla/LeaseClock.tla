----------------------------- MODULE LeaseClock -----------------------------
(***************************************************************************)
(* The logical clock of the writer lease (lease-clock.js): a directory of  *)
(* numbered observations, each one file, and a directory of archives that  *)
(* stand for the observations deleted so far.                              *)
(*                                                                         *)
(* Several processes observe and archive at the same time; every await is  *)
(* a point where another may run, and a process may exit at each of them.  *)
(* Files are created exclusively and written afterwards.  An observation   *)
(* ID is a hash of its content and stands here as the logical time, which  *)
(* tells the observations of a chain apart.                                *)
(***************************************************************************)
EXTENDS Integers, FiniteSets, FiniteSetsExt

CONSTANTS
    Writers,          \* the processes that use the store
    Retain,           \* retainRecentObservations
    Keep,             \* keepArchiveCheckpoints
    Tolerance,        \* rollbackToleranceMs
    MaxWall,          \* bound: wall-clock readings
    MaxSequence,      \* bound: observations
    MaxGeneration     \* bound: archives

ASSUME ClockAssumption ==
    /\ Retain \in Nat \ {0}
    /\ Keep \in Nat \ {0}
    /\ Tolerance \in Nat
    /\ MaxWall \in Nat
    /\ MaxSequence \in Nat
    /\ MaxGeneration \in Nat

VARIABLES
    observations,   \* the files of the observations directory
    archives,       \* the files of the archives directory
    pc,             \* the next step of each process
    wall,           \* the wall time its observation was called with
    base,           \* the archive it has read
    listed,         \* observation files it has listed and not read yet
    chain,          \* observations it has read
    next,           \* the record it is about to create
    latest,         \* history: the observation completed last
    top,            \* history: the highest sequence ever created
    stale,          \* history: a sequence was created for the second time
    reborn,         \* history: an archive generation was created for the second time
    crashed         \* history: a process exited in the middle of an operation

files == <<observations, archives>>
view == <<wall, base, listed, chain, next>>
history == <<latest, top, stale, reborn, crashed>>
vars == <<observations, archives, pc, wall, base, listed, chain, next, latest,
          top, stale, reborn, crashed>>

Sequences   == 1..MaxSequence
Generations == 1..MaxGeneration
Times == 0..(MaxWall + MaxSequence)

\* A created file that is not written yet is not sealed and has no content.
Observation == [sequence : 0..MaxSequence, sealed : BOOLEAN, wall : 0..MaxWall,
                logical : Times, previous : Times]
Archive == [generation : 0..MaxGeneration, sealed : BOOLEAN,
            through : 0..MaxSequence, wall : 0..MaxWall, logical : Times]

NoObservation == [sequence |-> 0, sealed |-> TRUE, wall |-> 0, logical |-> 0,
                  previous |-> 0]
NoArchive == [generation |-> 0, sealed |-> TRUE, through |-> 0, wall |-> 0,
              logical |-> 0]

ObserveSteps == {"observeArchives", "observeArchive", "observeList", "observeRead",
                 "create", "write", "return"}
ArchiveSteps == {"archiveArchives", "archiveArchive", "archiveList", "archiveRead",
                 "archiveCreate", "archiveWrite", "delete", "prune"}
Steps == {"idle"} \cup ObserveSteps \cup ArchiveSteps

Init ==
    /\ observations = {}
    /\ archives = {}
    /\ pc = [w \in Writers |-> "idle"]
    /\ wall = [w \in Writers |-> 0]
    /\ base = [w \in Writers |-> NoArchive]
    /\ listed = [w \in Writers |-> {}]
    /\ chain = [w \in Writers |-> {}]
    /\ next = [w \in Writers |-> NoObservation]
    /\ latest = NoObservation
    /\ top = 0
    /\ stale = FALSE
    /\ reborn = FALSE
    /\ crashed = FALSE

-----------------------------------------------------------------------------
Numbers(obs) == {o.sequence : o \in obs}

\* The latest of a chain, or what the archive kept of its own last one.
Latest(a, obs) ==
    IF obs = {}
      THEN [NoObservation EXCEPT !.sequence = a.through, !.wall = a.wall,
                                 !.logical = a.logical]
      ELSE CHOOSE o \in obs : \A p \in obs : p.sequence <= o.sequence

\* validateObservationChain: contiguous after the archive, each linked to the
\* one before it and later than it.
Before(a, obs, o) == Latest(a, {p \in obs : p.sequence < o.sequence})
ValidChain(a, obs) ==
    \A o \in obs :
        /\ o.sequence = Before(a, obs, o).sequence + 1
        /\ o.previous = Before(a, obs, o).logical
        /\ o.logical > Before(a, obs, o).logical

Newest(as) == CHOOSE a \in as : \A b \in as : b.generation <= a.generation

-----------------------------------------------------------------------------
Step(w, from, to) == pc[w] = from /\ pc' = [pc EXCEPT ![w] = to]

\* A finished operation leaves nothing in memory.
Finish(w) ==
    /\ pc' = [pc EXCEPT ![w] = "idle"]
    /\ wall' = [wall EXCEPT ![w] = 0]
    /\ base' = [base EXCEPT ![w] = NoArchive]
    /\ listed' = [listed EXCEPT ![w] = {}]
    /\ chain' = [chain EXCEPT ![w] = {}]
    /\ next' = [next EXCEPT ![w] = NoObservation]

\* Every check that fails throws and changes no file.
Refuse(w) == Finish(w) /\ UNCHANGED <<files, history>>

BeginObserve(w) ==
    /\ Step(w, "idle", "observeArchives")
    /\ \E T \in 1..MaxWall : wall' = [wall EXCEPT ![w] = T]
    /\ UNCHANGED <<files, base, listed, chain, next, history>>

BeginArchive(w) ==
    /\ Step(w, "idle", "archiveArchives")
    /\ UNCHANGED <<files, view, history>>

\* readLatestArchive lists the archives and then reads the newest listed one.
ListArchives(w, from, readIt, skip) ==
    /\ Step(w, from, IF archives = {} THEN skip ELSE readIt)
    /\ base' = [base EXCEPT ![w] = IF archives = {} THEN NoArchive ELSE Newest(archives)]
    /\ UNCHANGED <<files, wall, listed, chain, next, history>>

ReadArchive(w, from, to) ==
    /\ pc[w] = from
    /\ IF \E a \in archives : a.generation = base[w].generation /\ a.sealed
         THEN /\ pc' = [pc EXCEPT ![w] = to]
              /\ base' = [base EXCEPT ![w] =
                            CHOOSE a \in archives : a.generation = base[w].generation]
              /\ UNCHANGED <<files, wall, listed, chain, next, history>>
         ELSE Refuse(w)

ListObservations(w, from, to) ==
    /\ Step(w, from, to)
    /\ listed' = [listed EXCEPT ![w] = Numbers(observations)]
    /\ chain' = [chain EXCEPT ![w] = {}]
    /\ UNCHANGED <<files, wall, base, next, history>>

\* The listed files are read one by one; a missing or unwritten one throws.
ReadObservation(w, at) ==
    /\ pc[w] = at
    /\ listed[w] # {}
    /\ LET n == Min(listed[w])
           found == {o \in observations : o.sequence = n /\ o.sealed}
       IN  IF found = {}
             THEN Refuse(w)
             ELSE /\ listed' = [listed EXCEPT ![w] = @ \ {n}]
                  /\ chain' = [chain EXCEPT ![w] = @ \cup found]
                  /\ UNCHANGED <<files, pc, wall, base, next, history>>

\* Fault: the wall time is added to the logical time.
SummedTime(w, before) == wall[w] + before.logical

\* Logical time follows the wall clock but never stands still.
LogicalTime(w, before) ==
    IF wall[w] > before.logical + 1 THEN wall[w] ELSE before.logical + 1

\* Fault: any wall time is accepted.
AnyWall(w, before) == FALSE

RolledBack(w, before) == wall[w] < before.wall - Tolerance

\* The inspection of an observation is complete: what is its record?
Decide(w) ==
    /\ pc[w] = "observeRead"
    /\ listed[w] = {}
    /\ LET before == Latest(base[w], chain[w]) IN
         IF ~ValidChain(base[w], chain[w]) \/ RolledBack(w, before)
           THEN Refuse(w)
           ELSE /\ before.sequence < MaxSequence
                /\ next' = [next EXCEPT ![w] =
                     [sequence |-> before.sequence + 1, sealed |-> TRUE,
                      wall |-> wall[w], logical |-> LogicalTime(w, before),
                      previous |-> before.logical]]
                /\ pc' = [pc EXCEPT ![w] = "create"]
                /\ chain' = [chain EXCEPT ![w] = {}]
                /\ base' = [base EXCEPT ![w] = NoArchive]
                /\ UNCHANGED <<files, wall, listed, history>>

Unwritten(w) == [NoObservation EXCEPT !.sequence = next[w].sequence, !.sealed = FALSE]

\* Fault: an existing observation file is overwritten.
Overwrite(w) ==
    /\ Step(w, "create", "write")
    /\ observations' = {o \in observations : o.sequence # next[w].sequence}
                         \cup {Unwritten(w)}
    /\ top' = Max({top, next[w].sequence})
    /\ stale' = stale
    /\ UNCHANGED <<archives, view, latest, reborn, crashed>>

\* EEXIST starts the inspection over.
Create(w) ==
    /\ pc[w] = "create"
    /\ IF next[w].sequence \in Numbers(observations)
         THEN /\ pc' = [pc EXCEPT ![w] = "observeArchives"]
              /\ next' = [next EXCEPT ![w] = NoObservation]
              /\ UNCHANGED <<files, wall, base, listed, chain, history>>
         ELSE /\ pc' = [pc EXCEPT ![w] = "write"]
              /\ observations' = observations \cup {Unwritten(w)}
              /\ stale' = (stale \/ next[w].sequence <= top)
              /\ top' = Max({top, next[w].sequence})
              /\ UNCHANGED <<archives, view, latest, reborn, crashed>>

\* What is written to a file that has been deleted since appears nowhere.
Write(w) ==
    /\ Step(w, "write", "return")
    /\ observations' = {IF o = Unwritten(w) THEN next[w] ELSE o : o \in observations}
    /\ latest' = next[w]
    /\ UNCHANGED <<archives, view, top, stale, reborn, crashed>>

Return(w) ==
    /\ pc[w] = "return"
    /\ Finish(w)
    /\ UNCHANGED <<files, history>>

-----------------------------------------------------------------------------
\* archiveLeaseClock: the oldest observations but Retain go into an archive.
Archived(w) ==
    {o \in chain[w] : Cardinality({p \in chain[w] : p.sequence > o.sequence}) >= Retain}

DecideArchive(w) ==
    /\ pc[w] = "archiveRead"
    /\ listed[w] = {}
    /\ IF ~ValidChain(base[w], chain[w]) \/ Archived(w) = {}
         THEN Refuse(w)
         ELSE /\ base[w].generation < MaxGeneration
              /\ chain' = [chain EXCEPT ![w] = Archived(w)]
              /\ pc' = [pc EXCEPT ![w] = "archiveCreate"]
              /\ UNCHANGED <<files, wall, base, listed, next, history>>

NextArchive(w) ==
    LET last == Latest(base[w], chain[w]) IN
      [generation |-> base[w].generation + 1, sealed |-> TRUE,
       through |-> last.sequence, wall |-> last.wall, logical |-> last.logical]

UnwrittenArchive(w) ==
    [NoArchive EXCEPT !.generation = base[w].generation + 1, !.sealed = FALSE]

CreateArchive(w) ==
    /\ pc[w] = "archiveCreate"
    /\ IF \E a \in archives : a.generation = base[w].generation + 1
         THEN Refuse(w)
         ELSE /\ archives' = archives \cup {UnwrittenArchive(w)}
              /\ pc' = [pc EXCEPT ![w] = "archiveWrite"]
              /\ reborn' = (reborn \/ \E a \in archives :
                                         a.generation > base[w].generation + 1)
              /\ UNCHANGED <<observations, view, latest, top, stale, crashed>>

WriteArchive(w) ==
    /\ Step(w, "archiveWrite", "delete")
    /\ archives' = {IF a = UnwrittenArchive(w) THEN NextArchive(w) ELSE a : a \in archives}
    /\ UNCHANGED <<observations, view, history>>

\* Fault: the oldest retained observation is deleted as well.
DeleteOneMore(w) ==
    /\ pc[w] = "delete"
    /\ observations' = {o \in observations : o.sequence > NextArchive(w).through + 1}
    /\ pc' = [pc EXCEPT ![w] = "prune"]
    /\ UNCHANGED <<archives, view, history>>

\* The archived observations are deleted one by one, oldest first.
Delete(w) ==
    /\ pc[w] = "delete"
    /\ LET left == {o \in observations : o.sequence \in Numbers(chain[w])} IN
         IF left = {}
           THEN /\ pc' = [pc EXCEPT ![w] = "prune"]
                /\ UNCHANGED observations
           ELSE /\ observations' = {o \in observations : o.sequence # Min(Numbers(left))}
                /\ UNCHANGED pc
    /\ UNCHANGED <<archives, view, history>>

\* All but the Keep newest archives are removed.
Prune(w) ==
    /\ pc[w] = "prune"
    /\ archives' = {a \in archives :
                      Cardinality({b \in archives : b.generation > a.generation}) < Keep}
    /\ Finish(w)
    /\ UNCHANGED <<observations, history>>

Crash(w) ==
    /\ pc[w] # "idle"
    /\ Finish(w)
    /\ crashed' = TRUE
    /\ UNCHANGED <<files, latest, top, stale, reborn>>

-----------------------------------------------------------------------------
Observe(w) ==
    \/ BeginObserve(w)
    \/ ListArchives(w, "observeArchives", "observeArchive", "observeList")
    \/ ReadArchive(w, "observeArchive", "observeList")
    \/ ListObservations(w, "observeList", "observeRead")
    \/ ReadObservation(w, "observeRead")
    \/ Decide(w) \/ Create(w) \/ Write(w) \/ Return(w)

ArchiveClock(w) ==
    \/ BeginArchive(w)
    \/ ListArchives(w, "archiveArchives", "archiveArchive", "archiveList")
    \/ ReadArchive(w, "archiveArchive", "archiveList")
    \/ ListObservations(w, "archiveList", "archiveRead")
    \/ ReadObservation(w, "archiveRead")
    \/ DecideArchive(w) \/ CreateArchive(w) \/ WriteArchive(w)
    \/ Delete(w) \/ Prune(w)

Next == \E w \in Writers : Observe(w) \/ ArchiveClock(w) \/ Crash(w)

Spec == Init /\ [][Next]_vars

-----------------------------------------------------------------------------
TypeOK ==
    /\ observations \subseteq Observation
    /\ archives \subseteq Archive
    /\ pc \in [Writers -> Steps]
    /\ wall \in [Writers -> 0..MaxWall]
    /\ base \in [Writers -> Archive]
    /\ listed \in [Writers -> SUBSET Sequences]
    /\ chain \in [Writers -> SUBSET Observation]
    /\ next \in [Writers -> Observation]
    /\ latest \in Observation
    /\ top \in 0..MaxSequence
    /\ stale \in BOOLEAN
    /\ reborn \in BOOLEAN
    /\ crashed \in BOOLEAN

\* w completes an observation in this step.
Seals(w) == pc[w] = "write" /\ pc'[w] = "return"

\* Every observation is later than the one completed before it, whoever made
\* the two, through any archiving and any crash, as long as no process creates a
\* sequence number that was already used, archived and deleted in the meantime.
TimeAdvances ==
    [][\A w \in Writers : Seals(w) /\ ~stale' => next[w].logical > latest.logical]_vars

\* Under the same condition no observation is completed whose wall time lies
\* further than the tolerance behind the one before it.
RollbackRejected ==
    [][\A w \in Writers : Seals(w) /\ ~stale' =>
          next[w].wall >= latest.wall - Tolerance]_vars

AtRest == \A w \in Writers : pc[w] = "idle"

CurrentArchive == IF archives = {} THEN NoArchive ELSE Newest(archives)

Readable ==
    /\ CurrentArchive.sealed
    /\ \A o \in observations : o.sealed
    /\ ValidChain(CurrentArchive, observations)

Undisturbed == ~crashed /\ ~stale /\ ~reborn

\* Whatever observations and archivings overlapped, once they are over the clock
\* can be read again, unless a process exited or the number of an observation or
\* an archive was used for the second time.
ReadableAtRest == AtRest /\ Undisturbed => Readable

\* "Lease-clock observation sequence is not contiguous" is never true of the
\* files of an archive and its observations when nobody is using them.
ContiguousAtRest ==
    AtRest /\ CurrentArchive.sealed /\ (\A o \in observations : o.sealed)
      => \A o \in observations : o.sequence = Before(CurrentArchive, observations, o).sequence + 1

-----------------------------------------------------------------------------
(***************************************************************************)
(* The inductive invariant behind TimeAdvances and RollbackRejected.       *)
(***************************************************************************)

\* Logical time runs ahead of the wall clock by less than one per observation.
InTime(logical, sequence) == logical <= MaxWall + sequence

Bounded(w) ==
    /\ next[w].sealed
    /\ InTime(next[w].logical, next[w].sequence)
    /\ InTime(base[w].logical, base[w].through)
    /\ \A o \in chain[w] : InTime(o.logical, o.sequence)
    /\ pc[w] \in {"create", "write"} => next[w].sequence # 0
    /\ pc[w] \in {"archiveCreate", "archiveWrite"} => base[w].generation < MaxGeneration

BoundsInv ==
    /\ InTime(latest.logical, latest.sequence)
    /\ \A o \in observations : InTime(o.logical, o.sequence) /\ o.sequence # 0
    /\ \A a \in archives : InTime(a.logical, a.through)
    /\ \A w \in Writers : Bounded(w)

\* What is read of an observation or an archive is not ahead of the observation
\* completed last, and agrees with it if it has its number.
Known(sequence, logical, wallTime) ==
    /\ sequence <= latest.sequence
    /\ sequence = latest.sequence => logical = latest.logical /\ wallTime = latest.wall

\* A record that would come next may come next.
Follows(o) ==
    /\ o.sequence <= latest.sequence + 1
    /\ o.sequence = latest.sequence + 1 =>
          o.logical > latest.logical /\ o.wall >= latest.wall - Tolerance

FilesKnown ==
    /\ latest.sequence = 0 => latest.logical = 0 /\ latest.wall = 0
    /\ top \in {latest.sequence, latest.sequence + 1}
    /\ \A o \in observations :
          /\ o.sealed => Known(o.sequence, o.logical, o.wall)
          /\ ~o.sealed =>
                /\ o = [NoObservation EXCEPT !.sequence = top, !.sealed = FALSE]
                /\ top = latest.sequence + 1
    /\ \A a \in archives : Known(a.through, a.logical, a.wall)

Informed(w) ==
    /\ Known(base[w].through, base[w].logical, base[w].wall)
    /\ \A o \in chain[w] : Known(o.sequence, o.logical, o.wall)
    /\ pc[w] \in {"create", "write"} => Follows(next[w])

\* One observation at most is being written, the one after the latest.
SoleWriter ==
    \A w \in Writers : pc[w] = "write" =>
        /\ next[w].sequence = top /\ top = latest.sequence + 1
        /\ \A v \in Writers : pc[v] = "write" => v = w

ChronologyInv == FilesKnown /\ SoleWriter /\ \A w \in Writers : Informed(w)

IInv == TypeOK /\ BoundsInv /\ (~stale => ChronologyInv)

-----------------------------------------------------------------------------
(***************************************************************************)
(* The inductive invariant behind ReadableAtRest.                          *)
(***************************************************************************)

\* The generations grow by one; only the newest archive may still be unwritten,
\* and then by the one process that created it.
ArchivesInv ==
    /\ \A a \in archives :
          /\ a.generation # 0
          /\ \A b \in archives : b.generation = a.generation => b = a
          /\ ~a.sealed => \E w \in Writers : pc[w] = "archiveWrite" /\ a = UnwrittenArchive(w)
    /\ \A w \in Writers :
          /\ base[w].generation <= CurrentArchive.generation
          /\ pc[w] \in {"archiveList", "archiveRead", "archiveCreate"} =>
                /\ base[w].sealed
                /\ base[w].generation = CurrentArchive.generation => base[w] = CurrentArchive
          /\ pc[w] = "archiveWrite" =>
                /\ CurrentArchive = UnwrittenArchive(w)
                /\ \A v \in Writers : pc[v] = "archiveWrite" => v = w

\* One file per sequence; an unwritten one is being written by its creator.
ObservationsInv ==
    /\ IsFiniteSet(observations)
    /\ \A o \in observations :
          /\ \A p \in observations : p.sequence = o.sequence => p = o
          /\ ~o.sealed => \E w \in Writers : pc[w] = "write" /\ o = Unwritten(w)
    /\ \A w \in Writers :
          /\ pc[w] = "write" => Unwritten(w) \in observations
          /\ pc[w] \in {"create", "write"} /\ next[w].sequence = latest.sequence + 1 =>
                next[w].previous = latest.logical

\* Nothing is missing between an archive and an observation of obs.
Gapless(a, obs) ==
    \A o \in obs : o.sequence > a.through /\ (a.through + 1)..o.sequence \subseteq Numbers(obs)

ChainsInv ==
    \A w \in Writers :
        /\ IsFiniteSet(chain[w])
        /\ \A o \in chain[w] : o.sealed
        /\ pc[w] \in {"archiveCreate", "archiveWrite"} =>
              chain[w] # {} /\ Gapless(base[w], chain[w])

\* b continues what was logged up to the sequence and time of the one before it.
Continues(b, sequence, logical) ==
    b.sequence = sequence + 1 => b.previous = logical /\ b.logical > logical

\* The observations continue a: those behind it are all there and linked, and
\* kept by whoever has read them; those it stands for are about to be deleted.
Founded(a) ==
    /\ \A n \in (a.through + 1)..top : n \in Numbers(observations)
    /\ \A o \in observations : o.sealed =>
          /\ Continues(o, a.through, a.logical)
          /\ \A p \in observations : p.sealed => Continues(o, p.sequence, p.logical)
    /\ \A o \in observations : o.sequence <= a.through =>
          \E w \in Writers : /\ pc[w] \in {"archiveWrite", "delete"}
                             /\ o.sequence \in Numbers(chain[w])
    /\ \A w \in Writers : \A o \in chain[w] :
          /\ o.sequence > a.through => o \in observations
          /\ pc[w] \in {"archiveWrite", "delete"} => o.sequence <= a.through

\* An archive stands for its observations as soon as its file is created.
FoundedInv ==
    /\ CurrentArchive.sealed => Founded(CurrentArchive)
    /\ \A w \in Writers : pc[w] = "archiveWrite" => Founded(NextArchive(w))

ContinuityInv == ArchivesInv /\ ObservationsInv /\ ChainsInv /\ FoundedInv

RestInv == IInv /\ (Undisturbed => ContinuityInv)

=============================================================================
