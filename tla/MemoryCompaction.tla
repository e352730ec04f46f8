-------------------------- MODULE MemoryCompaction --------------------------
(***************************************************************************)
(* Journaled compaction of cell memory (memory.js, compaction.js) and the  *)
(* events that write to it (world.js, arrival.js).                         *)
(*                                                                         *)
(* All of it is synchronous.  What happens between the steps of a          *)
(* compaction is an interruption at one of the four points, after which    *)
(* the world, journal included, is persisted and reloaded, or goes on.     *)
(* Nothing in the program alters a journal or the arrays beside it; damage *)
(* from outside does, and the hashes in the journal are there to find it.  *)
(*                                                                         *)
(* Episodic memory and lineage references are short lists that compaction  *)
(* does not touch; they are left out, and so are memory.js's receipts.     *)
(***************************************************************************)
EXTENDS MemoryImages, FiniteSetsExt

CONSTANTS
    Cells,           \* numbers, in the order of the cell ids
    GivenUp,         \* stands for a memory that cannot be trusted
    Preset,          \* records a cell may have before its budget is set
    MaxRetained,     \* bound: records ever retained
    MaxDamage        \* bound: damage done from outside

ASSUME MemoryAssumption ==
    /\ Cells \subseteq Nat
    /\ GivenUp \notin Image
    /\ Preset \in Nat
    /\ MaxRetained \in Nat
    /\ MaxDamage \in Nat

VARIABLES
    memory,      \* the memory of each cell, with its journal and its receipts
    wake,        \* the wakeState of each cell
    retained,    \* history: how many records of each key a cell was given
    evicted,     \* history: how many of each key went with dropped summaries
    damaged      \* history: how often something was damaged from outside

vars == <<memory, wake, retained, evicted, damaged>>
history == <<retained, evicted, damaged>>

Points == {"AFTER_PREPARE", "AFTER_WORKING_SWAP", "AFTER_COMPRESSED_SWAP",
           "AFTER_COMMIT_RECEIPT"}

Journal == [generation : Nat, before : Image, after : Image,
            beforeIntact : BOOLEAN, afterIntact : BOOLEAN]
NoJournal == [generation |-> 0]
Empty == [working |-> <<>>, compressed |-> <<>>]

\* A compaction id is a hash of the cell, the generation and the images.
CompactionId == [generation : Nat, before : Image, after : Image]
IdOf(j) == [generation |-> j.generation, before |-> j.before, after |-> j.after]

CellMemory == [arrays : Image,                    \* working and compressed
               diverged : BOOLEAN,                \* arrays altered from outside
               journal : Journal \cup {NoJournal},  \* pendingCompaction
               generation : Nat,                  \* compactionGeneration
               repair : BOOLEAN,                  \* compactionRepairRequired
               finals : Seq(CompactionId)]        \* final compaction receipts

Pending(m) == m.journal # NoJournal

-----------------------------------------------------------------------------
\* prepareCompaction.
Prepared(m) ==
    [m EXCEPT !.journal = [generation   |-> m.generation + 1,
                           before       |-> m.arrays,
                           after        |-> Compacted(m.arrays),
                           beforeIntact |-> TRUE,
                           afterIntact  |-> TRUE]]

WorkingSwapped(m) == [m EXCEPT !.arrays.working = m.journal.after.working]
CompressedSwapped(m) == [m EXCEPT !.arrays.compressed = m.journal.after.compressed]

\* Fault: a receipt is written however the compaction comes to its end.
ReceiptAgain(m) == [m EXCEPT !.finals = Append(@, IdOf(m.journal))]

\* finalReceipt: at most one for a compaction id.
Receipted(m) ==
    IF IdOf(m.journal) \in Range(m.finals)
      THEN m
      ELSE [m EXCEPT !.finals = Append(@, IdOf(m.journal))]

\* The journal is cleared and its generation counted.
Cleared(m) ==
    [m EXCEPT !.generation = Max({@, m.journal.generation}),
              !.repair = FALSE, !.journal = NoJournal, !.diverged = FALSE]

\* compactWorkingMemory up to an interruption.
CompactedUntil(m, point) ==
    LET p == Prepared(m)
        w == WorkingSwapped(p)
        c == CompressedSwapped(w)
    IN  [AFTER_PREPARE |-> p, AFTER_WORKING_SWAP |-> w, AFTER_COMPRESSED_SWAP |-> c,
         AFTER_COMMIT_RECEIPT |-> Receipted(c)][point]

\* compactWorkingMemory without one.
CompactedFully(m) ==
    IF Overflow(m.arrays) = 0 THEN m ELSE Cleared(CompactedUntil(m, "AFTER_COMMIT_RECEIPT"))

\* Fault: a mixture of the two images is not recognised.
OneImage(m) == ~m.diverged /\ m.arrays \in {m.journal.before, m.journal.after}

\* Each array is the one of the before-image or the one of the after-image.
Recognised(m) ==
    /\ ~m.diverged
    /\ m.arrays.working \in {m.journal.before.working, m.journal.after.working}
    /\ m.arrays.compressed \in {m.journal.before.compressed, m.journal.after.compressed}

RollsForward(m) == m.journal.beforeIntact /\ m.journal.afterIntact /\ Recognised(m)

\* Fault: the rollback forgets the compressed memory.
WorkingRolledBack(m) ==
    [m EXCEPT !.arrays.working = m.journal.before.working, !.journal = NoJournal,
              !.repair = FALSE, !.diverged = FALSE]

\* Fault: the rollback takes back a generation that was not yet counted.
GenerationBack(m) ==
    [m EXCEPT !.arrays = m.journal.before, !.journal = NoJournal,
              !.generation = @ - 1, !.repair = FALSE, !.diverged = FALSE]

RolledBack(m) ==
    [m EXCEPT !.arrays = m.journal.before, !.journal = NoJournal,
              !.repair = FALSE, !.diverged = FALSE]

\* Fault: the after-image is looked at first.
AfterFirst(m) ==
    IF ~Pending(m) THEN m
    ELSE IF ~m.journal.afterIntact THEN RolledBack(m)
    ELSE IF ~m.journal.beforeIntact THEN [m EXCEPT !.repair = TRUE]
    ELSE IF RollsForward(m) THEN Cleared(Receipted(CompressedSwapped(WorkingSwapped(m))))
    ELSE RolledBack(m)

\* recoverCellMemoryCompaction.
Recovered(m) ==
    IF ~Pending(m) THEN m
    ELSE IF ~m.journal.beforeIntact THEN [m EXCEPT !.repair = TRUE]
    ELSE IF RollsForward(m) THEN Cleared(Receipted(CompressedSwapped(WorkingSwapped(m))))
    ELSE RolledBack(m)

\* retainMemory: recover, remember, compact; it throws, after the recovery, if
\* the memory needs repair.
Retaining(m, k, important) ==
    LET r == Recovered(m) IN
      IF r.repair THEN r
      ELSE CompactedFully(IF important
                            THEN [r EXCEPT !.arrays = Remember(@, k)]
                            ELSE r)

\* The summaries that a step of m's cell drops for good: those of the journal
\* it rolls forward, and those of the compaction it makes.
DroppedByRecovery(m) ==
    IF Pending(m) /\ RollsForward(m) THEN Evicted(m.journal.before) ELSE <<>>
DroppedByRetaining(m, k, important) ==
    LET r == Recovered(m).arrays IN
      DroppedByRecovery(m) \o
      IF Recovered(m).repair THEN <<>>
      ELSE Evicted(IF important THEN Remember(r, k) ELSE r)

-----------------------------------------------------------------------------
Presets == UNION {[1..n -> Keys] : n \in 0..Preset}

Init ==
    /\ \E preset \in [Cells -> Presets] :
          /\ memory = [c \in Cells |-> [arrays |-> [Empty EXCEPT !.working = preset[c]],
                                        diverged |-> FALSE, journal |-> NoJournal,
                                        generation |-> 0, repair |-> FALSE,
                                        finals |-> <<>>]]
          /\ retained = [c \in Cells |-> [k \in Keys |-> Remembered(memory[c].arrays, k)]]
    /\ wake = [c \in Cells |-> "DORMANT"]
    /\ evicted = [c \in Cells |-> [k \in Keys |-> 0]]
    /\ damaged = [c \in Cells |-> 0]

\* compactWorkingMemory with an interruption requested; a pending journal or a
\* repair makes it throw.
Interrupt(c, point) ==
    /\ ~Pending(memory[c]) /\ ~memory[c].repair
    /\ Overflow(memory[c].arrays) > 0
    /\ memory' = [memory EXCEPT ![c] = CompactedUntil(@, point)]
    /\ UNCHANGED <<wake, history>>

Drop(summaries) ==
    evicted' = [c \in Cells |-> [k \in Keys |-> evicted[c][k] + Counted(summaries[c], k)]]

\* The world is persisted and reloaded, which recovers every cell.
Reload ==
    /\ memory' = [c \in Cells |-> Recovered(memory[c])]
    /\ wake' = [c \in Cells |-> IF Recovered(memory[c]).repair THEN "REPAIR" ELSE wake[c]]
    /\ Drop([c \in Cells |-> DroppedByRecovery(memory[c])])
    /\ UNCHANGED <<retained, damaged>>

\* The cells of S that handle an event before one of them throws.
Failing(S) == {c \in S : Recovered(memory[c]).repair}
Handling(S) == {c \in S : \A f \in Failing(S) : c < f}

\* Fault: whatever happens, a cell goes back to sleep.
SleepAnyway(S, c) == "DORMANT"

\* All cells of S are woken first.  Those that handle the event sleep again, the
\* first that needs repair enters REPAIR, and the rest stay awake.
WakeStateAfter(S, c) ==
    IF c \in Handling(S) THEN "DORMANT"
    ELSE IF \A f \in Failing(S) : c <= f THEN "REPAIR" ELSE "ACTIVE"

Handle(S, k, important) ==
    LET reached == {c \in S : \A f \in Failing(S) : c <= f} IN
    /\ memory' = [c \in Cells |->
                    IF c \in reached THEN Retaining(memory[c], k, important) ELSE memory[c]]
    /\ wake' = [c \in Cells |-> IF c \in S THEN WakeStateAfter(S, c) ELSE wake[c]]
    /\ retained' = [c \in Cells |->
                      IF important /\ c \in Handling(S)
                        THEN [retained[c] EXCEPT ![k] = @ + 1] ELSE retained[c]]
    /\ Drop([c \in Cells |-> IF c \in reached THEN DroppedByRetaining(memory[c], k, important)
                                              ELSE <<>>])
    /\ UNCHANGED damaged

Total(c) == FoldFunction(+, 0, retained[c])

\* processEvent at the one or two cells that an event affects.
Event(S, k, important) ==
    /\ \A c \in S : Total(c) < MaxRetained
    /\ Handle(S, k, important)

\* processAcceptedHandoff at a dormant recipient.
Observe(c, k, important) ==
    /\ wake[c] = "DORMANT"
    /\ Total(c) < MaxRetained
    /\ Handle({c}, k, important)

\* Something outside the program alters a pending journal or the arrays.
Damage(c, part) ==
    /\ Pending(memory[c])
    /\ FoldFunction(+, 0, damaged) < MaxDamage
    /\ memory' = [memory EXCEPT ![c] =
                    CASE part = "before" -> [@ EXCEPT !.journal.beforeIntact = FALSE]
                      [] part = "after"  -> [@ EXCEPT !.journal.afterIntact = FALSE]
                      [] part = "arrays" -> [@ EXCEPT !.diverged = TRUE]]
    /\ damaged' = [damaged EXCEPT ![c] = @ + 1]
    /\ UNCHANGED <<wake, retained, evicted>>

Next ==
    \/ \E c \in Cells, point \in Points : Interrupt(c, point)
    \/ Reload
    \/ \E c, d \in Cells, k \in Keys, important \in BOOLEAN : Event({c, d}, k, important)
    \/ \E c \in Cells, k \in Keys, important \in BOOLEAN : Observe(c, k, important)
    \/ \E c \in Cells, part \in {"before", "after", "arrays"} : Damage(c, part)

Spec == Init /\ [][Next]_vars

-----------------------------------------------------------------------------
TypeOK ==
    /\ memory \in [Cells -> CellMemory]
    /\ wake \in [Cells -> {"DORMANT", "ACTIVE", "REPAIR"}]
    /\ retained \in [Cells -> [Keys -> Nat]]
    /\ evicted \in [Cells -> [Keys -> Nat]]
    /\ damaged \in [Cells -> Nat]

\* Whatever was interrupted, damaged, rolled forward or rolled back: with no
\* compaction pending, each record a cell was given is in its working memory,
\* counted once in a summary of its own class, or dropped with an old summary.
Conserved ==
    \A c \in Cells : ~Pending(memory[c]) =>
        \A k \in Keys :
            retained[c][k] = Remembered(memory[c].arrays, k) + evicted[c][k]

\* "at most one final receipt for the compaction ID", and, as long as nothing is
\* damaged, the final receipts of a cell are those of its generations in order,
\* with one more while the last of them is still pending.
ReceiptsNumbered ==
    \A c \in Cells :
        LET m == memory[c] IN
        /\ \A i, j \in DOMAIN m.finals : m.finals[i] = m.finals[j] => i = j
        /\ damaged[c] = 0 =>
              /\ \A i \in DOMAIN m.finals : m.finals[i].generation = i
              /\ Len(m.finals) - m.generation \in IF Pending(m) THEN {0, 1} ELSE {0}

\* A memory that needs repair is left as the evidence it is: no event, recovery
\* or compaction alters its arrays, its journal or its receipts.
FailClosed ==
    [][\A c \in Cells : memory[c].repair /\ damaged'[c] = damaged[c] =>
          memory'[c] = memory[c]]_vars

\* A cell that needs repair is never dormant, so that no handoff is delivered to
\* it, and a cell is left awake only by an event that failed at another one.
WakeFitsRepair ==
    \A c \in Cells :
        /\ memory[c].repair => wake[c] # "DORMANT"
        /\ wake[c] = "ACTIVE" => \E d \in Cells \ {c} : memory[d].repair

\* What recovery would make of the memory, whenever it were run.
Outcome(m) == IF Recovered(m).repair THEN GivenUp ELSE Recovered(m).arrays
Revertible(m) ==
    IF Pending(m) /\ Outcome(m) # GivenUp THEN m.journal.before ELSE Outcome(m)

\* A compaction interrupted at any point of an undamaged cell completes, whatever
\* recovers it: it yields what it would have yielded without the interruption.
InterruptedCompletes ==
    \A c \in Cells :
        Pending(memory[c]) /\ damaged[c] = 0 =>
            Outcome(memory[c]) = Compacted(memory[c].journal.before)

\* Interrupted or not, the cells implement a memory that changes by whole
\* records and whole compactions.
Retained == INSTANCE RetainedMemory WITH
    tampered <- {c \in Cells : damaged[c] > 0},
    memory <- [c \in Cells |-> Outcome(memory[c])],
    previous <- [c \in Cells |-> Revertible(memory[c])]
ImplementsRetained == Retained!Spec

-----------------------------------------------------------------------------
(***************************************************************************)
(* The inductive invariant behind these properties.                        *)
(***************************************************************************)

\* No key is counted in two summaries.
Distinct(s) == \A i, j \in DOMAIN s : s[i].key = s[j].key => i = j

Sound(m) ==
    /\ m \in Image
    /\ Distinct(m.compressed)
    /\ Len(m.compressed) <= CompressedBudget

\* A journal tells of the next compaction of the image it began with.  Each of
\* the arrays is still the one before or already the one after.
JournalOf(m) ==
    LET j == m.journal IN
    /\ j.generation = m.generation + 1
    /\ Sound(j.before)
    /\ Overflow(j.before) > 0
    /\ j.after = Compacted(j.before)
    /\ m.arrays.working \in {j.before.working, j.after.working}
    /\ m.arrays.compressed \in {j.before.compressed, j.after.compressed}

\* What an undamaged cell can rely on.
Undamaged(m) == Pending(m) => m.journal.beforeIntact /\ m.journal.afterIntact /\ ~m.diverged

CellInv(m, undamaged) ==
    /\ Sound(m.arrays)
    /\ Pending(m) => JournalOf(m)
    /\ ~Pending(m) => ~m.diverged
    /\ m.repair => Pending(m) /\ ~m.journal.beforeIntact
    /\ undamaged => Undamaged(m)

\* A receipt one ahead of the generation is that of the pending compaction.
LastReceipt(m, undamaged) ==
    Len(m.finals) = m.generation + 1 /\ undamaged => m.finals[Len(m.finals)] = IdOf(m.journal)

MemoryInv ==
    \A c \in Cells :
        CellInv(memory[c], damaged[c] = 0) /\ LastReceipt(memory[c], damaged[c] = 0)

\* The image whose records have not been evicted yet.
Settled(m) == IF Pending(m) THEN m.journal.before ELSE m.arrays

ConservedInv ==
    \A c \in Cells : \A k \in Keys :
        retained[c][k] = Remembered(Settled(memory[c]), k) + evicted[c][k]

IInv ==
    TypeOK /\ MemoryInv /\ ConservedInv /\ ReceiptsNumbered /\ WakeFitsRepair

=============================================================================
