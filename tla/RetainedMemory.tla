--------------------------- MODULE RetainedMemory ---------------------------
(***************************************************************************)
(* What journaled compaction promises: the memory of a cell changes by     *)
(* whole records and whole compactions.  Only if somebody tampers with it  *)
(* may a compaction be taken back, as a whole and before it is settled, or *)
(* a memory be given up for good.  No mixture is ever taken for a memory.  *)
(***************************************************************************)
EXTENDS MemoryImages

CONSTANTS Cells, GivenUp

VARIABLES
    tampered,   \* the cells whose memory was damaged from outside
    memory,     \* the memory of each cell, or GivenUp
    previous    \* what it was before its unsettled compaction; else the same

retainedVars == <<tampered, memory, previous>>

Init ==
    /\ tampered = {}
    /\ memory \in [Cells -> Image]
    /\ previous = memory

Become(c, m, p) == memory'[c] = m /\ previous'[c] = p

Stays(c)    == Become(c, memory[c], previous[c])
Settles(c)  == Become(c, memory[c], memory[c])
Reverts(c)  == Become(c, previous[c], previous[c])
Compacts(c) == Become(c, Compacted(memory[c]), memory[c])
CompactsAndSettles(c) == LET m == Compacted(memory[c]) IN Become(c, m, m)
Retains(c)  == \E k \in Keys : LET m == Compacted(Remember(memory[c], k)) IN Become(c, m, m)
GivesUp(c)  == Become(c, GivenUp, GivenUp)

Change(c) ==
    /\ memory[c] # GivenUp
    /\ \/ Settles(c) \/ Compacts(c) \/ CompactsAndSettles(c) \/ Retains(c)
       \/ c \in tampered' /\ (Reverts(c) \/ GivesUp(c))

Next ==
    /\ tampered \subseteq tampered'
    /\ memory' = [c \in Cells |-> memory'[c]]
    /\ previous' = [c \in Cells |-> previous'[c]]
    /\ \A c \in Cells : Change(c) \/ Stays(c)

Spec == Init /\ [][Next]_retainedVars

=============================================================================
