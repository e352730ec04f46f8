---------------------------- MODULE MemoryImages ----------------------------
(***************************************************************************)
(* The working and the compressed memory of a cell, and what compacting    *)
(* them yields (buildCompactedState in compaction.js).                     *)
(*                                                                         *)
(* A memory record is the key its summary is grouped by: provenance class, *)
(* event class and actor.  A summary is its key and its count.             *)
(***************************************************************************)
EXTENDS Integers, Sequences, SequencesExt

CONSTANTS
    Keys,               \* provenanceClass | eventClass | actorId
    WorkingBudget,      \* memoryBudget.working
    CompressedBudget    \* memoryBudget.compressed

ASSUME BudgetAssumption == WorkingBudget \in Nat /\ CompressedBudget \in Nat

Summary == [key : Keys, count : Nat]
Image == [working : Seq(Keys), compressed : Seq(Summary)]

Remember(m, k) == [m EXCEPT !.working = Append(@, k)]

Excess(s, budget) == IF Len(s) > budget THEN Len(s) - budget ELSE 0
Overflow(m) == Excess(m.working, WorkingBudget)

\* Fault: a summary that exists already is replaced.
Replace(summaries, k) ==
    SelectSeq(summaries, LAMBDA s : s.key # k) \o <<[key |-> k, count |-> 1]>>

\* One more record of key k in the summaries.
Summarise(summaries, k) ==
    IF \E i \in DOMAIN summaries : summaries[i].key = k
      THEN [i \in DOMAIN summaries |->
              IF summaries[i].key = k
                THEN [summaries[i] EXCEPT !.count = @ + 1]
                ELSE summaries[i]]
      ELSE Append(summaries, [key |-> k, count |-> 1])

Summaries(m) == FoldLeft(Summarise, m.compressed, SubSeq(m.working, 1, Overflow(m)))

\* The summaries that a compaction of m drops, the oldest ones.
Evicted(m) == SubSeq(Summaries(m), 1, Excess(Summaries(m), CompressedBudget))

\* A memory within its working budget is left alone.
Compacted(m) ==
    IF Overflow(m) = 0
      THEN m
      ELSE [working    |-> SubSeq(m.working, Overflow(m) + 1, Len(m.working)),
            compressed |-> SubSeq(Summaries(m),
                                  Excess(Summaries(m), CompressedBudget) + 1,
                                  Len(Summaries(m)))]

\* How many records of key k a sequence of summaries stands for; a record that
\* is in the working memory counts as a summary of one.
Counted(summaries, k) ==
    FoldLeft(LAMBDA n, s : IF s.key = k THEN n + s.count ELSE n, 0, summaries)
Records(s) == [i \in DOMAIN s |-> [key |-> s[i], count |-> 1]]
Remembered(m, k) == Counted(Records(m.working), k) + Counted(m.compressed, k)

=============================================================================
