---------------------- MODULE HandoffScheduler_proofs ----------------------
(***************************************************************************)
(* Proofs about the handoff scheduler, for any grid, any number of         *)
(* schedules and signals, and any limits.                                  *)
(***************************************************************************)
EXTENDS HandoffScheduler, FiniteSetTheorems, WellFoundedInduction, TLAPS

-----------------------------------------------------------------------------
(***************************************************************************)
(* The inductive invariant.                                                *)
(***************************************************************************)
Finite ==
    /\ IsFiniteSet(deferred)
    /\ \A j \in Jobs : IsFiniteSet(queue[j])

Unstarted ==
    \A j \in Jobs : job[j] = NoJob =>
        /\ queue[j] = {}
        /\ Entries(j) = {}
        /\ status[j] = "PENDING"
        /\ j \notin draining

\* No queue holds two handoffs of one arrival.
OneQueued ==
    \A j \in Jobs : \A g, h \in queue[j] : Arrival(g) = Arrival(h) => g = h

\* The cells a handoff has come through have accepted its signal.
PathSeen(h) ==
    \A c \in h.path :
        c = Origin[h.cause] \/ [cause |-> h.cause, recipient |-> c] \in SeenArrivals

PathsSeen ==
    /\ \A j \in Jobs : \A h \in queue[j] : PathSeen(h)
    /\ \A e \in deferred : PathSeen(e.handoff)

\* A schedule that has lost something has counted it.
LossesCounted ==
    \A l \in lost :
        count[l.job].droppedByQueue + count[l.job].droppedByMailbox
          + count[l.job].expired + count[l.job].exhausted > 0

Waits == Finite /\ Unstarted /\ OneQueued /\ OneEntry

IInv ==
    /\ TypeOK /\ Waits
    /\ Bounded /\ Accounted
    /\ PathsSeen /\ NothingVanishes
    /\ LossesCounted /\ LossReported

-----------------------------------------------------------------------------
(***************************************************************************)
(* Finite sets.                                                            *)
(***************************************************************************)

\* Of elements with different natural numbers at most n are numbered below n.
LEMMA NumberedAreFew ==
    ASSUME NEW F, NEW n \in Int, NEW rank \in [F -> Nat],
           \A a, b \in F : rank[a] = rank[b] => a = b,
           \A a \in F : rank[a] < n
    PROVE  IsFiniteSet(F) /\ Cardinality(F) <= IF n < 0 THEN 0 ELSE n
    <1>1. CASE n <= 0
        <2>1. F = {}
            BY <1>1
        <2>. QED BY <1>1, <2>1, FS_EmptySet
    <1>2. CASE n > 0
        <2>1. rank \in Injection(F, 0..(n-1))
            BY DEF Injection, IsInjective
        <2>2. IsFiniteSet(0..(n-1)) /\ Cardinality(0..(n-1)) = n
            BY <1>2, FS_Interval
        <2>3. IsFiniteSet(F) /\ Cardinality(F) <= n
            BY ONLY <2>1, <2>2, FS_Injection
        <2>. QED BY <1>2, <2>3
    <1>. QED BY <1>1, <1>2

\* In a finite set with a strict total order, at most n elements have fewer
\* than n before them.
LEMMA FirstAreFew ==
    ASSUME NEW S, IsFiniteSet(S), NEW before \in [S -> SUBSET S], NEW n \in Int,
           \A a \in S : a \notin before[a],
           \A a, b, c \in S : a \in before[b] /\ b \in before[c] => a \in before[c],
           \A a, b \in S : a # b => a \in before[b] \/ b \in before[a],
           NEW F \in SUBSET S, \A a \in F : Cardinality(before[a]) < n
    PROVE  IsFiniteSet(F) /\ Cardinality(F) <= IF n < 0 THEN 0 ELSE n
    <1>. DEFINE rank == [a \in F |-> Cardinality(before[a])]
    <1>1. \A a \in S : IsFiniteSet(before[a]) /\ Cardinality(before[a]) \in Nat
        BY FS_Subset, FS_CardinalityType
    <1>2. ASSUME NEW a \in S, NEW b \in S, a \in before[b]
          PROVE  Cardinality(before[a]) # Cardinality(before[b])
        <2>1. before[a] \subseteq before[b] /\ a \in before[b] /\ a \notin before[a]
            BY <1>2
        <2>. QED BY <1>1, <2>1, FS_Subset
    <1>3. /\ rank \in [F -> Nat]
          /\ \A a, b \in F : rank[a] = rank[b] => a = b
          /\ \A a \in F : rank[a] < n
        BY <1>1, <1>2
    <1>. HIDE DEF rank
    <1>. QED BY <1>3, NumberedAreFew

\* A set is as large as its two parts.
LEMMA Parts ==
    ASSUME NEW S, IsFiniteSet(S), NEW T \in SUBSET S
    PROVE  /\ IsFiniteSet(T) /\ IsFiniteSet(S \ T)
           /\ Cardinality(T) \in Nat /\ Cardinality(S \ T) \in Nat
           /\ Cardinality(S) = Cardinality(T) + Cardinality(S \ T)
    <1>1. S \cap T = T
        OBVIOUS
    <1>2. IsFiniteSet(T) /\ IsFiniteSet(S \ T)
        BY FS_Subset, FS_Difference
    <1>3. Cardinality(S \ T) = Cardinality(S) - Cardinality(T)
        BY <1>1, FS_Difference
    <1>4. {Cardinality(S), Cardinality(T), Cardinality(S \ T)} \subseteq Nat
        BY <1>2, FS_CardinalityType
    <1>. QED BY <1>2, <1>3, <1>4

\* Disjoint sets add up.
LEMMA Disjoint ==
    ASSUME NEW S, IsFiniteSet(S), NEW T, IsFiniteSet(T), S \cap T = {}
    PROVE  /\ IsFiniteSet(S \cup T)
           /\ Cardinality(S \cup T) = Cardinality(S) + Cardinality(T)
    BY FS_Union, FS_EmptySet, FS_CardinalityType

-----------------------------------------------------------------------------
(***************************************************************************)
(* Cells, handoffs and the sets of them.                                   *)
(***************************************************************************)
LEMMA NeighboursFinite ==
    ASSUME NEW c
    PROVE  IsFiniteSet(Neighbours(c)) /\ Neighbours(c) \subseteq Cells
    <1>1. Width * Height - 1 \in Int
        BY SchedulerAssumption
    <1>2. IsFiniteSet(Cells)
        BY <1>1, FS_Interval DEF Cells
    <1>3. Neighbours(c) \in SUBSET Cells
        BY DEF Neighbours
    <1>. QED BY <1>2, <1>3, FS_Subset

\* The handoffs a signal or a relay asks for: one per neighbour.
Asked(candidates) ==
    /\ candidates \subseteq Handoff
    /\ IsFiniteSet(candidates)
    /\ \A g, h \in candidates : Arrival(g) = Arrival(h) => g = h

\* A signal asks for one handoff per neighbour of its origin ...
LEMMA SignalAsked ==
    ASSUME NEW c \in Causes
    PROVE  Asked(Signal(c))
    <1>. DEFINE f == [d \in Neighbours(Origin[c]) |->
                        [cause |-> c, depth |-> 1, sender |-> Origin[c],
                         recipient |-> d, path |-> {Origin[c]}]]
    <1>1. Signal(c) \subseteq Handoff
        BY NeighboursFinite, SchedulerAssumption DEF Signal, Handoff
    <1>2. f \in Surjection(Neighbours(Origin[c]), Signal(c))
        BY DEF Surjection, Signal
    <1>3. IsFiniteSet(Signal(c))
        BY <1>2, NeighboursFinite, FS_Surjection
    <1>4. \A g, h \in Signal(c) : Arrival(g) = Arrival(h) => g = h
        BY DEF Signal, Arrival
    <1>. QED BY <1>1, <1>3, <1>4 DEF Asked

\* ... and a relay for one per neighbour of the cell that relays.
LEMMA NextAsked ==
    ASSUME NEW h \in Handoff
    PROVE  Asked(NextHandoffs(h))
    <1>1. CASE h.depth >= HopLimit
        BY <1>1, FS_EmptySet DEF NextHandoffs, Asked
    <1>2. CASE ~(h.depth >= HopLimit)
        <2>. DEFINE N == NextHandoffs(h)
                    f == [d \in Neighbours(h.recipient) |->
                            [cause |-> h.cause, depth |-> h.depth + 1, sender |-> h.recipient,
                             recipient |-> d, path |-> h.path \cup {h.recipient}]]
        <2>1. N = {[cause |-> h.cause, depth |-> h.depth + 1, sender |-> h.recipient,
                    recipient |-> d, path |-> h.path \cup {h.recipient}]
                      : d \in Neighbours(h.recipient)}
            BY <1>2 DEF NextHandoffs
        <2>2. N \subseteq Handoff
            BY <1>2, <2>1, NeighboursFinite, SchedulerAssumption DEF Handoff
        <2>3. f \in Surjection(Neighbours(h.recipient), N)
            BY <2>1 DEF Surjection
        <2>4. IsFiniteSet(N)
            BY <2>3, NeighboursFinite, FS_Surjection
        <2>5. \A g, k \in N : Arrival(g) = Arrival(k) => g = k
            BY <2>1 DEF Arrival
        <2>. QED BY <2>2, <2>4, <2>5 DEF Asked
    <1>. QED BY <1>1, <1>2

-----------------------------------------------------------------------------
(***************************************************************************)
(* The steps.                                                              *)
(***************************************************************************)

\* The turns of a drain that take a handoff.
TurnOn(j, h) ==
    Reject(j, h) \/ Accept(j, h) \/ Defer(j, h) \/ DeferDuplicate(j, h) \/ DropByMailbox(j, h)

\* Steps between drains, and the end of one, move no handoff.
Quiet == UNCHANGED <<seen, deferred, job, queue, count, lost>>

\* Every step starts a schedule, begins a drain, takes a handoff, or moves none.
LEMMA StepCases ==
    ASSUME [Next]_vars
    PROVE  \/ \E j \in Jobs, c \in Causes, a \in ArrivalModes, size \in QueueSizes :
                 Start(j, c, a, size)
           \/ \E j \in Jobs, maxProcessed \in Budgets : BeginDrain(j, maxProcessed)
           \/ \E j \in Jobs : \E h \in queue[j] : TurnOn(j, h)
           \/ Quiet
    BY DEF Next, Drain, Turn, TurnOn, Quiet, EndDrain, Occupy, Vacate, Commit, vars

\* Tally adds to the counters it names and leaves all others alone.
LEMMA TallyAdds ==
    ASSUME TypeOK, NEW j \in Jobs, NEW growth,
           \A c \in DOMAIN growth : growth[c] \in Nat,
           Tally(j, growth)
    PROVE  /\ count' \in [Jobs -> [Counters -> Nat]]
           /\ \A k \in Jobs \ {j} : count'[k] = count[k]
           /\ \A c \in Counters :
                 /\ c \in DOMAIN growth => count'[j][c] = count[j][c] + growth[c]
                 /\ c \notin DOMAIN growth => count'[j][c] = count[j][c]
                 /\ count'[j][c] >= count[j][c]
    <1>. DEFINE new == [c \in Counters |->
                          count[j][c] + IF c \in DOMAIN growth THEN growth[c] ELSE 0]
    <1>1. new \in [Counters -> Nat]
        BY DEF TypeOK
    <1>2. count' = [count EXCEPT ![j] = new]
        BY DEF Tally, TypeOK
    <1>. QED BY <1>1, <1>2 DEF TypeOK

-----------------------------------------------------------------------------
(***************************************************************************)
(* What the limits and the sweep pick.                                     *)
(***************************************************************************)

\* enqueueIntoJob: what is fresh is new to the queue, and what fits is fresh.
LEMMA FreshFits ==
    ASSUME NEW candidates, Asked(candidates), NEW q, NEW s, NEW size
    PROVE  LET fresh == Fresh(candidates, q, s)
               fitting == Fitting(fresh, q, size)
           IN  /\ fresh \subseteq candidates
               /\ fitting \subseteq fresh
               /\ Asked(fresh) /\ Asked(fitting)
               /\ Asked(fresh \ fitting) /\ Asked(candidates \ fresh)
               /\ \A h \in fresh : /\ Arrival(h) \notin Arrivals(q)
                                   /\ Arrival(h) \notin Arrivals(s)
                                   /\ Arrival(h) \notin DeferredArrivals
               /\ \A h \in candidates \ fresh :
                     Arrival(h) \in Arrivals(s) \cup Arrivals(q) \cup DeferredArrivals
    <1>. DEFINE fresh == Fresh(candidates, q, s)
                fitting == Fitting(fresh, q, size)
    <1>1. fresh \subseteq candidates /\ fitting \subseteq fresh
        BY DEF Fresh, Fitting, FirstOf
    <1>2. \A S \in SUBSET candidates : Asked(S)
        BY FS_Subset DEF Asked
    <1>3. /\ Asked(fresh) /\ Asked(fitting)
          /\ Asked(fresh \ fitting) /\ Asked(candidates \ fresh)
        BY <1>1, <1>2
    <1>. QED BY <1>1, <1>3 DEF Fresh

\* The fates of a sweep divide the entries of the schedule.
LEMMA SweepParts ==
    ASSUME TypeOK, NEW j \in Jobs
    PROVE  /\ Cancelled(j) \subseteq Entries(j)
           /\ Expired(j) \subseteq Entries(j)
           /\ Waiting(j) \subseteq Entries(j)
           /\ Ready(j) \subseteq Waiting(j)
           /\ Exhausted(j) \subseteq Waiting(j) \ Ready(j)
           /\ Released(j) \subseteq Ready(j)
           /\ Entries(j) \subseteq deferred
           /\ deferred \subseteq Entry
    BY DEF Cancelled, Expired, Waiting, Ready, Exhausted, Released, Entries, TypeOK

\* What stays in a mailbox has grown older, and nothing else.
Aged(j, e) == [e EXCEPT !.left = @ - 1, !.retries = IF e \in Ready(j) THEN @ ELSE @ + 1]
Kept(j) == Waiting(j) \ (Released(j) \cup Exhausted(j))

\* What is retained is what was kept, older by one epoch.
LEMMA RetainedEntries ==
    ASSUME TypeOK, NEW j \in Jobs
    PROVE  /\ Retained(j) = {Aged(j, e) : e \in Kept(j)}
           /\ Kept(j) \subseteq Entries(j)
           /\ \A e \in Kept(j) : /\ Aged(j, e) \in Entry
                                 /\ Aged(j, e).job = j
                                 /\ Aged(j, e).handoff = e.handoff
    <1>1. ASSUME NEW e \in Kept(j)
          PROVE  /\ Aged(j, e) \in Entry
                 /\ Aged(j, e).job = j
                 /\ Aged(j, e).handoff = e.handoff
        <2>1. e \in Entry /\ e.job = j /\ e.left # 1 /\ e \in Waiting(j)
            BY <1>1, SweepParts DEF Waiting, Expired, Entries, Kept
        <2>2. e.left - 1 \in 1..Ttl /\ e.retries \in 0..MaxRetries
            BY <2>1, SchedulerAssumption DEF Entry
        <2>3. e \notin Ready(j) => e.retries + 1 \in 0..MaxRetries
            BY <1>1, <2>1, <2>2, SchedulerAssumption DEF Exhausted, Kept
        <2>. QED BY <2>1, <2>2, <2>3 DEF Entry, Aged
    <1>2. Retained(j) = {Aged(j, e) : e \in Kept(j)}
        BY DEF Retained, Aged, Kept
    <1>3. Kept(j) \subseteq Entries(j)
        BY SweepParts DEF Kept
    <1>. QED BY <1>1, <1>2, <1>3

\* Entries of one arrival are one, so that releasing and ageing keep their number.
LEMMA SweepSizes ==
    ASSUME TypeOK, Finite, OneEntry, NEW j \in Jobs
    PROVE  /\ IsFiniteSet(Retained(j))
           /\ Cardinality(Retained(j)) = Cardinality(Kept(j))
           /\ IsFiniteSet(HandoffsOf(Released(j)))
           /\ Cardinality(HandoffsOf(Released(j))) = Cardinality(Released(j))
           /\ \A f, g \in Retained(j) : Arrival(f.handoff) = Arrival(g.handoff) => f = g
    <1>1. IsFiniteSet(Kept(j)) /\ IsFiniteSet(Released(j))
        BY FS_Subset, SweepParts DEF Finite, Kept
    <1>2. /\ Kept(j) \subseteq deferred /\ Released(j) \subseteq deferred
          /\ \A e, f \in deferred : Arrival(e.handoff) = Arrival(f.handoff) => e = f
        BY SweepParts DEF OneEntry, Kept
    <1>3. IsFiniteSet(Retained(j)) /\ Cardinality(Retained(j)) = Cardinality(Kept(j))
        <2>. DEFINE f == [e \in Kept(j) |-> Aged(j, e)]
        <2>1. f \in Surjection(Kept(j), Retained(j))
            BY RetainedEntries DEF Surjection
        <2>2. f \in Injection(Kept(j), Retained(j))
            BY <1>2, RetainedEntries DEF Injection, IsInjective
        <2>. QED BY <1>1, <2>1, <2>2, FS_Surjection
    <1>4. /\ IsFiniteSet(HandoffsOf(Released(j)))
          /\ Cardinality(HandoffsOf(Released(j))) = Cardinality(Released(j))
        <2>. DEFINE f == [e \in Released(j) |-> e.handoff]
        <2>1. f \in Surjection(Released(j), HandoffsOf(Released(j)))
            BY DEF Surjection, HandoffsOf
        <2>2. f \in Injection(Released(j), HandoffsOf(Released(j)))
            BY <1>2, <2>1 DEF Surjection, Injection, IsInjective
        <2>. QED BY <1>1, <2>1, <2>2, FS_Surjection
    <1>5. \A f, g \in Retained(j) : Arrival(f.handoff) = Arrival(g.handoff) => f = g
        BY <1>2, RetainedEntries
    <1>. QED BY <1>3, <1>4, <1>5

-----------------------------------------------------------------------------
(***************************************************************************)
(* Types.                                                                  *)
(***************************************************************************)
LostTypes == lost' \subseteq [job : Jobs, arrival : [cause : Causes, recipient : Cells]]

\* What is lost is recorded with its schedule and arrival.
LEMMA LoseTypes ==
    ASSUME TypeOK, NEW j \in Jobs, NEW handoffs \in SUBSET Handoff, Lose(j, handoffs)
    PROVE  LostTypes
    BY DEF TypeOK, Lose, Arrivals, Arrival, Handoff, LostTypes

\* The handoffs asked for can be counted.
LEMMA CardinalityOfAsked ==
    ASSUME NEW S, Asked(S)
    PROVE  Cardinality(S) \in Nat
    BY FS_CardinalityType DEF Asked

LEMMA StartTypes ==
    ASSUME TypeOK, NEW j \in Jobs, NEW c \in Causes, NEW a \in ArrivalModes,
           NEW size \in QueueSizes, Start(j, c, a, size)
    PROVE  TypeOK'
    <1>. DEFINE fresh == Fresh(Signal(c), {}, seen)
                fitting == Fitting(fresh, {}, size)
                options == [cause |-> c, arrivals |-> a, maxQueue |-> size,
                            revision |-> revision]
    <1>1. /\ Asked(Signal(c)) /\ Asked(fitting) /\ Asked(fresh \ fitting)
          /\ Asked(Signal(c) \ fresh)
        BY SignalAsked, FreshFits
    <1>2. count' \in [Jobs -> [Counters -> Nat]]
        <2>1. /\ Cardinality(Signal(c)) \in Nat
              /\ Cardinality(Signal(c) \ fresh) \in Nat
              /\ Cardinality(fresh \ fitting) \in Nat
            BY <1>1, CardinalityOfAsked
        <2>2. Tally(j, [initial |-> Cardinality(Signal(c)),
                        coalesced |-> Cardinality(Signal(c) \ fresh),
                        droppedByQueue |-> Cardinality(fresh \ fitting)])
            BY DEF Start
        <2>. HIDE DEF fresh, fitting
        <2>. QED BY <2>1, <2>2, TallyAdds
    <1>3. options \in Options
        BY SchedulerAssumption DEF Options, TypeOK
    <1>4. LostTypes
        BY <1>1, LoseTypes DEF Start, Asked
    <1>5. job' = [job EXCEPT ![j] = options] /\ queue' = [queue EXCEPT ![j] = fitting]
        BY DEF Start
    <1>6. UNCHANGED <<busy, revision, seen, deferred, status, draining, budget>>
        BY DEF Start
    <1>. HIDE DEF fresh, fitting, options
    <1>. QED BY <1>1, <1>2, <1>3, <1>4, <1>5, <1>6 DEF TypeOK, Asked, LostTypes

LEMMA BeginDrainTypes ==
    ASSUME TypeOK, Finite, NEW j \in Jobs, NEW m \in Budgets, BeginDrain(j, m)
    PROVE  TypeOK'
    <1>1. IsFiniteSet(Entries(j)) /\ Entries(j) \subseteq Entry
        BY FS_Subset, SweepParts DEF Finite, Entries
    <1>2. \A S \in SUBSET Entries(j) : Cardinality(S) \in Nat
        BY <1>1, FS_Subset, FS_CardinalityType
    <1>3. count' \in [Jobs -> [Counters -> Nat]]
        <2>1. /\ Cardinality(Released(j)) \in Nat
              /\ Cardinality(Expired(j)) \in Nat
              /\ Cardinality(Exhausted(j)) \in Nat
              /\ Cardinality(Cancelled(j)) \in Nat
            BY <1>2, SweepParts
        <2>. QED BY <2>1, TallyAdds DEF BeginDrain
    <1>4. HandoffsOf(Released(j)) \subseteq Handoff
        BY SweepParts DEF HandoffsOf, Entry
    <1>5. LostTypes
        <2>1. HandoffsOf(Expired(j) \cup Exhausted(j)) \in SUBSET Handoff
            BY SweepParts DEF HandoffsOf, Entry
        <2>. QED BY <2>1, LoseTypes DEF BeginDrain
    <1>6. deferred' \subseteq Entry
        BY RetainedEntries, SweepParts DEF BeginDrain
    <1>7. queue' \in [Jobs -> SUBSET Handoff]
        BY <1>4 DEF BeginDrain, TypeOK
    <1>8. budget' \in Nat /\ draining' \in SUBSET Jobs
        BY SchedulerAssumption DEF BeginDrain
    <1>. QED BY <1>3, <1>5, <1>6, <1>7, <1>8 DEF BeginDrain, TypeOK, LostTypes

LEMMA TurnTypes ==
    ASSUME TypeOK, NEW j \in Jobs, NEW h \in queue[j], TurnOn(j, h)
    PROVE  TypeOK'
    <1>1. h \in Handoff
        BY DEF TypeOK
    <1>2. /\ budget' \in Nat
          /\ UNCHANGED <<busy, revision, job, status, draining>>
        BY DEF TurnOn, Reject, Accept, Defer, DeferDuplicate, DropByMailbox, Take, TypeOK
    <1>3. Dequeue(j, h) => queue' \in [Jobs -> SUBSET Handoff]
        BY DEF Dequeue, TypeOK
    <1>4. CASE Reject(j, h)
        <2>1. count' \in [Jobs -> [Counters -> Nat]]
            BY <1>4, TallyAdds DEF Reject
        <2>. QED BY <1>2, <1>3, <1>4, <2>1 DEF Reject, TypeOK
    <1>5. CASE DeferDuplicate(j, h)
        <2>1. count' \in [Jobs -> [Counters -> Nat]]
            BY <1>5, TallyAdds DEF DeferDuplicate
        <2>. QED BY <1>2, <1>3, <1>5, <2>1 DEF DeferDuplicate, TypeOK
    <1>6. CASE Defer(j, h)
        <2>1. count' \in [Jobs -> [Counters -> Nat]]
            BY <1>6, TallyAdds DEF Defer
        <2>2. deferred' \subseteq Entry
            BY <1>1, <1>6, SchedulerAssumption DEF Defer, Entry, TypeOK
        <2>. QED BY <1>2, <1>3, <1>6, <2>1, <2>2 DEF Defer, TypeOK
    <1>7. CASE DropByMailbox(j, h)
        <2>1. count' \in [Jobs -> [Counters -> Nat]]
            BY <1>7, TallyAdds DEF DropByMailbox
        <2>2. LostTypes
            BY <1>1, <1>7, LoseTypes DEF DropByMailbox
        <2>. QED BY <1>2, <1>3, <1>7, <2>1, <2>2 DEF DropByMailbox, TypeOK, LostTypes
    <1>8. CASE Accept(j, h)
        <2>. DEFINE rest    == queue[j] \ {h}
                    next    == NextHandoffs(h)
                    ledger  == seen \cup {EventId(h)}
                    size    == job[j].maxQueue
                    fresh   == Fresh(next, rest, ledger)
                    fitting == Fitting(fresh, rest, size)
        <2>1. /\ Asked(next) /\ Asked(fitting) /\ Asked(fresh \ fitting)
              /\ Asked(next \ fresh)
            <3>1. Asked(next)
                BY <1>1, NextAsked
            <3>. HIDE DEF next, rest, ledger, size
            <3>. QED BY <3>1, FreshFits
        <2>2. count' \in [Jobs -> [Counters -> Nat]]
            <3>1. /\ Cardinality(next) \in Nat
                  /\ Cardinality(next \ fresh) \in Nat
                  /\ Cardinality(fresh \ fitting) \in Nat
                BY <2>1, CardinalityOfAsked
            <3>. DEFINE growth == [accepted |-> 1, generated |-> Cardinality(next),
                                   coalesced |-> Cardinality(next \ fresh),
                                   droppedByQueue |-> Cardinality(fresh \ fitting)]
            <3>2. Tally(j, growth)
                BY <1>8 DEF Accept
            <3>. HIDE DEF next, fresh, fitting
            <3>3. \A c \in DOMAIN growth : growth[c] \in Nat
                BY <3>1
            <3>. HIDE DEF growth
            <3>. QED BY <3>2, <3>3, TallyAdds
        <2>3. LostTypes
            BY <1>8, <2>1, LoseTypes DEF Accept, Asked
        <2>4. /\ queue' = [queue EXCEPT ![j] = rest \cup fitting]
              /\ seen' = seen \cup {EventId(h)}
              /\ UNCHANGED deferred
            BY <1>8 DEF Accept
        <2>5. EventId(h) \in Event
            BY <1>1 DEF EventId, Event, Handoff
        <2>6. rest \subseteq Handoff
            BY DEF TypeOK
        <2>. HIDE DEF rest, next, fresh, fitting
        <2>. QED BY <1>2, <2>1, <2>2, <2>3, <2>4, <2>5, <2>6 DEF TypeOK, LostTypes, Asked
    <1>. QED BY <1>4, <1>5, <1>6, <1>7, <1>8 DEF TurnOn

LEMMA StepTypes ==
    ASSUME TypeOK, Finite, [Next]_vars
    PROVE  TypeOK'
    <1>1. ASSUME NEW j \in Jobs, EndDrain(j) PROVE TypeOK'
        BY <1>1 DEF EndDrain, TypeOK, DrainStatus, Statuses
    <1>2. ASSUME NEW c \in Cells, Occupy(c) \/ Vacate(c) \/ Commit(c) PROVE TypeOK'
        BY <1>2, SchedulerAssumption DEF Occupy, Vacate, Commit, TypeOK
    <1>3. CASE UNCHANGED vars
        BY <1>3 DEF vars, TypeOK
    <1>. QED
        BY <1>1, <1>2, <1>3, StartTypes, BeginDrainTypes, TurnTypes
        DEF Next, Drain, Turn, TurnOn

-----------------------------------------------------------------------------
(***************************************************************************)
(* Where an arrival may wait.                                              *)
(***************************************************************************)

\* What each step does to the queues and the mailboxes.
LEMMA StartQueues ==
    ASSUME TypeOK, NEW j \in Jobs, NEW c \in Causes, NEW a \in ArrivalModes,
           NEW size \in QueueSizes, Start(j, c, a, size)
    PROVE  /\ job[j] = NoJob /\ job'[j] # NoJob /\ draining = {}
           /\ job'[j].cause = c /\ job'[j].maxQueue = size
           /\ \A k \in Jobs \ {j} : job'[k] = job[k] /\ queue'[k] = queue[k]
           /\ UNCHANGED <<seen, deferred, status, draining>>
           /\ Asked(queue'[j])
           /\ queue'[j] \subseteq Signal(c)
           /\ \A h \in queue'[j] : Arrival(h) \notin SeenArrivals \cup DeferredArrivals
           /\ \A h \in Signal(c) \ queue'[j] :
                 \/ Arrival(h) \in SeenArrivals \cup DeferredArrivals
                 \/ [job |-> j, arrival |-> Arrival(h)] \in lost'
    <1>. DEFINE fresh == Fresh(Signal(c), {}, seen)
                fitting == Fitting(fresh, {}, size)
    <1>1. /\ fresh \subseteq Signal(c) /\ fitting \subseteq fresh /\ Asked(fitting)
          /\ \A h \in fresh : Arrival(h) \notin Arrivals(seen) \cup DeferredArrivals
          /\ \A h \in Signal(c) \ fresh :
                Arrival(h) \in Arrivals(seen) \cup Arrivals({}) \cup DeferredArrivals
        BY SignalAsked, FreshFits
    <1>2. Arrivals({}) = {}
        BY DEF Arrivals
    <1>3. \A h \in fresh \ fitting : [job |-> j, arrival |-> Arrival(h)] \in lost'
        BY DEF Start, Lose, Arrivals
    <1>4. /\ queue' = [queue EXCEPT ![j] = fitting] /\ draining = {} /\ job[j] = NoJob
          /\ job' = [job EXCEPT ![j] = [cause |-> c, arrivals |-> a, maxQueue |-> size,
                                        revision |-> revision]]
          /\ UNCHANGED <<seen, deferred, status, draining>>
        BY DEF Start
    <1>. HIDE DEF fresh, fitting
    <1>5. queue'[j] = fitting /\ \A k \in Jobs \ {j} : job'[k] = job[k] /\ queue'[k] = queue[k]
        BY <1>4 DEF TypeOK
    <1>6. job'[j] # NoJob /\ job'[j].cause = c /\ job'[j].maxQueue = size
        BY <1>4, SchedulerAssumption DEF TypeOK, NoJob
    <1>. QED BY <1>1, <1>2, <1>3, <1>4, <1>5, <1>6 DEF SeenArrivals

\* A sweep moves entries from the mailboxes into the queue.
LEMMA BeginDrainQueues ==
    ASSUME TypeOK, NEW j \in Jobs, NEW m \in Budgets, BeginDrain(j, m)
    PROVE  /\ job[j] # NoJob /\ draining = {} /\ draining' = {j}
           /\ deferred' = (deferred \ Entries(j)) \cup Retained(j)
           /\ queue'[j] = queue[j] \cup HandoffsOf(Released(j))
           /\ \A k \in Jobs \ {j} : queue'[k] = queue[k]
           /\ UNCHANGED <<seen, job, status>>
    BY DEF BeginDrain, TypeOK

\* A turn that does not accept takes its handoff out of the queue, and leaves
\* the mailboxes alone unless it defers.
LEMMA TurnQueues ==
    ASSUME TypeOK, NEW j \in Jobs, NEW h \in queue[j], TurnOn(j, h)
    PROVE  /\ h \in Handoff /\ draining = {j}
           /\ UNCHANGED <<job, status, draining>>
           /\ \A k \in Jobs \ {j} : queue'[k] = queue[k]
           /\ ~Accept(j, h) => queue'[j] = queue[j] \ {h} /\ UNCHANGED seen
           /\ ~Defer(j, h) => UNCHANGED deferred
           /\ Defer(j, h) => /\ ~Accept(j, h)
                             /\ Arrival(h) \notin DeferredArrivals
                             /\ deferred' = deferred \cup {[job |-> j, handoff |-> h,
                                                            left |-> Ttl, retries |-> 0]}
    <1>1. h \in Handoff
        BY DEF TypeOK
    <1>2. /\ draining = {j} /\ UNCHANGED <<job, status, draining>>
          /\ \A k \in Jobs \ {j} : queue'[k] = queue[k]
        BY DEF TurnOn, Reject, Accept, Defer, DeferDuplicate, DropByMailbox, Take, Dequeue, TypeOK
    <1>3. ~Accept(j, h) => queue'[j] = queue[j] \ {h} /\ UNCHANGED seen
        BY DEF TurnOn, Reject, Defer, DeferDuplicate, DropByMailbox, Dequeue, TypeOK
    <1>4. ~Defer(j, h) => UNCHANGED deferred
        BY DEF TurnOn, Reject, Accept, DeferDuplicate, DropByMailbox
    <1>5. Defer(j, h) => /\ ~Accept(j, h)
                         /\ Arrival(h) \notin DeferredArrivals
                         /\ deferred' = deferred \cup {[job |-> j, handoff |-> h,
                                                        left |-> Ttl, retries |-> 0]}
        BY DEF Defer, Accept
    <1>. QED BY <1>1, <1>2, <1>3, <1>4, <1>5

\* An accepted handoff is seen; what it asks for is queued, waits elsewhere or is lost.
LEMMA AcceptQueues ==
    ASSUME TypeOK, NEW j \in Jobs, NEW h \in queue[j], Accept(j, h)
    PROVE  /\ Admissible(h)
           /\ seen' = seen \cup {EventId(h)}
           /\ \E fitting :
                 /\ queue'[j] = (queue[j] \ {h}) \cup fitting
                 /\ Asked(fitting) /\ fitting \subseteq NextHandoffs(h)
                 /\ \A g \in fitting :
                       /\ Arrival(g) \notin SeenArrivals'
                       /\ Arrival(g) \notin Arrivals(queue[j] \ {h}) \cup DeferredArrivals
           /\ \A g \in NextHandoffs(h) \ queue'[j] :
                 \/ Arrival(g) \in SeenArrivals' \cup DeferredArrivals \cup Arrivals(queue'[j])
                 \/ [job |-> j, arrival |-> Arrival(g)] \in lost'
    <1>. DEFINE rest    == queue[j] \ {h}
                next    == NextHandoffs(h)
                ledger  == seen \cup {EventId(h)}
                size    == job[j].maxQueue
                fresh   == Fresh(next, rest, ledger)
                fitting == Fitting(fresh, rest, size)
    <1>1. Asked(next)
        BY NextAsked DEF TypeOK
    <1>2. /\ fresh \subseteq next /\ fitting \subseteq fresh /\ Asked(fitting)
          /\ \A g \in fresh : /\ Arrival(g) \notin Arrivals(ledger)
                             /\ Arrival(g) \notin Arrivals(rest) \cup DeferredArrivals
          /\ \A g \in next \ fresh :
                Arrival(g) \in Arrivals(ledger) \cup Arrivals(rest) \cup DeferredArrivals
        <2>. HIDE DEF next, rest, ledger, size
        <2>. QED BY <1>1, FreshFits
    <1>3. \A g \in fresh \ fitting : [job |-> j, arrival |-> Arrival(g)] \in lost'
        BY DEF Accept, Lose, Arrivals
    <1>4. /\ Admissible(h) /\ seen' = ledger
          /\ queue' = [queue EXCEPT ![j] = rest \cup fitting]
        BY DEF Accept
    <1>. HIDE DEF next, ledger, size, fresh, fitting
    <1>5. queue'[j] = rest \cup fitting
        BY <1>4 DEF TypeOK
    <1>6. Arrivals(rest) \subseteq Arrivals(queue'[j]) /\ Arrivals(ledger) = SeenArrivals'
        BY <1>4, <1>5 DEF Arrivals, SeenArrivals
    <1>. QED BY <1>2, <1>3, <1>4, <1>5, <1>6 DEF next, ledger

LEMMA StepFinite ==
    ASSUME TypeOK, Waits, [Next]_vars
    PROVE  Finite'
    <1>. USE DEF Waits
    <1>1. ASSUME NEW j \in Jobs, NEW c \in Causes, NEW a \in ArrivalModes,
                 NEW size \in QueueSizes, Start(j, c, a, size)
          PROVE  Finite'
        BY <1>1, StartQueues DEF Finite, Asked
    <1>2. ASSUME NEW j \in Jobs, NEW m \in Budgets, BeginDrain(j, m)
          PROVE  Finite'
        <2>1. IsFiniteSet(deferred \ Entries(j))
            BY FS_Difference DEF Finite
        <2>2. IsFiniteSet(Retained(j)) /\ IsFiniteSet(HandoffsOf(Released(j)))
            BY SweepSizes
        <2>3. IsFiniteSet((deferred \ Entries(j)) \cup Retained(j))
            BY <2>1, <2>2, FS_Union
        <2>4. IsFiniteSet(queue[j] \cup HandoffsOf(Released(j)))
            BY <2>2, FS_Union DEF Finite
        <2>. QED BY <1>2, <2>3, <2>4, BeginDrainQueues DEF Finite
    <1>3. ASSUME NEW j \in Jobs, NEW h \in queue[j], TurnOn(j, h)
          PROVE  Finite'
        <2>1. \A e : IsFiniteSet(deferred \cup {e})
            BY FS_AddElement DEF Finite
        <2>2. IsFiniteSet(queue[j] \ {h})
            BY FS_RemoveElement DEF Finite
        <2>3. \A fitting : Asked(fitting) => IsFiniteSet((queue[j] \ {h}) \cup fitting)
            BY <2>2, FS_Union DEF Asked
        <2>4. CASE Accept(j, h)
            <3>1. PICK fitting : queue'[j] = (queue[j] \ {h}) \cup fitting /\ Asked(fitting)
                BY <2>4, AcceptQueues
            <3>2. IsFiniteSet(queue'[j]) /\ deferred' = deferred
                BY <2>3, <2>4, <3>1 DEF Accept
            <3>. QED BY <1>3, <3>2, TurnQueues DEF Finite
        <2>5. CASE ~Accept(j, h)
            <3>1. IsFiniteSet(queue'[j])
                BY <1>3, <2>2, <2>5, TurnQueues
            <3>2. IsFiniteSet(deferred')
                <4>1. CASE Defer(j, h)
                    <5>1. PICK new : deferred' = deferred \cup {new}
                        BY <1>3, <4>1, TurnQueues
                    <5>. QED BY <2>1, <5>1
                <4>2. CASE ~Defer(j, h)
                    BY <1>3, <4>2, TurnQueues DEF Finite
                <4>. QED BY <4>1, <4>2
            <3>. QED BY <1>3, <3>1, <3>2, TurnQueues DEF Finite
        <2>. QED BY <2>4, <2>5
    <1>4. CASE Quiet
        BY <1>4 DEF Quiet, Finite
    <1>. QED BY <1>1, <1>2, <1>3, <1>4, StepCases

LEMMA StepUnstarted ==
    ASSUME TypeOK, Waits, [Next]_vars
    PROVE  Unstarted'
    <1>. USE DEF Waits
    <1>1. ASSUME NEW j \in Jobs, NEW c \in Causes, NEW a \in ArrivalModes,
                 NEW size \in QueueSizes, Start(j, c, a, size)
          PROVE  Unstarted'
        BY <1>1, StartQueues DEF Unstarted, Entries
    <1>2. ASSUME NEW j \in Jobs, NEW m \in Budgets, BeginDrain(j, m)
          PROVE  Unstarted'
        <2>1. ASSUME NEW k \in Jobs, job[k] = NoJob
              PROVE  k # j /\ Entries(k)' = {}
            <3>1. k # j
                BY <1>2, <2>1, BeginDrainQueues
            <3>2. \A e \in Retained(j) : e.job = j
                BY RetainedEntries
            <3>3. \A e \in deferred' : e.job # k
                BY <1>2, <2>1, <3>1, <3>2, BeginDrainQueues DEF Unstarted, Entries
            <3>. QED BY <3>1, <3>3 DEF Entries
        <2>. QED BY <1>2, <2>1, BeginDrainQueues DEF Unstarted
    <1>3. ASSUME NEW j \in Jobs, NEW h \in queue[j], TurnOn(j, h)
          PROVE  Unstarted'
        <2>1. job[j] # NoJob
            BY DEF Unstarted
        <2>. QED BY <1>3, <2>1, TurnQueues DEF Unstarted, Entries
    <1>4. ASSUME NEW j \in Jobs, EndDrain(j) PROVE Unstarted'
        BY <1>4 DEF Unstarted, EndDrain, Entries, TypeOK
    <1>5. CASE UNCHANGED <<job, queue, deferred, status, draining>>
        BY <1>5 DEF Unstarted, Entries
    <1>. QED
        BY <1>1, <1>2, <1>3, <1>4, <1>5
        DEF Next, Drain, Turn, TurnOn, Occupy, Vacate, Commit, vars

LEMMA StepOneQueued ==
    ASSUME TypeOK, Waits, [Next]_vars
    PROVE  OneQueued'
    <1>. USE DEF Waits
    <1>1. ASSUME NEW j \in Jobs, NEW c \in Causes, NEW a \in ArrivalModes,
                 NEW size \in QueueSizes, Start(j, c, a, size)
          PROVE  OneQueued'
        BY <1>1, StartQueues DEF OneQueued, Asked
    <1>2. ASSUME NEW j \in Jobs, NEW m \in Budgets, BeginDrain(j, m)
          PROVE  OneQueued'
        <2>1. ASSUME NEW e \in Released(j)
              PROVE  /\ Arrival(e.handoff) \notin Arrivals(queue[j])
                     /\ \A f \in Released(j) : Arrival(e.handoff) = Arrival(f.handoff) => e = f
            BY <2>1, SweepParts DEF OneEntry, Entries
        <2>2. \A g, h \in queue'[j] : Arrival(g) = Arrival(h) => g = h
            BY <1>2, <2>1, BeginDrainQueues DEF OneQueued, HandoffsOf, Arrivals
        <2>. QED BY <1>2, <2>2, BeginDrainQueues DEF OneQueued
    <1>3. ASSUME NEW j \in Jobs, NEW h \in queue[j], TurnOn(j, h)
          PROVE  OneQueued'
        <2>1. CASE Accept(j, h)
            <3>1. PICK fitting :
                      /\ queue'[j] = (queue[j] \ {h}) \cup fitting
                      /\ Asked(fitting)
                      /\ \A g \in fitting : Arrival(g) \notin Arrivals(queue[j] \ {h})
                BY <2>1, AcceptQueues
            <3>2. \A g, k \in queue'[j] : Arrival(g) = Arrival(k) => g = k
                BY <3>1 DEF OneQueued, Asked, Arrivals
            <3>. QED BY <1>3, <3>2, TurnQueues DEF OneQueued
        <2>2. CASE ~Accept(j, h)
            BY <1>3, <2>2, TurnQueues DEF OneQueued
        <2>. QED BY <2>1, <2>2
    <1>4. CASE Quiet
        BY <1>4 DEF Quiet, OneQueued
    <1>. QED BY <1>1, <1>2, <1>3, <1>4, StepCases

LEMMA StepOneEntry ==
    ASSUME TypeOK, Waits, [Next]_vars
    PROVE  OneEntry'
    <1>. USE DEF Waits
    <1>1. ASSUME NEW j \in Jobs, NEW c \in Causes, NEW a \in ArrivalModes,
                 NEW size \in QueueSizes, Start(j, c, a, size)
          PROVE  OneEntry'
        <2>1. \A e \in deferred : Arrival(e.handoff) \notin Arrivals(queue'[j])
            BY <1>1, StartQueues DEF Arrivals, DeferredArrivals
        <2>2. \A e \in deferred : e.job \in Jobs
            BY DEF TypeOK, Entry
        <2>. QED BY <1>1, <2>1, <2>2, StartQueues DEF OneEntry
    <1>2. ASSUME NEW j \in Jobs, NEW m \in Budgets, BeginDrain(j, m)
          PROVE  OneEntry'
        <2>1. /\ deferred' = (deferred \ Entries(j)) \cup Retained(j)
              /\ queue'[j] = queue[j] \cup HandoffsOf(Released(j))
              /\ \A k \in Jobs \ {j} : queue'[k] = queue[k]
            BY <1>2, BeginDrainQueues
        <2>2. ASSUME NEW f \in Retained(j)
              PROVE  /\ f.job = j
                     /\ \A e \in deferred \ Entries(j) : Arrival(e.handoff) # Arrival(f.handoff)
                     /\ Arrival(f.handoff) \notin Arrivals(queue'[j])
            <3>1. PICK e \in Kept(j) : f = Aged(j, e)
                BY RetainedEntries
            <3>2. f.job = j /\ f.handoff = e.handoff /\ e \in Entries(j) /\ e \in deferred
                BY <3>1, RetainedEntries, SweepParts
            <3>3. e \notin Released(j) /\ e.job = j
                BY <3>2 DEF Kept, Entries
            <3>4. \A d \in Released(j) : Arrival(d.handoff) # Arrival(e.handoff)
                BY <3>2, <3>3, SweepParts DEF OneEntry
            <3>5. Arrival(e.handoff) \notin Arrivals(queue'[j])
                BY <2>1, <3>2, <3>3, <3>4 DEF OneEntry, Arrivals, HandoffsOf
            <3>. QED BY <3>2, <3>5 DEF OneEntry
        <2>3. \A e \in deferred \ Entries(j) : e.job \in Jobs \ {j}
            BY DEF TypeOK, Entry, Entries
        <2>4. \A e, f \in deferred' : Arrival(e.handoff) = Arrival(f.handoff) => e = f
            BY <2>1, <2>2, SweepSizes DEF OneEntry
        <2>5. \A e \in deferred' : Arrival(e.handoff) \notin Arrivals(queue'[e.job])
            BY <2>1, <2>2, <2>3 DEF OneEntry
        <2>. QED BY <2>4, <2>5 DEF OneEntry
    <1>3. ASSUME NEW j \in Jobs, NEW h \in queue[j], TurnOn(j, h)
          PROVE  OneEntry'
        <2>1. \A e \in deferred : e.job \in Jobs
            BY DEF TypeOK, Entry
        <2>2. CASE Defer(j, h)
            <3>. DEFINE new == [job |-> j, handoff |-> h, left |-> Ttl, retries |-> 0]
            <3>1. /\ deferred' = deferred \cup {new} /\ queue'[j] = queue[j] \ {h}
                  /\ Arrival(h) \notin DeferredArrivals
                  /\ \A k \in Jobs \ {j} : queue'[k] = queue[k]
                BY <1>3, <2>2, TurnQueues
            <3>2. new.job = j /\ new.handoff = h
                OBVIOUS
            <3>3. Arrival(h) \notin Arrivals(queue'[j])
                BY <3>1 DEF OneQueued, Arrivals
            <3>. HIDE DEF new
            <3>4. \A e, f \in deferred' : Arrival(e.handoff) = Arrival(f.handoff) => e = f
                BY <3>1, <3>2 DEF OneEntry, DeferredArrivals
            <3>5. \A e \in deferred' : Arrival(e.handoff) \notin Arrivals(queue'[e.job])
                BY <2>1, <3>1, <3>2, <3>3 DEF OneEntry, Arrivals
            <3>. QED BY <3>4, <3>5 DEF OneEntry
        <2>3. CASE Accept(j, h)
            <3>1. PICK fitting :
                      /\ queue'[j] = (queue[j] \ {h}) \cup fitting
                      /\ \A g \in fitting : Arrival(g) \notin DeferredArrivals
                BY <2>3, AcceptQueues
            <3>2. deferred' = deferred
                BY <2>3 DEF Accept
            <3>3. \A e \in deferred : e.job = j => Arrival(e.handoff) \notin Arrivals(queue'[j])
                BY <3>1 DEF OneEntry, Arrivals, DeferredArrivals
            <3>. QED BY <1>3, <2>1, <3>2, <3>3, TurnQueues DEF OneEntry
        <2>4. CASE ~Defer(j, h) /\ ~Accept(j, h)
            BY <1>3, <2>1, <2>4, TurnQueues DEF OneEntry, Arrivals
        <2>. QED BY <2>2, <2>3, <2>4
    <1>4. CASE Quiet
        BY <1>4 DEF Quiet, OneEntry
    <1>. QED BY <1>1, <1>2, <1>3, <1>4, StepCases

-----------------------------------------------------------------------------
(***************************************************************************)
(* What each step counts.                                                  *)
(***************************************************************************)
LEMMA StartCounts ==
    ASSUME TypeOK, NEW j \in Jobs, NEW c \in Causes, NEW a \in ArrivalModes,
           NEW size \in QueueSizes, Start(j, c, a, size)
    PROVE  LET fresh == Fresh(Signal(c), {}, seen)
               fitting == Fitting(fresh, {}, size)
           IN  /\ \A k \in Jobs \ {j} : count'[k] = count[k]
               /\ count'[j].initial = count[j].initial + Cardinality(Signal(c))
               /\ count'[j].coalesced = count[j].coalesced + Cardinality(Signal(c) \ fresh)
               /\ count'[j].droppedByQueue =
                    count[j].droppedByQueue + Cardinality(fresh \ fitting)
               /\ \A n \in Counters \ {"initial", "coalesced", "droppedByQueue"} :
                     count'[j][n] = count[j][n]
               /\ {Cardinality(Signal(c)), Cardinality(Signal(c) \ fresh),
                   Cardinality(fresh \ fitting)} \subseteq Nat
               /\ \A n \in Counters : count'[j][n] >= count[j][n]
    <1>. DEFINE fresh == Fresh(Signal(c), {}, seen)
                fitting == Fitting(fresh, {}, size)
                growth == [initial |-> Cardinality(Signal(c)),
                           coalesced |-> Cardinality(Signal(c) \ fresh),
                           droppedByQueue |-> Cardinality(fresh \ fitting)]
    <1>1. Asked(Signal(c)) /\ Asked(fresh \ fitting) /\ Asked(Signal(c) \ fresh)
        BY SignalAsked, FreshFits
    <1>2. /\ Cardinality(Signal(c)) \in Nat
          /\ Cardinality(Signal(c) \ fresh) \in Nat
          /\ Cardinality(fresh \ fitting) \in Nat
        BY <1>1, CardinalityOfAsked
    <1>3. Tally(j, growth)
        BY DEF Start
    <1>. HIDE DEF fresh, fitting
    <1>4. /\ \A n \in DOMAIN growth : growth[n] \in Nat
          /\ DOMAIN growth = {"initial", "coalesced", "droppedByQueue"}
          /\ growth.initial = Cardinality(Signal(c))
          /\ growth.coalesced = Cardinality(Signal(c) \ fresh)
          /\ growth.droppedByQueue = Cardinality(fresh \ fitting)
        BY <1>2
    <1>. HIDE DEF growth
    <1>5. /\ \A k \in Jobs \ {j} : count'[k] = count[k]
          /\ \A n \in Counters :
                /\ n \in DOMAIN growth => count'[j][n] = count[j][n] + growth[n]
                /\ n \notin DOMAIN growth => count'[j][n] = count[j][n]
                /\ count'[j][n] >= count[j][n]
        BY <1>3, <1>4, TallyAdds
    <1>6. {"initial", "coalesced", "droppedByQueue"} \subseteq Counters
        BY DEF Counters
    <1>. QED BY <1>2, <1>4, <1>5, <1>6 DEF fresh, fitting

LEMMA BeginDrainCounts ==
    ASSUME TypeOK, Finite, NEW j \in Jobs, NEW m \in Budgets, BeginDrain(j, m)
    PROVE  /\ \A k \in Jobs \ {j} : count'[k] = count[k]
           /\ count'[j].released = count[j].released + Cardinality(Released(j))
           /\ count'[j].expired = count[j].expired + Cardinality(Expired(j))
           /\ count'[j].exhausted = count[j].exhausted + Cardinality(Exhausted(j))
           /\ count'[j].cancelled = count[j].cancelled + Cardinality(Cancelled(j))
           /\ \A n \in Counters \ {"released", "expired", "exhausted", "cancelled"} :
                 count'[j][n] = count[j][n]
           /\ \A S \in SUBSET Entries(j) : IsFiniteSet(S) /\ Cardinality(S) \in Nat
           /\ \A n \in Counters : count'[j][n] >= count[j][n]
    <1>. DEFINE growth == [released  |-> Cardinality(Released(j)),
                           expired   |-> Cardinality(Expired(j)),
                           exhausted |-> Cardinality(Exhausted(j)),
                           cancelled |-> Cardinality(Cancelled(j))]
    <1>1. \A S \in SUBSET Entries(j) : IsFiniteSet(S) /\ Cardinality(S) \in Nat
        BY FS_Subset, FS_CardinalityType, SweepParts DEF Finite
    <1>2. /\ Cardinality(Released(j)) \in Nat /\ Cardinality(Expired(j)) \in Nat
          /\ Cardinality(Exhausted(j)) \in Nat /\ Cardinality(Cancelled(j)) \in Nat
        BY <1>1, SweepParts
    <1>3. Tally(j, growth)
        BY DEF BeginDrain
    <1>4. /\ \A n \in DOMAIN growth : growth[n] \in Nat
          /\ DOMAIN growth = {"released", "expired", "exhausted", "cancelled"}
          /\ growth.released = Cardinality(Released(j))
          /\ growth.expired = Cardinality(Expired(j))
          /\ growth.exhausted = Cardinality(Exhausted(j))
          /\ growth.cancelled = Cardinality(Cancelled(j))
        BY <1>2
    <1>. HIDE DEF growth
    <1>5. /\ \A k \in Jobs \ {j} : count'[k] = count[k]
          /\ \A n \in Counters :
                /\ n \in DOMAIN growth => count'[j][n] = count[j][n] + growth[n]
                /\ n \notin DOMAIN growth => count'[j][n] = count[j][n]
                /\ count'[j][n] >= count[j][n]
        BY <1>3, <1>4, TallyAdds
    <1>6. {"released", "expired", "exhausted", "cancelled"} \subseteq Counters
        BY DEF Counters
    <1>. QED BY <1>1, <1>4, <1>5, <1>6

\* Mailboxes can be counted.
LEMMA MailboxFinite ==
    ASSUME Finite, NEW c
    PROVE  IsFiniteSet(Mailbox(c)) /\ Cardinality(Mailbox(c)) \in Nat
    <1>1. Mailbox(c) \in SUBSET deferred
        BY DEF Mailbox
    <1>. QED BY <1>1, FS_Subset, FS_CardinalityType DEF Finite

\* A turn that does not accept its handoff counts it once.
LEMMA TurnCounts ==
    ASSUME TypeOK, Finite, NEW j \in Jobs, NEW h \in queue[j], TurnOn(j, h), ~Accept(j, h)
    PROVE  /\ \A k \in Jobs \ {j} : count'[k] = count[k]
           /\ \E fate \in {"rejected", "deferred", "duplicate", "droppedByMailbox"} :
                 /\ count'[j][fate] = count[j][fate] + 1
                 /\ \A n \in Counters \ {fate} : count'[j][n] = count[j][n]
                 /\ fate = "rejected" <=> Reject(j, h)
                 /\ fate = "deferred" <=> Defer(j, h)
                 /\ fate = "droppedByMailbox" <=> DropByMailbox(j, h)
           /\ \A n \in Counters : count'[j][n] >= count[j][n]
    <1>. DEFINE Counts(fate) ==
                   /\ \A k \in Jobs \ {j} : count'[k] = count[k]
                   /\ count'[j][fate] = count[j][fate] + 1
                   /\ \A n \in Counters \ {fate} : count'[j][n] = count[j][n]
                   /\ \A n \in Counters : count'[j][n] >= count[j][n]
    <1>1. Reject(j, h) => Counts("rejected")
        BY TallyAdds DEF Reject, Counters
    <1>2. Defer(j, h) => Counts("deferred")
        BY TallyAdds DEF Defer, Counters
    <1>3. DeferDuplicate(j, h) => Counts("duplicate")
        BY TallyAdds DEF DeferDuplicate, Counters
    <1>4. DropByMailbox(j, h) => Counts("droppedByMailbox")
        BY TallyAdds DEF DropByMailbox, Counters
    <1>5. /\ ~(Reject(j, h) /\ (Defer(j, h) \/ DeferDuplicate(j, h) \/ DropByMailbox(j, h)))
          /\ ~(Defer(j, h) /\ (DeferDuplicate(j, h) \/ DropByMailbox(j, h)))
          /\ ~(DeferDuplicate(j, h) /\ DropByMailbox(j, h))
        <2>1. Reject(j, h) => ~Admissible(h)
            BY DEF Reject
        <2>2. Defer(j, h) => /\ Admissible(h) /\ Arrival(h) \notin DeferredArrivals
                             /\ Cardinality(Mailbox(h.recipient)) < MaxMailbox
            BY DEF Defer, MustWait
        <2>3. DeferDuplicate(j, h) => Admissible(h) /\ Arrival(h) \in DeferredArrivals
            BY DEF DeferDuplicate, MustWait
        <2>4. DropByMailbox(j, h) => /\ Admissible(h) /\ Arrival(h) \notin DeferredArrivals
                                     /\ Cardinality(Mailbox(h.recipient)) >= MaxMailbox
            BY DEF DropByMailbox, MustWait
        <2>5. Cardinality(Mailbox(h.recipient)) \in Nat /\ MaxMailbox \in Nat
            BY MailboxFinite, SchedulerAssumption
        <2>. QED BY <2>1, <2>2, <2>3, <2>4, <2>5
    <1>. QED BY <1>1, <1>2, <1>3, <1>4, <1>5 DEF TurnOn

LEMMA AcceptCounts ==
    ASSUME TypeOK, NEW j \in Jobs, NEW h \in queue[j], Accept(j, h)
    PROVE  LET rest    == queue[j] \ {h}
               next    == NextHandoffs(h)
               fresh   == Fresh(next, rest, seen \cup {EventId(h)})
               fitting == Fitting(fresh, rest, job[j].maxQueue)
           IN  /\ \A k \in Jobs \ {j} : count'[k] = count[k]
               /\ count'[j].accepted = count[j].accepted + 1
               /\ count'[j].generated = count[j].generated + Cardinality(next)
               /\ count'[j].coalesced = count[j].coalesced + Cardinality(next \ fresh)
               /\ count'[j].droppedByQueue =
                    count[j].droppedByQueue + Cardinality(fresh \ fitting)
               /\ \A n \in Counters \ {"accepted", "generated", "coalesced", "droppedByQueue"} :
                     count'[j][n] = count[j][n]
               /\ {Cardinality(next), Cardinality(next \ fresh),
                   Cardinality(fresh \ fitting)} \subseteq Nat
               /\ \A n \in Counters : count'[j][n] >= count[j][n]
    <1>. DEFINE rest    == queue[j] \ {h}
                next    == NextHandoffs(h)
                ledger  == seen \cup {EventId(h)}
                size    == job[j].maxQueue
                fresh   == Fresh(next, rest, ledger)
                fitting == Fitting(fresh, rest, size)
                growth  == [accepted |-> 1, generated |-> Cardinality(next),
                            coalesced |-> Cardinality(next \ fresh),
                            droppedByQueue |-> Cardinality(fresh \ fitting)]
    <1>1. Asked(next)
        BY NextAsked DEF TypeOK
    <1>2. Asked(fresh \ fitting) /\ Asked(next \ fresh)
        <2>. HIDE DEF next, rest, ledger, size
        <2>. QED BY <1>1, FreshFits
    <1>3. /\ Cardinality(next) \in Nat
          /\ Cardinality(next \ fresh) \in Nat
          /\ Cardinality(fresh \ fitting) \in Nat
        BY <1>1, <1>2, CardinalityOfAsked
    <1>4. Tally(j, growth)
        BY DEF Accept
    <1>. HIDE DEF next, fresh, fitting
    <1>5. /\ \A n \in DOMAIN growth : growth[n] \in Nat
          /\ DOMAIN growth = {"accepted", "generated", "coalesced", "droppedByQueue"}
          /\ growth.accepted = 1
          /\ growth.generated = Cardinality(next)
          /\ growth.coalesced = Cardinality(next \ fresh)
          /\ growth.droppedByQueue = Cardinality(fresh \ fitting)
        BY <1>3
    <1>. HIDE DEF growth
    <1>6. /\ \A k \in Jobs \ {j} : count'[k] = count[k]
          /\ \A n \in Counters :
                /\ n \in DOMAIN growth => count'[j][n] = count[j][n] + growth[n]
                /\ n \notin DOMAIN growth => count'[j][n] = count[j][n]
                /\ count'[j][n] >= count[j][n]
        BY <1>4, <1>5, TallyAdds
    <1>7. {"accepted", "generated", "coalesced", "droppedByQueue"} \subseteq Counters
        BY DEF Counters
    <1>8. /\ \A k \in Jobs \ {j} : count'[k] = count[k]
          /\ count'[j].accepted = count[j].accepted + 1
          /\ count'[j].generated = count[j].generated + Cardinality(next)
          /\ count'[j].coalesced = count[j].coalesced + Cardinality(next \ fresh)
          /\ count'[j].droppedByQueue = count[j].droppedByQueue + Cardinality(fresh \ fitting)
          /\ \A n \in Counters \ {"accepted", "generated", "coalesced", "droppedByQueue"} :
                count'[j][n] = count[j][n]
          /\ \A n \in Counters : count'[j][n] >= count[j][n]
        BY <1>5, <1>6, <1>7
    <1>. QED BY <1>3, <1>8 DEF next, fresh, fitting

-----------------------------------------------------------------------------
(***************************************************************************)
(* Accepted once.                                                          *)
(***************************************************************************)
\* Only an acceptance counts one, and its arrival was not in the ledger.
LEMMA StepAcceptedOnce ==
    ASSUME TypeOK, Finite, [Next]_vars, NEW k \in Jobs,
           count'[k].accepted > count[k].accepted
    PROVE  \E e \in seen' \ seen : Arrival(e) \notin SeenArrivals
    <1>0. "accepted" \in Counters
        BY DEF Counters
    <1>1. ASSUME count'[k].accepted = count[k].accepted PROVE FALSE
        BY <1>0, <1>1 DEF TypeOK
    <1>2. ASSUME NEW j \in Jobs, NEW c \in Causes, NEW a \in ArrivalModes,
                 NEW size \in QueueSizes, Start(j, c, a, size)
          PROVE  FALSE
        BY <1>0, <1>1, <1>2, StartCounts
    <1>3. ASSUME NEW j \in Jobs, NEW m \in Budgets, BeginDrain(j, m)
          PROVE  FALSE
        BY <1>0, <1>1, <1>3, BeginDrainCounts
    <1>4. ASSUME NEW j \in Jobs, NEW h \in queue[j], TurnOn(j, h)
          PROVE  \E e \in seen' \ seen : Arrival(e) \notin SeenArrivals
        <2>1. Accept(j, h)
            BY <1>0, <1>1, <1>4, TurnCounts
        <2>2. EventId(h) \in seen' /\ Arrival(EventId(h)) \notin SeenArrivals
            BY <2>1, AcceptQueues DEF Admissible, EventId, Arrival
        <2>3. EventId(h) \notin seen
            BY <2>2 DEF SeenArrivals, Arrivals
        <2>. QED BY <2>2, <2>3
    <1>5. CASE Quiet
        BY <1>1, <1>5 DEF Quiet
    <1>. QED BY <1>2, <1>3, <1>4, <1>5, StepCases


-----------------------------------------------------------------------------
(***************************************************************************)
(* Nothing vanishes.                                                       *)
(***************************************************************************)
\* Neither the ledger nor the losses ever shrink.
LEMMA StepGrows ==
    ASSUME TypeOK, [Next]_vars
    PROVE  SeenArrivals \subseteq SeenArrivals' /\ lost \subseteq lost'
    <1>1. seen \subseteq seen' /\ lost \subseteq lost'
        BY DEF Next, Drain, Turn, Start, BeginDrain, Reject, Accept, Defer, DeferDuplicate,
               DropByMailbox, EndDrain, Occupy, Vacate, Commit, Lose, vars
    <1>. QED BY <1>1 DEF SeenArrivals, Arrivals

\* The arrival of an accepted handoff is in the ledger.
LEMMA AcceptSees ==
    ASSUME TypeOK, NEW j \in Jobs, NEW h \in queue[j], Accept(j, h)
    PROVE  Arrival(h) \in SeenArrivals'
    <1>1. EventId(h) \in seen'
        BY DEF Accept
    <1>2. Arrival(EventId(h)) = Arrival(h)
        BY DEF Arrival, EventId
    <1>. QED BY <1>1, <1>2 DEF SeenArrivals, Arrivals

\* Handoffs keep paths of cells that have accepted their signal.
LEMMA StepPathsSeen ==
    ASSUME TypeOK, PathsSeen, [Next]_vars
    PROVE  PathsSeen'
    <1>1. ASSUME NEW h, PathSeen(h) PROVE PathSeen(h)'
        BY <1>1, StepGrows DEF PathSeen
    <1>2. \A j \in Jobs : \A h \in queue[j] : PathSeen(h)'
        BY <1>1 DEF PathsSeen
    <1>3. \A e \in deferred : PathSeen(e.handoff)'
        BY <1>1 DEF PathsSeen
    <1>4. ASSUME NEW j \in Jobs, NEW c \in Causes, NEW a \in ArrivalModes,
                 NEW size \in QueueSizes, Start(j, c, a, size)
          PROVE  PathsSeen'
        <2>1. \A h \in queue'[j] : PathSeen(h)'
            BY <1>4, StartQueues DEF Signal, PathSeen
        <2>. QED BY <1>2, <1>3, <1>4, <2>1, StartQueues DEF PathsSeen
    <1>5. ASSUME NEW j \in Jobs, NEW m \in Budgets, BeginDrain(j, m)
          PROVE  PathsSeen'
        <2>1. \A e \in Retained(j) : \E d \in deferred : e.handoff = d.handoff
            BY RetainedEntries, SweepParts
        <2>2. \A h \in HandoffsOf(Released(j)) : PathSeen(h)'
            BY <1>3, SweepParts DEF HandoffsOf
        <2>3. \A e \in deferred' : \E d \in deferred : e.handoff = d.handoff
            BY <1>5, <2>1, BeginDrainQueues
        <2>4. \A e \in deferred' : PathSeen(e.handoff)'
            BY <1>3, <2>3
        <2>. QED BY <1>2, <1>5, <2>2, <2>4, BeginDrainQueues DEF PathsSeen
    <1>6. ASSUME NEW j \in Jobs, NEW h \in queue[j], TurnOn(j, h)
          PROVE  PathsSeen'
        <2>1. \A g \in queue'[j] : PathSeen(g)'
            <3>1. CASE Accept(j, h)
                <4>1. PICK fitting : /\ queue'[j] = (queue[j] \ {h}) \cup fitting
                                     /\ fitting \subseteq NextHandoffs(h)
                    BY <3>1, AcceptQueues
                <4>2. Arrival(h) \in SeenArrivals'
                    BY <3>1, AcceptSees
                <4>3. \A g \in NextHandoffs(h) : /\ g.cause = h.cause
                                                 /\ g.path = h.path \cup {h.recipient}
                    BY DEF NextHandoffs
                <4>4. \A g \in fitting : PathSeen(g)'
                    BY <1>2, <4>1, <4>2, <4>3 DEF PathSeen, Arrival
                <4>. QED BY <1>2, <4>1, <4>4
            <3>2. CASE ~Accept(j, h)
                BY <1>2, <1>6, <3>2, TurnQueues
            <3>. QED BY <3>1, <3>2
        <2>2. \A e \in deferred' : PathSeen(e.handoff)'
            BY <1>2, <1>3, <1>6, TurnQueues
        <2>. QED BY <1>2, <1>6, <2>1, <2>2, TurnQueues DEF PathsSeen
    <1>7. CASE Quiet
        BY <1>2, <1>3, <1>7 DEF Quiet, PathsSeen
    <1>. QED BY <1>4, <1>5, <1>6, <1>7, StepCases

\* What became of an arrival.
Somewhere(a) ==
    \/ a.recipient = Origin[a.cause]
    \/ a \in SeenArrivals
    \/ a \in DeferredArrivals
    \/ \E j \in Jobs : a \in Arrivals(queue[j])
    \/ \E l \in lost : l.arrival = a

LEMMA NothingVanishesMeans == NothingVanishes <=> \A a \in Offered : Somewhere(a)
    BY DEF NothingVanishes, Somewhere

\* No step takes an arrival away without putting it somewhere else.
LEMMA StepSomewhere ==
    ASSUME TypeOK, Waits, PathsSeen, [Next]_vars, NEW a, Somewhere(a)
    PROVE  Somewhere(a)'
    <1>1. CASE a.recipient = Origin[a.cause] \/ a \in SeenArrivals \/ \E l \in lost : l.arrival = a
        BY <1>1, StepGrows DEF Somewhere
    <1>2. ASSUME NEW e \in deferred, a = Arrival(e.handoff)
          PROVE  Somewhere(a)'
        <2>1. CASE deferred \subseteq deferred'
            BY <1>2, <2>1 DEF Somewhere, DeferredArrivals
        <2>2. ASSUME NEW j \in Jobs, NEW m \in Budgets, BeginDrain(j, m)
              PROVE  Somewhere(a)'
            <3>1. CASE e \notin Entries(j)
                BY <1>2, <2>2, <3>1, BeginDrainQueues DEF Somewhere, DeferredArrivals
            <3>2. CASE e \in Cancelled(j)
                BY <1>2, <3>2, StepGrows DEF Somewhere, Cancelled
            <3>3. CASE e \in Expired(j) \cup Exhausted(j)
                <4>1. [job |-> j, arrival |-> a] \in lost'
                    BY <1>2, <2>2, <3>3 DEF BeginDrain, Lose, HandoffsOf, Arrivals
                <4>. QED BY <4>1 DEF Somewhere
            <3>4. CASE e \in Released(j)
                BY <1>2, <2>2, <3>4, BeginDrainQueues DEF Somewhere, HandoffsOf, Arrivals
            <3>5. CASE e \in Kept(j)
                <4>1. Aged(j, e) \in deferred' /\ Aged(j, e).handoff = e.handoff
                    BY <2>2, <3>5, BeginDrainQueues, RetainedEntries
                <4>. QED BY <1>2, <4>1 DEF Somewhere, DeferredArrivals
            <3>. QED BY <3>1, <3>2, <3>3, <3>4, <3>5 DEF Kept, Waiting
        <2>3. \/ \E j \in Jobs, m \in Budgets : BeginDrain(j, m)
              \/ deferred \subseteq deferred'
            BY DEF Next, Drain, Turn, Start, Reject, Accept, Defer, DeferDuplicate,
                   DropByMailbox, EndDrain, Occupy, Vacate, Commit, vars
        <2>. QED BY <2>1, <2>2, <2>3
    <1>3. ASSUME NEW j \in Jobs, NEW h \in queue[j], a = Arrival(h)
          PROVE  Somewhere(a)'
        <2>1. CASE h \in queue'[j]
            BY <1>3, <2>1 DEF Somewhere, Arrivals
        <2>2. ASSUME NEW k \in Jobs, NEW c \in Causes, NEW b \in ArrivalModes,
                     NEW size \in QueueSizes, Start(k, c, b, size)
              PROVE  h \in queue'[j]
            BY <2>2, StartQueues DEF Waits, Unstarted
        <2>3. ASSUME NEW k \in Jobs, NEW m \in Budgets, BeginDrain(k, m)
              PROVE  h \in queue'[j]
            BY <2>3, BeginDrainQueues
        <2>4. ASSUME NEW k \in Jobs, NEW g \in queue[k], TurnOn(k, g), k # j \/ g # h
              PROVE  h \in queue'[j]
            <3>1. CASE k # j
                BY <2>4, <3>1, TurnQueues
            <3>2. CASE k = j /\ Accept(k, g)
                <4>1. PICK fitting : queue'[k] = (queue[k] \ {g}) \cup fitting
                    BY <3>2, AcceptQueues
                <4>. QED BY <2>4, <3>2, <4>1
            <3>3. CASE k = j /\ ~Accept(k, g)
                BY <2>4, <3>3, TurnQueues
            <3>. QED BY <3>1, <3>2, <3>3
        <2>5. ASSUME TurnOn(j, h)
              PROVE  Somewhere(a)'
            <3>1. CASE Accept(j, h)
                BY <1>3, <3>1, AcceptSees DEF Somewhere
            <3>2. CASE Reject(j, h)
                \* A queued handoff whose recipient is on its path is rejected, too: that cell
                \* has accepted the signal.
                <4>1. \/ EventId(h) \in seen
                      \/ h.recipient \in h.path
                      \/ Arrival(h) \in SeenArrivals
                    BY <3>2 DEF Reject, Admissible
                <4>2. EventId(h) \in seen => Arrival(h) \in SeenArrivals
                    BY DEF SeenArrivals, Arrivals, Arrival, EventId
                <4>3. h.recipient \in h.path =>
                        Arrival(h) \in SeenArrivals \/ h.recipient = Origin[h.cause]
                    BY DEF PathsSeen, PathSeen, Arrival
                <4>4. a \in SeenArrivals \/ a.recipient = Origin[a.cause]
                    BY <1>3, <4>1, <4>2, <4>3 DEF Arrival
                <4>. QED BY <4>4, StepGrows DEF Somewhere
            <3>3. CASE Defer(j, h)
                <4>. DEFINE new == [job |-> j, handoff |-> h, left |-> Ttl, retries |-> 0]
                <4>1. new \in deferred' /\ new.handoff = h
                    BY <3>3 DEF Defer
                <4>. HIDE DEF new
                <4>. QED BY <1>3, <4>1 DEF Somewhere, DeferredArrivals
            <3>4. CASE DeferDuplicate(j, h)
                BY <1>3, <3>4 DEF DeferDuplicate, Somewhere, DeferredArrivals
            <3>5. CASE DropByMailbox(j, h)
                <4>1. [job |-> j, arrival |-> a] \in lost'
                    BY <1>3, <3>5 DEF DropByMailbox, Lose, Arrivals
                <4>. QED BY <4>1 DEF Somewhere
            <3>. QED BY <2>5, <3>1, <3>2, <3>3, <3>4, <3>5 DEF TurnOn
        <2>6. ASSUME Quiet PROVE h \in queue'[j]
            BY <2>6 DEF Quiet
        <2>. QED BY <2>1, <2>2, <2>3, <2>4, <2>5, <2>6, StepCases
    <1>. QED BY <1>1, <1>2, <1>3 DEF Somewhere, DeferredArrivals, Arrivals

\* What a step asks for, it puts somewhere.
LEMMA StepOffers ==
    ASSUME TypeOK, Waits, PathsSeen, [Next]_vars, NEW a \in Offered'
    PROVE  a \in Offered \/ Somewhere(a)'
    <1>1. CASE seen' = seen /\ job' = job
        BY <1>1 DEF Offered
    <1>2. ASSUME NEW j \in Jobs, NEW c \in Causes, NEW b \in ArrivalModes,
                 NEW size \in QueueSizes, Start(j, c, b, size)
          PROVE  a \in Offered \/ Somewhere(a)'
        <2>1. a \in Offered \/ a \in Arrivals(Signal(c))
            BY <1>2, StartQueues DEF Offered
        <2>2. ASSUME NEW h \in Signal(c), a = Arrival(h)
              PROVE  Somewhere(a)'
            <3>1. CASE h \in queue'[j]
                BY <2>2, <3>1 DEF Somewhere, Arrivals
            <3>2. CASE Arrival(h) \in SeenArrivals \cup DeferredArrivals
                BY <1>2, <2>2, <3>2, StartQueues DEF Somewhere, SeenArrivals, DeferredArrivals
            <3>3. CASE [job |-> j, arrival |-> Arrival(h)] \in lost'
                BY <2>2, <3>3 DEF Somewhere
            <3>. QED BY <1>2, <3>1, <3>2, <3>3, StartQueues
        <2>. QED BY <2>1, <2>2 DEF Arrivals
    <1>3. ASSUME NEW j \in Jobs, NEW h \in queue[j], Accept(j, h)
          PROVE  a \in Offered \/ Somewhere(a)'
        <2>1. job' = job /\ deferred' = deferred /\ seen' = seen \cup {EventId(h)}
            BY <1>3 DEF Accept, Take
        <2>2. \/ a \in Offered
              \/ /\ EventId(h).depth < HopLimit
                 /\ \E d \in Neighbours(EventId(h).recipient) :
                       a = [cause |-> EventId(h).cause, recipient |-> d]
            BY <2>1 DEF Offered
        <2>3. ASSUME h.depth < HopLimit, NEW d \in Neighbours(h.recipient),
                     a = [cause |-> h.cause, recipient |-> d]
              PROVE  Somewhere(a)'
            <3>1. ~(h.depth >= HopLimit)
                BY <2>3, SchedulerAssumption DEF TypeOK, Handoff
            <3>. DEFINE g == [cause |-> h.cause, depth |-> h.depth + 1,
                              sender |-> h.recipient, recipient |-> d,
                              path |-> h.path \cup {h.recipient}]
            <3>2. g \in NextHandoffs(h) /\ a = Arrival(g)
                BY <2>3, <3>1 DEF NextHandoffs, Arrival
            <3>. HIDE DEF g
            <3>3. CASE g \in queue'[j]
                BY <3>2, <3>3 DEF Somewhere, Arrivals
            <3>4. CASE Arrival(g) \in SeenArrivals' \cup DeferredArrivals \cup Arrivals(queue'[j])
                BY <2>1, <3>2, <3>4 DEF Somewhere, DeferredArrivals
            <3>5. CASE [job |-> j, arrival |-> Arrival(g)] \in lost'
                BY <3>2, <3>5 DEF Somewhere
            <3>6. \A k \in NextHandoffs(h) \ queue'[j] :
                     \/ Arrival(k) \in SeenArrivals' \cup DeferredArrivals \cup Arrivals(queue'[j])
                     \/ [job |-> j, arrival |-> Arrival(k)] \in lost'
                BY <1>3, AcceptQueues
            <3>. QED BY <3>2, <3>3, <3>4, <3>5, <3>6
        <2>. QED BY <2>2, <2>3 DEF EventId
    <1>4. ASSUME NEW j \in Jobs, NEW h \in queue[j], TurnOn(j, h), ~Accept(j, h)
          PROVE  seen' = seen /\ job' = job
        BY <1>4, TurnQueues
    <1>. QED BY <1>1, <1>2, <1>3, <1>4, StepCases, BeginDrainQueues DEF Quiet

LEMMA StepNothingVanishes ==
    ASSUME TypeOK, Waits, PathsSeen, NothingVanishes, [Next]_vars
    PROVE  NothingVanishes'
    <1>1. \A a \in Offered' : Somewhere(a)'
        BY StepSomewhere, StepOffers, NothingVanishesMeans
    <1>. QED BY <1>1 DEF NothingVanishes, Somewhere

-----------------------------------------------------------------------------
(***************************************************************************)
(* Losses are counted and reported.                                        *)
(***************************************************************************)
Losses(k) ==
    count[k].droppedByQueue + count[k].droppedByMailbox + count[k].expired + count[k].exhausted

\* No counter ever shrinks.
LEMMA StepCountsGrow ==
    ASSUME TypeOK, Finite, [Next]_vars, NEW k \in Jobs
    PROVE  /\ \A n \in Counters : count'[k][n] >= count[k][n]
           /\ Losses(k)' >= Losses(k)
    <1>1. \A n \in Counters : count'[k][n] >= count[k][n]
        <2>1. ASSUME NEW n \in Counters, count'[k][n] = count[k][n]
              PROVE  count'[k][n] >= count[k][n]
            BY <2>1 DEF TypeOK
        <2>2. ASSUME NEW j \in Jobs, NEW c \in Causes, NEW a \in ArrivalModes,
                     NEW size \in QueueSizes, Start(j, c, a, size)
              PROVE  \A n \in Counters : count'[k][n] >= count[k][n]
            BY <2>1, <2>2, StartCounts
        <2>3. ASSUME NEW j \in Jobs, NEW m \in Budgets, BeginDrain(j, m)
              PROVE  \A n \in Counters : count'[k][n] >= count[k][n]
            BY <2>1, <2>3, BeginDrainCounts
        <2>4. ASSUME NEW j \in Jobs, NEW h \in queue[j], TurnOn(j, h)
              PROVE  \A n \in Counters : count'[k][n] >= count[k][n]
            <3>1. CASE Accept(j, h)
                BY <2>1, <3>1, AcceptCounts
            <3>2. CASE ~Accept(j, h)
                BY <2>1, <2>4, <3>2, TurnCounts
            <3>. QED BY <3>1, <3>2
        <2>5. CASE Quiet
            BY <2>1, <2>5 DEF Quiet
        <2>. QED BY <2>2, <2>3, <2>4, <2>5, StepCases
    <1>2. {"droppedByQueue", "droppedByMailbox", "expired", "exhausted"} \subseteq Counters
        BY DEF Counters
    <1>3. \A n \in Counters : count[k][n] \in Nat /\ count'[k][n] \in Nat
        BY StepTypes DEF TypeOK
    <1>. QED BY <1>1, <1>2, <1>3 DEF Losses

\* A step that loses something is one of the schedule that loses it, and counts it.
LEMMA StepLoses ==
    ASSUME TypeOK, Finite, [Next]_vars, NEW l \in lost' \ lost
    PROVE  /\ l.job \in Jobs
           /\ Losses(l.job)' > Losses(l.job)
           /\ \/ /\ job[l.job] = NoJob /\ UNCHANGED <<status, draining>>
              \/ draining' = {l.job} /\ UNCHANGED status
    <1>1. ASSUME NEW j \in Jobs, NEW n \in {"droppedByQueue", "droppedByMailbox", "expired", "exhausted"},
                 count'[j][n] > count[j][n]
          PROVE  Losses(j)' > Losses(j)
        <2>1. {"droppedByQueue", "droppedByMailbox", "expired", "exhausted"} \subseteq Counters
            BY DEF Counters
        <2>2. /\ \A c \in Counters : count[j][c] \in Nat /\ count'[j][c] \in Nat
              /\ \A c \in Counters : count'[j][c] >= count[j][c]
            BY StepTypes, StepCountsGrow DEF TypeOK
        <2>. QED BY <1>1, <2>1, <2>2 DEF Losses
    <1>2. ASSUME NEW j \in Jobs, NEW handoffs, Lose(j, handoffs)
          PROVE  l.job = j /\ handoffs # {}
        BY <1>2 DEF Lose, Arrivals
    <1>3. ASSUME NEW S, IsFiniteSet(S), S # {} PROVE Cardinality(S) \in Nat /\ Cardinality(S) > 0
        BY <1>3, FS_EmptySet, FS_CardinalityType
    <1>4. \A j \in Jobs, n \in Counters : count[j][n] \in Nat
        BY DEF TypeOK
    <1>5. ASSUME NEW j \in Jobs, NEW c \in Causes, NEW a \in ArrivalModes,
                 NEW size \in QueueSizes, Start(j, c, a, size)
          PROVE  /\ l.job = j /\ Losses(j)' > Losses(j)
                 /\ job[j] = NoJob /\ UNCHANGED <<status, draining>>
        <2>. DEFINE fresh == Fresh(Signal(c), {}, seen)
                    fitting == Fitting(fresh, {}, size)
        <2>1. l.job = j /\ fresh \ fitting # {}
            BY <1>2, <1>5 DEF Start
        <2>2. IsFiniteSet(fresh \ fitting)
            BY SignalAsked, FreshFits DEF Asked
        <2>3. count'[j].droppedByQueue = count[j].droppedByQueue + Cardinality(fresh \ fitting)
            BY <1>5, StartCounts
        <2>. HIDE DEF fresh, fitting
        <2>4. count'[j].droppedByQueue > count[j].droppedByQueue
            BY <1>3, <1>4, <2>1, <2>2, <2>3 DEF Counters
        <2>. QED BY <1>1, <1>5, <2>1, <2>4, StartQueues
    <1>6. ASSUME NEW j \in Jobs, NEW m \in Budgets, BeginDrain(j, m)
          PROVE  l.job = j /\ Losses(j)' > Losses(j) /\ draining' = {j} /\ UNCHANGED status
        <2>1. l.job = j /\ HandoffsOf(Expired(j) \cup Exhausted(j)) # {}
            BY <1>2, <1>6 DEF BeginDrain
        <2>2. Expired(j) # {} \/ Exhausted(j) # {}
            BY <2>1 DEF HandoffsOf
        <2>3. IsFiniteSet(Expired(j)) /\ IsFiniteSet(Exhausted(j))
            BY <1>6, BeginDrainCounts, SweepParts
        <2>4. /\ count'[j].expired = count[j].expired + Cardinality(Expired(j))
              /\ count'[j].exhausted = count[j].exhausted + Cardinality(Exhausted(j))
            BY <1>6, BeginDrainCounts
        <2>5. count'[j].expired > count[j].expired \/ count'[j].exhausted > count[j].exhausted
            BY <1>3, <1>4, <2>2, <2>3, <2>4 DEF Counters
        <2>. QED BY <1>1, <1>6, <2>1, <2>5, BeginDrainQueues
    <1>7. ASSUME NEW j \in Jobs, NEW h \in queue[j], TurnOn(j, h)
          PROVE  l.job = j /\ Losses(j)' > Losses(j) /\ draining' = {j} /\ UNCHANGED status
        <2>1. draining' = {j} /\ UNCHANGED status
            BY <1>7, TurnQueues
        <2>2. Accept(j, h) \/ DropByMailbox(j, h)
            BY <1>7 DEF TurnOn, Reject, Defer, DeferDuplicate
        <2>3. CASE Accept(j, h)
            <3>. DEFINE rest    == queue[j] \ {h}
                        next    == NextHandoffs(h)
                        ledger  == seen \cup {EventId(h)}
                        size    == job[j].maxQueue
                        fresh   == Fresh(next, rest, ledger)
                        fitting == Fitting(fresh, rest, size)
            <3>1. l.job = j /\ fresh \ fitting # {}
                BY <1>2, <2>3 DEF Accept
            <3>2. Asked(next)
                BY NextAsked DEF TypeOK
            <3>3. count'[j].droppedByQueue = count[j].droppedByQueue + Cardinality(fresh \ fitting)
                BY <2>3, AcceptCounts
            <3>. HIDE DEF next, rest, ledger, size
            <3>4. IsFiniteSet(fresh \ fitting)
                BY <3>2, FreshFits DEF Asked
            <3>. HIDE DEF fresh, fitting
            <3>5. count'[j].droppedByQueue > count[j].droppedByQueue
                BY <1>3, <1>4, <3>1, <3>3, <3>4 DEF Counters
            <3>. QED BY <1>1, <2>1, <3>1, <3>5
        <2>4. CASE DropByMailbox(j, h)
            <3>1. l.job = j
                BY <1>2, <2>4 DEF DropByMailbox
            <3>2. Tally(j, [droppedByMailbox |-> 1]) /\ "droppedByMailbox" \in Counters
                BY <2>4 DEF DropByMailbox, Counters
            <3>3. count'[j].droppedByMailbox = count[j].droppedByMailbox + 1
                BY <3>2, TallyAdds
            <3>4. count'[j].droppedByMailbox > count[j].droppedByMailbox
                BY <1>4, <3>2, <3>3
            <3>. QED BY <1>1, <2>1, <3>1, <3>4
        <2>. QED BY <2>2, <2>3, <2>4
    <1>8. ~Quiet
        BY DEF Quiet
    <1>. QED BY <1>5, <1>6, <1>7, <1>8, StepCases

LEMMA LossesCountedMeans ==
    /\ LossesCounted <=> \A l \in lost : Losses(l.job) > 0
    /\ LossesCounted' <=> \A l \in lost' : Losses(l.job)' > 0
    BY DEF LossesCounted, Losses

LEMMA StepLossesCounted ==
    ASSUME TypeOK, Finite, LossesCounted, [Next]_vars
    PROVE  LossesCounted'
    <1>1. \A k \in Jobs : Losses(k) \in Nat /\ Losses(k)' \in Nat
        BY StepTypes DEF TypeOK, Losses, Counters
    <1>2. \A l \in lost : l.job \in Jobs /\ Losses(l.job) > 0
        BY LossesCountedMeans DEF TypeOK
    <1>3. \A l \in lost : Losses(l.job)' > 0
        BY <1>1, <1>2, StepCountsGrow
    <1>4. \A l \in lost' \ lost : Losses(l.job)' > 0
        BY <1>1, StepLoses
    <1>. QED BY <1>3, <1>4, LossesCountedMeans

Clean == {"DRAINED", "WAITING_FOR_DEFERRED_DELIVERY"}

\* Only the end of a drain reports, and it looks at the counters of losses.
LEMMA StepLossReported ==
    ASSUME TypeOK, Waits, LossesCounted, LossReported, [Next]_vars
    PROVE  LossReported'
    <1>. USE DEF Waits
    <1>1. \A l \in lost : l.job \in Jobs
        BY DEF TypeOK
    <1>2. ASSUME NEW l \in lost' \ lost, status'[l.job] \in Clean
          PROVE  draining' = {l.job}
        BY <1>2, StepLoses DEF Unstarted, Clean
    <1>3. ASSUME NEW l \in lost, status'[l.job] \in Clean
          PROVE  draining' = {l.job}
        <2>1. status[l.job] \in Clean => draining = {l.job}
            BY DEF LossReported, Clean
        <2>2. CASE UNCHANGED <<status, draining>>
            BY <1>3, <2>1, <2>2
        <2>3. ASSUME NEW j \in Jobs, NEW m \in Budgets, BeginDrain(j, m)
              PROVE  draining' = {l.job}
            BY <1>3, <2>1, <2>3, BeginDrainQueues
        <2>4. ASSUME NEW j \in Jobs, EndDrain(j)
              PROVE  draining' = {l.job}
            <3>1. draining = {j} /\ status' = [status EXCEPT ![j] = DrainStatus(j)]
                BY <2>4 DEF EndDrain
            <3>2. CASE l.job # j
                BY <1>1, <1>3, <2>1, <3>1, <3>2 DEF TypeOK
            <3>3. CASE l.job = j
                <4>1. DrainStatus(j) \in Clean
                    BY <1>3, <3>1, <3>3 DEF TypeOK
                <4>2. /\ ~(count[j].droppedByQueue + count[j].droppedByMailbox > 0)
                      /\ ~(count[j].expired + count[j].exhausted > 0)
                    BY <4>1 DEF DrainStatus, Clean
                <4>3. /\ count[j].droppedByQueue \in Nat /\ count[j].droppedByMailbox \in Nat
                      /\ count[j].expired \in Nat /\ count[j].exhausted \in Nat
                    BY DEF TypeOK, Counters
                <4>4. Losses(j) > 0
                    BY <3>3, LossesCountedMeans
                <4>. QED BY <4>2, <4>3, <4>4 DEF Losses
            <3>. QED BY <3>2, <3>3
        <2>. QED BY <2>2, <2>3, <2>4, StartQueues, TurnQueues
             DEF Next, Drain, Turn, TurnOn, Occupy, Vacate, Commit, vars
    <1>. QED BY <1>2, <1>3 DEF LossReported, Clean

-----------------------------------------------------------------------------
(***************************************************************************)
(* The limits of the queues and the mailboxes.                             *)
(***************************************************************************)
AtMost(S, n) == IsFiniteSet(S) /\ Cardinality(S) \in Nat /\ Cardinality(S) <= n

\* The fields a queue is ordered by are numbers.
LEMMA HandoffFields ==
    ASSUME NEW h \in Handoff
    PROVE  /\ h.depth \in Int /\ h.cause \in Int
           /\ h.sender \in Int /\ h.recipient \in Int
    <1>1. Cells \subseteq Int /\ Causes \subseteq Int /\ 1..HopLimit \subseteq Int
        BY SchedulerAssumption DEF Cells
    <1>. QED BY <1>1 DEF Handoff

\* No more handoffs fit than the queue has room for ...
LEMMA FitsAtMost ==
    ASSUME NEW S, Asked(S), NEW n \in Nat
    PROVE  AtMost(FirstOf(S, n), n)
    <1>. DEFINE before == [h \in S |-> {g \in S : Precedes(g, h)}]
    <1>1. \A h \in S : /\ h.depth \in Int /\ h.cause \in Int
                       /\ h.sender \in Int /\ h.recipient \in Int
        BY HandoffFields DEF Asked
    <1>2. \A g, h \in S : g # h => g.cause # h.cause \/ g.recipient # h.recipient
        BY DEF Asked, Arrival
    <1>3. /\ before \in [S -> SUBSET S]
          /\ \A g, h \in S : g \in before[h] <=> Precedes(g, h)
          /\ FirstOf(S, n) \in SUBSET S
          /\ \A h \in FirstOf(S, n) : Cardinality(before[h]) < n
        BY DEF FirstOf
    <1>. HIDE DEF before
    <1>4. /\ \A h \in S : h \notin before[h]
          /\ \A f, g, h \in S : f \in before[g] /\ g \in before[h] => f \in before[h]
          /\ \A g, h \in S : g # h => g \in before[h] \/ h \in before[g]
        BY <1>1, <1>2, <1>3 DEF Precedes
    <1>5. IsFiniteSet(S) /\ n \in Int /\ ~(n < 0)
        BY DEF Asked
    <1>6. IsFiniteSet(FirstOf(S, n)) /\ Cardinality(FirstOf(S, n)) <= n
        BY <1>3, <1>4, <1>5, FirstAreFew
    <1>. QED BY <1>6, FS_CardinalityType DEF AtMost

\* ... and no more are released.
LEMMA ReleasedAtMost ==
    ASSUME TypeOK, Finite, OneEntry, NEW j \in Jobs, Room(j) \in Nat
    PROVE  AtMost(Released(j), Room(j))
    <1>. DEFINE S == Ready(j)
                before == [e \in S |-> {f \in S : SweptBefore(f, e)}]
    <1>1. S \subseteq deferred /\ S \subseteq Entry /\ IsFiniteSet(S)
        BY SweepParts, FS_Subset DEF Finite
    <1>2. \A e \in S : /\ e.handoff.depth \in Int /\ e.handoff.cause \in Int
                       /\ e.handoff.sender \in Int /\ e.handoff.recipient \in Int
        BY <1>1, HandoffFields DEF Entry
    <1>3. \A e, f \in S : e # f => \/ e.handoff.cause # f.handoff.cause
                                   \/ e.handoff.recipient # f.handoff.recipient
        BY <1>1 DEF OneEntry, Arrival
    <1>4. /\ before \in [S -> SUBSET S]
          /\ \A e, f \in S : e \in before[f] <=> SweptBefore(e, f)
          /\ Released(j) \in SUBSET S
          /\ \A e \in Released(j) : Cardinality(before[e]) < Room(j)
        BY DEF Released
    <1>. HIDE DEF S, before
    <1>5. /\ \A e \in S : e \notin before[e]
          /\ \A d, e, f \in S : d \in before[e] /\ e \in before[f] => d \in before[f]
          /\ \A e, f \in S : e # f => e \in before[f] \/ f \in before[e]
        BY <1>2, <1>3, <1>4 DEF SweptBefore, Precedes
    <1>6. Room(j) \in Int /\ ~(Room(j) < 0)
        OBVIOUS
    <1>7. IsFiniteSet(Released(j)) /\ Cardinality(Released(j)) <= Room(j)
        BY <1>1, <1>4, <1>5, <1>6, FirstAreFew
    <1>. QED BY <1>7, FS_CardinalityType DEF AtMost

LEMMA UnionAtMost ==
    ASSUME NEW S, NEW m \in Nat, AtMost(S, m), NEW T, NEW n \in Nat, AtMost(T, n)
    PROVE  AtMost(S \cup T, m + n)
    <1>1. IsFiniteSet(S \cup T) /\ IsFiniteSet(S \cap T)
        BY FS_Union, FS_Intersection DEF AtMost
    <1>2. Cardinality(S \cup T) = Cardinality(S) + Cardinality(T) - Cardinality(S \cap T)
        BY FS_Union DEF AtMost
    <1>3. Cardinality(S \cup T) \in Nat /\ Cardinality(S \cap T) \in Nat
        BY <1>1, FS_CardinalityType
    <1>. QED BY <1>1, <1>2, <1>3 DEF AtMost

LEMMA SubsetAtMost ==
    ASSUME NEW S, NEW n \in Nat, AtMost(S, n), NEW T \in SUBSET S
    PROVE  AtMost(T, n)
    BY FS_Subset, FS_CardinalityType DEF AtMost

QueueBounded == \A j \in Jobs : AtMost(queue[j], job[j].maxQueue)
MailboxBounded == \A c \in Cells : AtMost(Mailbox(c), MaxMailbox)

\* Both limits, as facts about finite sets.
LEMMA BoundedMeans ==
    /\ Finite => (Bounded <=> QueueBounded /\ MailboxBounded)
    /\ Finite' => (Bounded' <=> QueueBounded' /\ MailboxBounded')
    <1>1. ASSUME Finite PROVE Bounded <=> QueueBounded /\ MailboxBounded
        BY <1>1, MailboxFinite, FS_CardinalityType
        DEF Bounded, QueueBounded, MailboxBounded, AtMost, Finite
    <1>2. ASSUME Finite' PROVE Bounded' <=> QueueBounded' /\ MailboxBounded'
        <2>1. \A c : Mailbox(c)' \in SUBSET deferred'
            BY DEF Mailbox
        <2>2. \A c : IsFiniteSet(Mailbox(c)') /\ Cardinality(Mailbox(c)') \in Nat
            BY <1>2, <2>1, FS_Subset, FS_CardinalityType DEF Finite
        <2>3. \A j \in Jobs : Cardinality(queue'[j]) \in Nat
            BY <1>2, FS_CardinalityType DEF Finite
        <2>. QED BY <1>2, <2>2, <2>3
             DEF Bounded, QueueBounded, MailboxBounded, AtMost, Finite
    <1>. QED BY <1>1, <1>2

LEMMA StepQueueBounded ==
    ASSUME TypeOK, Waits, QueueBounded, [Next]_vars
    PROVE  QueueBounded'
    <1>. USE DEF Waits
    <1>0. \A j \in Jobs : job[j].maxQueue \in Nat /\ AtMost(queue[j], job[j].maxQueue)
        <2>1. NoJob.maxQueue = 0 /\ QueueSizes \subseteq Nat
            BY SchedulerAssumption DEF NoJob
        <2>2. \A j \in Jobs : job[j] \in Options \cup {NoJob}
            BY DEF TypeOK
        <2>3. \A j \in Jobs : job[j].maxQueue \in Nat
            <3>1. \A o \in Options : o.maxQueue \in Nat
                BY <2>1 DEF Options
            <3>. QED BY <2>1, <2>2, <3>1
        <2>. QED BY <2>3 DEF QueueBounded
    <1>1. ASSUME NEW j \in Jobs, NEW c \in Causes, NEW a \in ArrivalModes,
                 NEW size \in QueueSizes, Start(j, c, a, size)
          PROVE  QueueBounded'
        <2>. DEFINE fresh == Fresh(Signal(c), {}, seen)
        <2>1. queue'[j] = Fitting(fresh, {}, size)
            BY <1>1 DEF Start, TypeOK
        <2>2. Asked(fresh)
            BY SignalAsked, FreshFits
        <2>3. queue'[j] = FirstOf(fresh, size) /\ size \in Nat
            <3>1. Cardinality({}) = 0 /\ size \in Nat
                BY FS_EmptySet, SchedulerAssumption
            <3>. QED BY <2>1, <3>1 DEF Fitting
        <2>. HIDE DEF fresh
        <2>4. AtMost(queue'[j], size)
            BY <2>2, <2>3, FitsAtMost
        <2>5. /\ job'[j].maxQueue = size
              /\ \A k \in Jobs \ {j} : job'[k] = job[k] /\ queue'[k] = queue[k]
            BY <1>1, StartQueues
        <2>. QED BY <1>0, <2>4, <2>5 DEF QueueBounded
    <1>2. ASSUME NEW j \in Jobs, NEW m \in Budgets, BeginDrain(j, m)
          PROVE  QueueBounded'
        <2>1. Cardinality(queue[j]) \in Nat /\ Room(j) \in Nat
            BY <1>0 DEF AtMost, Room
        <2>2. AtMost(HandoffsOf(Released(j)), Room(j))
            BY <2>1, ReleasedAtMost, SweepSizes DEF AtMost
        <2>3. AtMost(queue[j], Cardinality(queue[j]))
            BY <1>0, <2>1 DEF AtMost
        <2>4. AtMost(queue[j] \cup HandoffsOf(Released(j)), Cardinality(queue[j]) + Room(j))
            BY <2>1, <2>2, <2>3, UnionAtMost
        <2>5. Cardinality(queue[j]) + Room(j) = job[j].maxQueue
            BY <1>0, <2>1 DEF Room
        <2>6. AtMost(queue'[j], job[j].maxQueue)
            BY <1>2, <2>4, <2>5, BeginDrainQueues
        <2>. QED BY <1>0, <1>2, <2>6, BeginDrainQueues DEF QueueBounded
    <1>3. ASSUME NEW j \in Jobs, NEW h \in queue[j], TurnOn(j, h)
          PROVE  QueueBounded'
        <2>1. job' = job /\ \A k \in Jobs \ {j} : queue'[k] = queue[k]
            BY <1>3, TurnQueues
        <2>2. AtMost(queue'[j], job[j].maxQueue)
            <3>1. CASE ~Accept(j, h)
                BY <1>0, <1>3, <3>1, TurnQueues, SubsetAtMost
            <3>2. CASE Accept(j, h)
                <4>. DEFINE rest    == queue[j] \ {h}
                            next    == NextHandoffs(h)
                            ledger  == seen \cup {EventId(h)}
                            size    == job[j].maxQueue
                            fresh   == Fresh(next, rest, ledger)
                            fitting == Fitting(fresh, rest, size)
                <4>1. queue'[j] = rest \cup fitting
                    BY <3>2 DEF Accept, TypeOK
                <4>2. Asked(next)
                    BY NextAsked DEF TypeOK
                <4>3. AtMost(rest, size) /\ size \in Nat
                    BY <1>0, SubsetAtMost
                <4>. HIDE DEF next, rest, ledger, size
                <4>4. Asked(fresh)
                    BY <4>2, FreshFits
                <4>5. fitting = FirstOf(fresh, size - Cardinality(rest))
                    BY DEF Fitting
                <4>. HIDE DEF fresh, fitting
                <4>6. Cardinality(rest) \in Nat /\ size - Cardinality(rest) \in Nat
                    BY <4>3 DEF AtMost
                <4>7. AtMost(fitting, size - Cardinality(rest))
                    BY <4>4, <4>5, <4>6, FitsAtMost
                <4>8. AtMost(rest, Cardinality(rest))
                    BY <4>3, <4>6 DEF AtMost
                <4>9. AtMost(rest \cup fitting, Cardinality(rest) + (size - Cardinality(rest)))
                    BY <4>6, <4>7, <4>8, UnionAtMost
                <4>10. Cardinality(rest) + (size - Cardinality(rest)) = size
                    BY <4>3, <4>6
                <4>. QED BY <4>1, <4>9, <4>10 DEF size
            <3>. QED BY <3>1, <3>2
        <2>. QED BY <1>0, <2>1, <2>2 DEF QueueBounded
    <1>4. CASE Quiet
        BY <1>4 DEF Quiet, QueueBounded
    <1>. QED BY <1>1, <1>2, <1>3, <1>4, StepCases

\* A sweep gives no mailbox more entries; a deferral adds one below the limit.
LEMMA StepMailboxBounded ==
    ASSUME TypeOK, Waits, MailboxBounded, [Next]_vars
    PROVE  MailboxBounded'
    <1>. USE DEF Waits
    <1>1. CASE deferred' = deferred
        BY <1>1 DEF MailboxBounded, Mailbox
    <1>2. ASSUME NEW j \in Jobs, NEW m \in Budgets, BeginDrain(j, m)
          PROVE  MailboxBounded'
        <2>1. \A e \in deferred' : \E d \in deferred : d.handoff = e.handoff
            BY <1>2, BeginDrainQueues, RetainedEntries, SweepParts
        <2>2. \A e, f \in deferred' : e.handoff = f.handoff => e = f
            BY StepOneEntry DEF OneEntry
        <2>3. ASSUME NEW c \in Cells
              PROVE  AtMost(Mailbox(c)', MaxMailbox)
            <3>. DEFINE M == {e \in deferred' : e.handoff.recipient = c}
                        f == [e \in M |-> CHOOSE d \in Mailbox(c) : d.handoff = e.handoff]
            <3>1. \A e \in M : \E d \in Mailbox(c) : d.handoff = e.handoff
                BY <2>1 DEF Mailbox
            <3>2. \A e \in M : f[e] \in Mailbox(c) /\ f[e].handoff = e.handoff
                BY <3>1
            <3>3. f \in [M -> Mailbox(c)] /\ \A e \in M : e \in deferred'
                BY <3>2
            <3>. HIDE DEF f, M
            <3>4. \A e, g \in M : f[e] = f[g] => e = g
                BY <2>2, <3>2, <3>3
            <3>5. f \in Injection(M, Mailbox(c))
                BY <3>3, <3>4 DEF Injection, IsInjective
            <3>6. IsFiniteSet(M) /\ Cardinality(M) <= Cardinality(Mailbox(c))
                BY <3>5, MailboxFinite, FS_Injection
            <3>7. AtMost(M, MaxMailbox)
                BY <3>6, FS_CardinalityType, SchedulerAssumption DEF AtMost, MailboxBounded
            <3>. QED BY <3>7 DEF M, Mailbox
        <2>. QED BY <2>3 DEF MailboxBounded
    <1>3. ASSUME NEW j \in Jobs, NEW h \in queue[j], Defer(j, h)
          PROVE  MailboxBounded'
        <2>. DEFINE new == [job |-> j, handoff |-> h, left |-> Ttl, retries |-> 0]
        <2>1. /\ deferred' = deferred \cup {new} /\ new.handoff = h
              /\ Cardinality(Mailbox(h.recipient)) < MaxMailbox
            BY <1>3 DEF Defer
        <2>. HIDE DEF new
        <2>2. ASSUME NEW c \in Cells
              PROVE  AtMost(Mailbox(c)', MaxMailbox)
            <3>1. CASE c # h.recipient
                <4>1. Mailbox(c)' = Mailbox(c)
                    BY <2>1, <3>1 DEF Mailbox
                <4>. QED BY <4>1 DEF MailboxBounded
            <3>2. CASE c = h.recipient
                <4>1. Mailbox(c)' = Mailbox(c) \cup {new}
                    BY <2>1, <3>2 DEF Mailbox
                <4>2. IsFiniteSet(Mailbox(c)) /\ Cardinality(Mailbox(c)) \in Nat
                    BY MailboxFinite
                <4>3. /\ IsFiniteSet(Mailbox(c) \cup {new})
                      /\ Cardinality(Mailbox(c) \cup {new}) <= Cardinality(Mailbox(c)) + 1
                      /\ Cardinality(Mailbox(c) \cup {new}) \in Nat
                    <5>1. IsFiniteSet(Mailbox(c) \cup {new})
                        BY <4>2, FS_AddElement
                    <5>2. \/ Cardinality(Mailbox(c) \cup {new}) = Cardinality(Mailbox(c))
                          \/ Cardinality(Mailbox(c) \cup {new}) = Cardinality(Mailbox(c)) + 1
                        BY <4>2, FS_AddElement
                    <5>. QED BY <4>2, <5>1, <5>2
                <4>. QED BY <2>1, <3>2, <4>1, <4>2, <4>3, SchedulerAssumption DEF AtMost
            <3>. QED BY <3>1, <3>2
        <2>. QED BY <2>2 DEF MailboxBounded
    <1>4. \/ deferred' = deferred
          \/ \E j \in Jobs, m \in Budgets : BeginDrain(j, m)
          \/ \E j \in Jobs : \E h \in queue[j] : Defer(j, h)
        BY DEF Next, Drain, Turn, Start, Reject, Accept, DeferDuplicate, DropByMailbox,
               EndDrain, Occupy, Vacate, Commit, vars
    <1>. QED BY <1>1, <1>2, <1>3, <1>4

LEMMA StepBounded ==
    ASSUME TypeOK, Waits, Bounded, [Next]_vars
    PROVE  Bounded'
    BY BoundedMeans, StepFinite, StepQueueBounded, StepMailboxBounded DEF Waits

-----------------------------------------------------------------------------
(***************************************************************************)
(* The balance of each schedule.                                           *)
(***************************************************************************)
Given(k) == count[k].initial + count[k].generated
Settled(k) ==
    count[k].coalesced + count[k].droppedByQueue + count[k].accepted
    + count[k].rejected + count[k].droppedByMailbox + count[k].duplicate
    + count[k].expired + count[k].exhausted + count[k].cancelled
Pending(k) == Cardinality(queue[k]) + Cardinality(Entries(k))

\* The balance in numbers.
LEMMA AccountedMeans ==
    ASSUME TypeOK, Finite
    PROVE  /\ \A k \in Jobs : Given(k) \in Nat /\ Settled(k) \in Nat /\ Pending(k) \in Nat
           /\ Accounted <=> \A k \in Jobs : Given(k) = Settled(k) + Pending(k)
    <1>1. \A k \in Jobs, n \in Counters : count[k][n] \in Nat
        BY DEF TypeOK
    <1>2. \A k \in Jobs : Cardinality(queue[k]) \in Nat /\ Cardinality(Entries(k)) \in Nat
        <2>1. \A k \in Jobs : Entries(k) \in SUBSET deferred
            BY DEF Entries
        <2>. QED BY <2>1, FS_Subset, FS_CardinalityType DEF Finite
    <1>3. \A k \in Jobs : Given(k) \in Nat /\ Settled(k) \in Nat /\ Pending(k) \in Nat
        BY <1>1, <1>2 DEF Given, Settled, Pending, Counters
    <1>4. \A k \in Jobs :
             Given(k) = Settled(k) + Pending(k) <=>
             count[k].initial + count[k].generated =
               count[k].coalesced + count[k].droppedByQueue + count[k].accepted
               + count[k].rejected + count[k].droppedByMailbox + count[k].duplicate
               + count[k].expired + count[k].exhausted + count[k].cancelled
               + Cardinality(queue[k]) + Cardinality(Entries(k))
        BY <1>1, <1>2 DEF Given, Settled, Pending, Counters
    <1>. QED BY <1>3, <1>4 DEF Accounted

\* Taking a handoff makes the queue shorter by one.
LEMMA OneLess ==
    ASSUME Finite, NEW j \in Jobs, NEW h \in queue[j]
    PROVE  /\ IsFiniteSet(queue[j] \ {h}) /\ Cardinality(queue[j] \ {h}) \in Nat
           /\ Cardinality(queue[j]) = Cardinality(queue[j] \ {h}) + 1
    <1>1. IsFiniteSet(queue[j]) /\ Cardinality(queue[j]) \in Nat
        BY FS_CardinalityType DEF Finite
    <1>2. Cardinality(queue[j] \ {h}) = Cardinality(queue[j]) - 1
        BY <1>1, FS_RemoveElement
    <1>3. IsFiniteSet(queue[j] \ {h})
        BY <1>1, FS_RemoveElement
    <1>4. Cardinality(queue[j] \ {h}) \in Nat
        BY <1>3, FS_CardinalityType
    <1>. QED BY <1>1, <1>2, <1>3, <1>4

\* A schedule keeps its balance if what it is newly given is settled or pending.
Balanced(k) == Given(k) = Settled(k) + Pending(k)

LEMMA StartBalance ==
    ASSUME TypeOK, Waits, NEW j \in Jobs, NEW c \in Causes, NEW a \in ArrivalModes,
           NEW size \in QueueSizes, Start(j, c, a, size), Balanced(j)
    PROVE  Balanced(j)'
    <1>. DEFINE fresh == Fresh(Signal(c), {}, seen)
                fitting == Fitting(fresh, {}, size)
    <1>1. /\ Asked(Signal(c)) /\ fresh \subseteq Signal(c) /\ Asked(fresh)
          /\ fitting \subseteq fresh
        BY SignalAsked, FreshFits
    <1>2. /\ count'[j].initial = count[j].initial + Cardinality(Signal(c))
          /\ count'[j].coalesced = count[j].coalesced + Cardinality(Signal(c) \ fresh)
          /\ count'[j].droppedByQueue = count[j].droppedByQueue + Cardinality(fresh \ fitting)
          /\ \A n \in Counters \ {"initial", "coalesced", "droppedByQueue"} :
                count'[j][n] = count[j][n]
        BY StartCounts
    <1>3. queue'[j] = fitting /\ deferred' = deferred
        BY DEF Start, TypeOK
    <1>4. queue[j] = {} /\ Entries(j) = {} /\ Entries(j)' = {}
        BY <1>3, StartQueues DEF Waits, Unstarted, Entries
    <1>. HIDE DEF fresh, fitting
    <1>5. /\ Cardinality(Signal(c)) = Cardinality(fresh) + Cardinality(Signal(c) \ fresh)
          /\ Cardinality(Signal(c) \ fresh) \in Nat
        BY <1>1, Parts DEF Asked
    <1>6. /\ Cardinality(fresh) = Cardinality(fitting) + Cardinality(fresh \ fitting)
          /\ Cardinality(fitting) \in Nat /\ Cardinality(fresh \ fitting) \in Nat
        BY <1>1, Parts DEF Asked
    <1>7. \A n \in Counters : count[j][n] \in Nat
        BY DEF TypeOK
    <1>8. Cardinality({}) = 0
        BY FS_EmptySet
    <1>9. Pending(j) = 0 /\ Pending(j)' = Cardinality(fitting)
        BY <1>3, <1>4, <1>6, <1>8 DEF Pending
    <1>10. /\ Given(j)' = Given(j) + Cardinality(Signal(c))
           /\ Settled(j)' = Settled(j) + Cardinality(Signal(c) \ fresh)
                            + Cardinality(fresh \ fitting)
           /\ Given(j) \in Nat /\ Settled(j) \in Nat
        BY <1>2, <1>5, <1>6, <1>7 DEF Given, Settled, Counters
    <1>. QED BY <1>5, <1>6, <1>9, <1>10 DEF Balanced

\* A sweep settles what expires, is exhausted or is cancelled, and moves the rest.
LEMMA BeginDrainBalance ==
    ASSUME TypeOK, Waits, NEW j \in Jobs, NEW m \in Budgets, BeginDrain(j, m), Balanced(j)
    PROVE  Balanced(j)'
    <1>. USE DEF Waits
    <1>1. /\ count'[j].expired = count[j].expired + Cardinality(Expired(j))
          /\ count'[j].exhausted = count[j].exhausted + Cardinality(Exhausted(j))
          /\ count'[j].cancelled = count[j].cancelled + Cardinality(Cancelled(j))
          /\ \A n \in Counters \ {"released", "expired", "exhausted", "cancelled"} :
                count'[j][n] = count[j][n]
          /\ \A S \in SUBSET Entries(j) : IsFiniteSet(S) /\ Cardinality(S) \in Nat
        BY BeginDrainCounts
    <1>2. Entries(j)' = Retained(j)
        <2>1. \A e \in Retained(j) : e.job = j
            BY RetainedEntries
        <2>2. deferred' = (deferred \ Entries(j)) \cup Retained(j)
            BY BeginDrainQueues
        <2>. QED BY <2>1, <2>2 DEF Entries
    <1>3. /\ Cardinality(Entries(j)') = Cardinality(Kept(j))
          /\ IsFiniteSet(HandoffsOf(Released(j)))
          /\ Cardinality(HandoffsOf(Released(j))) = Cardinality(Released(j))
        BY <1>2, SweepSizes
    <1>4. Cardinality(queue'[j]) = Cardinality(queue[j]) + Cardinality(Released(j))
        <2>1. queue[j] \cap HandoffsOf(Released(j)) = {}
            BY SweepParts DEF OneEntry, HandoffsOf, Arrivals, Entries
        <2>2. IsFiniteSet(queue[j])
            BY DEF Finite
        <2>3. queue'[j] = queue[j] \cup HandoffsOf(Released(j))
            BY BeginDrainQueues
        <2>. QED BY <1>3, <2>1, <2>2, <2>3, Disjoint
    <1>5. /\ Cancelled(j) \in SUBSET Entries(j)
          /\ Expired(j) \in SUBSET (Entries(j) \ Cancelled(j))
          /\ Waiting(j) = (Entries(j) \ Cancelled(j)) \ Expired(j)
          /\ Released(j) \in SUBSET Waiting(j)
          /\ Exhausted(j) \in SUBSET (Waiting(j) \ Released(j))
          /\ Kept(j) = (Waiting(j) \ Released(j)) \ Exhausted(j)
        BY SweepParts DEF Expired, Waiting, Kept
    <1>6. Cardinality(Entries(j)) =
            Cardinality(Cancelled(j)) + Cardinality(Entries(j) \ Cancelled(j))
        BY <1>1, <1>5, Parts
    <1>7. Cardinality(Entries(j) \ Cancelled(j)) =
            Cardinality(Expired(j)) + Cardinality(Waiting(j))
        BY <1>1, <1>5, Parts
    <1>8. Cardinality(Waiting(j)) = Cardinality(Released(j)) + Cardinality(Waiting(j) \ Released(j))
        BY <1>1, <1>5, Parts
    <1>9. Cardinality(Waiting(j) \ Released(j)) = Cardinality(Exhausted(j)) + Cardinality(Kept(j))
        <2>1. IsFiniteSet(Waiting(j) \ Released(j))
            BY <1>1, <1>5
        <2>. QED BY <1>5, <2>1, Parts
    <1>10. /\ Cardinality(Cancelled(j)) \in Nat /\ Cardinality(Expired(j)) \in Nat
           /\ Cardinality(Exhausted(j)) \in Nat /\ Cardinality(Released(j)) \in Nat
           /\ Cardinality(Kept(j)) \in Nat /\ Cardinality(Entries(j)) \in Nat
           /\ Cardinality(Waiting(j)) \in Nat /\ Cardinality(Waiting(j) \ Released(j)) \in Nat
           /\ Cardinality(Entries(j) \ Cancelled(j)) \in Nat
        BY <1>1, <1>5
    <1>11. Cardinality(queue[j]) \in Nat
        BY FS_CardinalityType DEF Finite
    <1>12. \A n \in Counters : count[j][n] \in Nat
        BY DEF TypeOK
    <1>13. /\ Given(j)' = Given(j)
           /\ Settled(j)' = Settled(j) + Cardinality(Expired(j)) + Cardinality(Exhausted(j))
                            + Cardinality(Cancelled(j))
           /\ Given(j) \in Nat /\ Settled(j) \in Nat
        BY <1>1, <1>10, <1>12 DEF Given, Settled, Counters
    <1>14. /\ Pending(j) = Cardinality(queue[j]) + Cardinality(Entries(j))
           /\ Pending(j)' = Cardinality(queue[j]) + Cardinality(Released(j)) + Cardinality(Kept(j))
        BY <1>3, <1>4 DEF Pending
    <1>. QED BY <1>6, <1>7, <1>8, <1>9, <1>10, <1>11, <1>13, <1>14 DEF Balanced

LEMMA TurnBalance ==
    ASSUME TypeOK, Waits, NEW j \in Jobs, NEW h \in queue[j], TurnOn(j, h), ~Accept(j, h),
           Balanced(j)
    PROVE  Balanced(j)'
    <1>. USE DEF Waits
    <1>1. PICK fate \in {"rejected", "deferred", "duplicate", "droppedByMailbox"} :
              /\ count'[j][fate] = count[j][fate] + 1
              /\ \A n \in Counters \ {fate} : count'[j][n] = count[j][n]
              /\ fate = "deferred" <=> Defer(j, h)
        BY TurnCounts
    <1>2. /\ Cardinality(queue[j]) = Cardinality(queue'[j]) + 1
          /\ Cardinality(queue'[j]) \in Nat
        <2>1. queue'[j] = queue[j] \ {h}
            BY TurnQueues
        <2>. QED BY <2>1, OneLess
    <1>3. \A n \in Counters : count[j][n] \in Nat
        BY DEF TypeOK
    <1>4. IsFiniteSet(Entries(j)) /\ Cardinality(Entries(j)) \in Nat
        <2>1. Entries(j) \in SUBSET deferred
            BY DEF Entries
        <2>. QED BY <2>1, FS_Subset, FS_CardinalityType DEF Finite
    <1>5. CASE Defer(j, h)
        <2>. DEFINE new == [job |-> j, handoff |-> h, left |-> Ttl, retries |-> 0]
        <2>1. /\ deferred' = deferred \cup {new} /\ Arrival(h) \notin DeferredArrivals
              /\ new.job = j /\ new.handoff = h
            BY <1>5, TurnQueues
        <2>. HIDE DEF new
        <2>2. Entries(j)' = Entries(j) \cup {new} /\ new \notin Entries(j)
            BY <2>1 DEF Entries, DeferredArrivals
        <2>3. Cardinality(Entries(j)') = Cardinality(Entries(j)) + 1
            BY <1>4, <2>2, FS_AddElement
        <2>4. /\ Given(j)' = Given(j) /\ Settled(j)' = Settled(j)
              /\ Given(j) \in Nat /\ Settled(j) \in Nat
            BY <1>1, <1>3, <1>5 DEF Given, Settled, Counters
        <2>. QED BY <1>2, <1>4, <2>3, <2>4 DEF Balanced, Pending
    <1>6. CASE ~Defer(j, h)
        <2>1. Entries(j)' = Entries(j)
            BY <1>6, TurnQueues DEF Entries
        <2>2. /\ Given(j)' = Given(j) /\ Settled(j)' = Settled(j) + 1
              /\ Given(j) \in Nat /\ Settled(j) \in Nat
            BY <1>1, <1>3, <1>6 DEF Given, Settled, Counters
        <2>. QED BY <1>2, <1>4, <2>1, <2>2 DEF Balanced, Pending
    <1>. QED BY <1>5, <1>6

LEMMA AcceptBalance ==
    ASSUME TypeOK, Waits, NEW j \in Jobs, NEW h \in queue[j], Accept(j, h), Balanced(j)
    PROVE  Balanced(j)'
    <1>. USE DEF Waits
    <1>. DEFINE rest    == queue[j] \ {h}
                next    == NextHandoffs(h)
                ledger  == seen \cup {EventId(h)}
                size    == job[j].maxQueue
                fresh   == Fresh(next, rest, ledger)
                fitting == Fitting(fresh, rest, size)
    <1>1. /\ count'[j].accepted = count[j].accepted + 1
          /\ count'[j].generated = count[j].generated + Cardinality(next)
          /\ count'[j].coalesced = count[j].coalesced + Cardinality(next \ fresh)
          /\ count'[j].droppedByQueue = count[j].droppedByQueue + Cardinality(fresh \ fitting)
          /\ \A n \in Counters \ {"accepted", "generated", "coalesced", "droppedByQueue"} :
                count'[j][n] = count[j][n]
        BY AcceptCounts
    <1>2. queue'[j] = rest \cup fitting /\ deferred' = deferred
        BY DEF Accept, TypeOK
    <1>3. Asked(next)
        BY NextAsked DEF TypeOK
    <1>4. /\ IsFiniteSet(rest) /\ Cardinality(rest) \in Nat
          /\ Cardinality(queue[j]) = Cardinality(rest) + 1
        BY OneLess
    <1>5. Entries(j)' = Entries(j)
        BY <1>2 DEF Entries
    <1>6. Cardinality(Entries(j)) \in Nat
        <2>1. Entries(j) \in SUBSET deferred
            BY DEF Entries
        <2>. QED BY <2>1, FS_Subset, FS_CardinalityType DEF Finite
    <1>. HIDE DEF next, rest, ledger, size
    <1>7. /\ fresh \subseteq next /\ fitting \subseteq fresh /\ Asked(fresh)
          /\ rest \cap fitting = {}
        <2>1. /\ fresh \subseteq next /\ fitting \subseteq fresh /\ Asked(fresh)
              /\ \A g \in fresh : Arrival(g) \notin Arrivals(rest)
            BY <1>3, FreshFits
        <2>. HIDE DEF fresh, fitting
        <2>2. \A g \in rest : Arrival(g) \in Arrivals(rest)
            BY DEF Arrivals
        <2>. QED BY <2>1, <2>2
    <1>. HIDE DEF fresh, fitting
    <1>8. /\ Cardinality(next) = Cardinality(fresh) + Cardinality(next \ fresh)
          /\ Cardinality(next) \in Nat /\ Cardinality(next \ fresh) \in Nat
        BY <1>3, <1>7, Parts, FS_CardinalityType DEF Asked
    <1>9. /\ Cardinality(fresh) = Cardinality(fitting) + Cardinality(fresh \ fitting)
          /\ IsFiniteSet(fitting)
          /\ Cardinality(fitting) \in Nat /\ Cardinality(fresh \ fitting) \in Nat
        BY <1>7, Parts DEF Asked
    <1>10. Cardinality(queue'[j]) = Cardinality(rest) + Cardinality(fitting)
        BY <1>2, <1>4, <1>7, <1>9, Disjoint
    <1>11. \A n \in Counters : count[j][n] \in Nat
        BY DEF TypeOK
    <1>12. /\ Given(j)' = Given(j) + Cardinality(next)
           /\ Settled(j)' = Settled(j) + 1 + Cardinality(next \ fresh)
                            + Cardinality(fresh \ fitting)
           /\ Given(j) \in Nat /\ Settled(j) \in Nat
        <2>1. Given(j)' = Given(j) + Cardinality(next) /\ Given(j) \in Nat
            BY <1>1, <1>8, <1>11 DEF Given, Counters
        <2>2. /\ Settled(j)' = Settled(j) + 1 + Cardinality(next \ fresh)
                               + Cardinality(fresh \ fitting)
              /\ Settled(j) \in Nat
            <3>1. {"coalesced", "droppedByQueue", "accepted", "rejected", "droppedByMailbox",
                   "duplicate", "expired", "exhausted", "cancelled"} \subseteq Counters
                BY DEF Counters
            <3>2. /\ count'[j].rejected = count[j].rejected
                  /\ count'[j].droppedByMailbox = count[j].droppedByMailbox
                  /\ count'[j].duplicate = count[j].duplicate
                  /\ count'[j].expired = count[j].expired
                  /\ count'[j].exhausted = count[j].exhausted
                  /\ count'[j].cancelled = count[j].cancelled
                BY <1>1, <3>1
            <3>3. /\ count'[j].accepted = count[j].accepted + 1
                  /\ count'[j].coalesced = count[j].coalesced + Cardinality(next \ fresh)
                  /\ count'[j].droppedByQueue = count[j].droppedByQueue + Cardinality(fresh \ fitting)
                BY <1>1
            <3>4. /\ {count[j].coalesced, count[j].droppedByQueue, count[j].accepted} \subseteq Nat
                  /\ {count[j].rejected, count[j].droppedByMailbox, count[j].duplicate} \subseteq Nat
                  /\ {count[j].expired, count[j].exhausted, count[j].cancelled} \subseteq Nat
                BY <1>11, <3>1
            <3>5. Cardinality(next \ fresh) \in Nat /\ Cardinality(fresh \ fitting) \in Nat
                BY <1>8, <1>9
            <3>6. Settled(j)' =
                    (count[j].coalesced + Cardinality(next \ fresh))
                    + (count[j].droppedByQueue + Cardinality(fresh \ fitting))
                    + (count[j].accepted + 1)
                    + count[j].rejected + count[j].droppedByMailbox + count[j].duplicate
                    + count[j].expired + count[j].exhausted + count[j].cancelled
                BY <3>2, <3>3 DEF Settled
            <3>. QED BY <3>4, <3>5, <3>6 DEF Settled
        <2>. QED BY <2>1, <2>2
    <1>. QED BY <1>4, <1>5, <1>6, <1>8, <1>9, <1>10, <1>12 DEF Balanced, Pending

LEMMA StepAccounted ==
    ASSUME TypeOK, Waits, Accounted, [Next]_vars
    PROVE  Accounted'
    <1>. USE DEF Waits
    <1>1. \A k \in Jobs : Balanced(k)
        BY AccountedMeans DEF Balanced
    <1>2. ASSUME NEW k \in Jobs, UNCHANGED <<count[k], queue[k], Entries(k)>>
          PROVE  Balanced(k)'
        BY <1>1, <1>2 DEF Balanced, Given, Settled, Pending
    <1>3. ASSUME NEW j \in Jobs, NEW c \in Causes, NEW a \in ArrivalModes,
                 NEW size \in QueueSizes, Start(j, c, a, size)
          PROVE  \A k \in Jobs : Balanced(k)'
        <2>1. ASSUME NEW k \in Jobs \ {j}
              PROVE  UNCHANGED <<count[k], queue[k], Entries(k)>>
            BY <1>3, StartCounts, StartQueues DEF Entries
        <2>. QED BY <1>1, <1>2, <1>3, <2>1, StartBalance
    <1>4. ASSUME NEW j \in Jobs, NEW m \in Budgets, BeginDrain(j, m)
          PROVE  \A k \in Jobs : Balanced(k)'
        <2>1. ASSUME NEW k \in Jobs \ {j}
              PROVE  UNCHANGED <<count[k], queue[k], Entries(k)>>
            <3>1. \A e \in Retained(j) : e.job = j
                BY RetainedEntries
            <3>2. Entries(k)' = Entries(k)
                BY <1>4, <3>1, BeginDrainQueues DEF Entries
            <3>. QED BY <1>4, <3>2, BeginDrainCounts, BeginDrainQueues
        <2>. QED BY <1>1, <1>2, <1>4, <2>1, BeginDrainBalance
    <1>5. ASSUME NEW j \in Jobs, NEW h \in queue[j], TurnOn(j, h)
          PROVE  \A k \in Jobs : Balanced(k)'
        <2>1. ASSUME NEW k \in Jobs \ {j}
              PROVE  UNCHANGED <<count[k], queue[k], Entries(k)>>
            <3>1. Entries(k)' = Entries(k)
                <4>1. CASE Defer(j, h)
                    <5>. DEFINE new == [job |-> j, handoff |-> h, left |-> Ttl, retries |-> 0]
                    <5>1. deferred' = deferred \cup {new} /\ new.job = j
                        BY <1>5, <4>1, TurnQueues
                    <5>. HIDE DEF new
                    <5>. QED BY <5>1 DEF Entries
                <4>2. CASE ~Defer(j, h)
                    BY <1>5, <4>2, TurnQueues DEF Entries
                <4>. QED BY <4>1, <4>2
            <3>2. count'[k] = count[k]
                BY <1>5, TurnCounts, AcceptCounts
            <3>. QED BY <1>5, <3>1, <3>2, TurnQueues
        <2>. QED BY <1>1, <1>2, <1>5, <2>1, TurnBalance, AcceptBalance
    <1>6. ASSUME Quiet PROVE \A k \in Jobs : Balanced(k)'
        BY <1>2, <1>6 DEF Quiet, Entries
    <1>7. \A k \in Jobs : Balanced(k)'
        BY <1>3, <1>4, <1>5, <1>6, StepCases
    <1>8. TypeOK' /\ Finite'
        BY StepTypes, StepFinite
    <1>9. Accounted' <=> \A k \in Jobs : Balanced(k)'
        <2>1. \A k \in Jobs, n \in Counters : count'[k][n] \in Nat
            BY <1>8 DEF TypeOK
        <2>2. \A k \in Jobs : Cardinality(queue'[k]) \in Nat /\ Cardinality(Entries(k)') \in Nat
            <3>1. \A k \in Jobs : Entries(k)' \in SUBSET deferred'
                BY DEF Entries
            <3>. QED BY <1>8, <3>1, FS_Subset, FS_CardinalityType DEF Finite
        <2>. QED BY <2>1, <2>2 DEF Accounted, Balanced, Given, Settled, Pending, Counters
    <1>. QED BY <1>7, <1>9

-----------------------------------------------------------------------------
(***************************************************************************)
(* Distances on the grid.                                                  *)
(***************************************************************************)
\* How far apart two columns or rows are.
Gap(m, n) == IF m <= n THEN n - m ELSE m - n

\* Distance takes the larger of the two differences.
LEMMA MaxOfTwo ==
    ASSUME NEW m \in Int, NEW n \in Int
    PROVE  Max({m - n, n - m}) = Gap(m, n)
    <1>1. \E x \in {m - n, n - m} : \A y \in {m - n, n - m} : x >= y
        OBVIOUS
    <1>2. /\ Max({m - n, n - m}) \in {m - n, n - m}
          /\ \A y \in {m - n, n - m} : Max({m - n, n - m}) >= y
        BY <1>1 DEF Max
    <1>. QED BY <1>2 DEF Gap

\* A cell is its column and its row.
LEMMA Coordinates ==
    /\ \A c \in Cells : /\ X(c) \in 0..(Width - 1) /\ Y(c) \in 0..(Height - 1)
                        /\ c = Height * X(c) + Y(c)
    /\ \A x \in 0..(Width - 1), y \in 0..(Height - 1) :
          /\ Height * x + y \in Cells
          /\ X(Height * x + y) = x /\ Y(Height * x + y) = y
    <1>1. Width \in Nat \ {0} /\ Height \in Nat \ {0}
        BY SchedulerAssumption
    <1>2. ASSUME NEW c \in 0..(Width * Height - 1)
          PROVE  /\ c \div Height \in 0..(Width - 1) /\ (c % Height) \in 0..(Height - 1)
                 /\ c = Height * (c \div Height) + (c % Height)
        <2>1. /\ c \div Height \in Nat /\ (c % Height) \in 0..(Height - 1)
              /\ c = Height * (c \div Height) + (c % Height)
            BY <1>1
        <2>2. c \div Height \in 0..(Width - 1)
            BY <1>1
        <2>. QED BY <2>1, <2>2
    <1>3. ASSUME NEW x \in 0..(Width - 1), NEW y \in 0..(Height - 1)
          PROVE  /\ Height * x + y \in 0..(Width * Height - 1)
                 /\ (Height * x + y) \div Height = x /\ ((Height * x + y) % Height) = y
        <2>1. Height * x + y \in 0..(Width * Height - 1)
            BY <1>1
        <2>2. (Height * x + y) \div Height = x /\ ((Height * x + y) % Height) = y
            BY <1>1
        <2>. QED BY <2>1, <2>2
    <1>. QED BY <1>2, <1>3 DEF Cells, X, Y

\* Cells are as far apart as their columns and their rows together.
LEMMA DistanceIs ==
    ASSUME NEW c \in Cells, NEW d \in Cells
    PROVE  /\ Distance(c, d) = Gap(X(c), X(d)) + Gap(Y(c), Y(d))
           /\ Distance(c, d) \in Nat
           /\ Distance(c, d) = 0 <=> c = d
    <1>1. /\ X(c) \in Int /\ X(d) \in Int /\ Y(c) \in Int /\ Y(d) \in Int
          /\ c = Height * X(c) + Y(c) /\ d = Height * X(d) + Y(d)
        BY Coordinates, SchedulerAssumption
    <1>2. Distance(c, d) = Gap(X(c), X(d)) + Gap(Y(c), Y(d))
        BY <1>1, MaxOfTwo DEF Distance
    <1>3. Distance(c, d) \in Nat /\ (Distance(c, d) = 0 <=> X(c) = X(d) /\ Y(c) = Y(d))
        BY <1>1, <1>2 DEF Gap
    <1>4. Distance(c, d) = 0 <=> c = d
        BY <1>1, <1>3
    <1>. QED BY <1>2, <1>3, <1>4

\* A step to a neighbour leads one closer to a cell or one away from it ...
LEMMA NextDistance ==
    ASSUME NEW o \in Cells, NEW r \in Cells, NEW d \in Cells, Distance(r, d) = 1
    PROVE  Distance(d, o) = Distance(r, o) + 1 \/ Distance(d, o) = Distance(r, o) - 1
    <1>1. \A c \in Cells : X(c) \in Int /\ Y(c) \in Int
        BY Coordinates, SchedulerAssumption
    <1>2. /\ Gap(X(r), X(d)) + Gap(Y(r), Y(d)) = 1
          /\ Distance(d, o) = Gap(X(d), X(o)) + Gap(Y(d), Y(o))
          /\ Distance(r, o) = Gap(X(r), X(o)) + Gap(Y(r), Y(o))
        BY DistanceIs
    <1>. QED BY <1>1, <1>2 DEF Gap

\* ... and one of the neighbours is closer.
LEMMA CloserNeighbour ==
    ASSUME NEW o \in Cells, NEW d \in Cells, d # o
    PROVE  \E r \in Cells : Distance(r, d) = 1 /\ Distance(d, o) = Distance(r, o) + 1
    <1>. DEFINE x == IF X(d) < X(o) THEN X(d) + 1 ELSE X(d) - 1
                y == IF Y(d) < Y(o) THEN Y(d) + 1 ELSE Y(d) - 1
    <1>1. /\ X(d) \in 0..(Width - 1) /\ Y(d) \in 0..(Height - 1)
          /\ X(o) \in 0..(Width - 1) /\ Y(o) \in 0..(Height - 1)
          /\ Width \in Nat /\ Height \in Nat
        BY Coordinates, SchedulerAssumption
    <1>2. \A r \in Cells :
             /\ Distance(r, d) = Gap(X(r), X(d)) + Gap(Y(r), Y(d))
             /\ Distance(r, o) = Gap(X(r), X(o)) + Gap(Y(r), Y(o))
             /\ Distance(d, o) = Gap(X(d), X(o)) + Gap(Y(d), Y(o))
        BY DistanceIs
    <1>3. CASE X(d) # X(o)
        <2>1. x \in 0..(Width - 1)
            BY <1>1, <1>3
        <2>2. PICK r \in Cells : X(r) = x /\ Y(r) = Y(d)
            BY <1>1, <2>1, Coordinates
        <2>3. Distance(r, d) = 1 /\ Distance(d, o) = Distance(r, o) + 1
            BY <1>1, <1>2, <1>3, <2>2 DEF Gap
        <2>. QED BY <2>3
    <1>4. CASE X(d) = X(o)
        <2>1. Y(d) # Y(o)
            BY <1>4, Coordinates
        <2>2. y \in 0..(Height - 1)
            BY <1>1, <2>1
        <2>3. PICK r \in Cells : X(r) = X(d) /\ Y(r) = y
            BY <1>1, <2>2, Coordinates
        <2>4. Distance(r, d) = 1 /\ Distance(d, o) = Distance(r, o) + 1
            BY <1>1, <1>2, <1>4, <2>1, <2>3 DEF Gap
        <2>. QED BY <2>4
    <1>. QED BY <1>3, <1>4

-----------------------------------------------------------------------------
(***************************************************************************)
(* The invariant of a wave.  An undisturbed schedule takes its handoffs in *)
(* the order of their depths, so that all cells closer to the origin have  *)
(* accepted the signal before the next handoff is taken.                   *)
(***************************************************************************)

\* Queues, mailboxes and the ledger hold signals of the schedules only.
Owned ==
    /\ \A j \in Jobs : \A h \in queue[j] : h.cause = job[j].cause
    /\ \A e \in deferred : e.handoff.cause = job[e.job].cause
    /\ \A e \in seen : \E j \in Jobs : job[j].cause = e.cause

\* A schedule that is drained has nothing left to take.
Finished == \A j \in Jobs : status[j] = "DRAINED" /\ j \notin draining => queue[j] = {}

\* The signal of j is carried by j alone, which met no busy cell and lost nothing.
Calm(j) ==
    /\ job[j] # NoJob
    /\ \A k \in Jobs \ {j} : job[k].cause # job[j].cause
    /\ count[j].deferred = 0
    /\ \A l \in lost : l.job # j

Far(j, d) == Distance(d, Origin[job[j].cause])
Call(j, d) == [cause |-> job[j].cause, recipient |-> d]
Known(j, d) == Call(j, d) \in SeenArrivals \cup Arrivals(queue[j])

\* Handoffs come over shortest paths, except those back to the origin.
Shortest(j) ==
    /\ \A h \in queue[j] : /\ Origin[job[j].cause] \in h.path
                           /\ Far(j, h.recipient) = 0 \/ h.depth = Far(j, h.recipient)
    /\ \A e \in seen : e.cause = job[j].cause =>
          Far(j, e.recipient) # 0 /\ e.depth = Far(j, e.recipient)

\* The origin and the cells that accepted have relayed to all cells further out ...
Relayed(j) ==
    \A r, d \in Cells :
        /\ Distance(r, d) = 1 /\ Far(j, d) = Far(j, r) + 1 /\ Far(j, d) <= HopLimit
        /\ Far(j, r) = 0 \/ Call(j, r) \in SeenArrivals
        => Known(j, d)

\* ... and the cells closer than the recipient of a handoff know the signal.
Inward(j) ==
    \A h \in queue[j], d \in Cells : 0 < Far(j, d) /\ Far(j, d) < h.depth => Known(j, d)

Wave(j) == Entries(j) = {} /\ Shortest(j) /\ Relayed(j) /\ Inward(j)

Waves == \A j \in Jobs : Calm(j) => Wave(j)

WaveInv == IInv /\ Owned /\ Finished /\ Waves

-----------------------------------------------------------------------------
(***************************************************************************)
(* The first handoff of a queue.                                           *)
(***************************************************************************)
\* A set of natural numbers has a least one.
LEMMA LeastElement ==
    ASSUME NEW T \in SUBSET Nat, T # {}
    PROVE  \E m \in T : \A k \in T : m <= k
    <1>. DEFINE R == {pair \in Nat \X Nat : pair[1] < pair[2]}
    <1>1. IsWellFoundedOn(R, Nat)
        BY NatLessThanWellFounded DEF OpToRel
    <1>2. PICK m \in T : \A k \in T : ~ (<<k, m>> \in R)
        <2>. HIDE DEF R
        <2>. QED BY <1>1, WFMin
    <1>3. \A k \in T : ~(k < m)
        BY <1>2
    <1>. QED BY <1>3

\* In a set of elements ranked by numbers there is one of the least rank.
LEMMA LeastRanked ==
    ASSUME NEW S, S # {}, NEW rank \in [S -> Nat]
    PROVE  \E m \in S : \A k \in S : rank[m] <= rank[k]
    <1>1. PICK n \in {rank[k] : k \in S} : \A k \in {rank[g] : g \in S} : n <= k
        <2>1. {rank[k] : k \in S} \in SUBSET Nat /\ {rank[k] : k \in S} # {}
            OBVIOUS
        <2>. QED BY <2>1, LeastElement
    <1>. QED BY <1>1

\* The handoff that is taken next exists and has the least depth.
LEMMA NextIsLeast ==
    ASSUME TypeOK, OneQueued, NEW j \in Jobs, queue[j] # {}
    PROVE  /\ NextInQueue(j) \in queue[j]
           /\ \A g \in queue[j] : NextInQueue(j).depth <= g.depth
    <1>1. \A h \in queue[j] : /\ h.depth \in Nat /\ h.cause \in Nat
                              /\ h.sender \in Nat /\ h.recipient \in Nat
        <2>1. Cells \subseteq Nat
            <3>1. Width * Height - 1 \in Int
                BY SchedulerAssumption
            <3>. QED BY <3>1 DEF Cells
        <2>2. 1..HopLimit \subseteq Nat /\ Causes \subseteq Nat
            BY SchedulerAssumption
        <2>3. \A h \in queue[j] : h \in Handoff
            BY DEF TypeOK
        <2>. QED BY <2>1, <2>2, <2>3 DEF Handoff
    <1>. DEFINE A == queue[j]
    <1>2. PICK a \in A : \A g \in A : a.depth <= g.depth
        <2>. DEFINE rank == [g \in A |-> g.depth]
        <2>1. rank \in [A -> Nat]
            BY <1>1
        <2>2. \E m \in A : \A k \in A : rank[m] <= rank[k]
            <3>. HIDE DEF A, rank
            <3>. QED BY <2>1, LeastRanked DEF A
        <2>. QED BY <2>2
    <1>. DEFINE B == {g \in A : g.depth = a.depth}
    <1>3. PICK b \in B : \A g \in B : b.cause <= g.cause
        <2>. DEFINE rank == [g \in B |-> g.cause]
        <2>1. rank \in [B -> Nat] /\ B # {}
            BY <1>1
        <2>2. \E m \in B : \A k \in B : rank[m] <= rank[k]
            <3>. HIDE DEF B, rank
            <3>. QED BY <2>1, LeastRanked
        <2>. QED BY <2>2
    <1>. DEFINE C == {g \in B : g.cause = b.cause}
    <1>4. PICK c \in C : \A g \in C : c.sender <= g.sender
        <2>. DEFINE rank == [g \in C |-> g.sender]
        <2>1. rank \in [C -> Nat] /\ C # {}
            BY <1>1
        <2>2. \E m \in C : \A k \in C : rank[m] <= rank[k]
            <3>. HIDE DEF C, rank
            <3>. QED BY <2>1, LeastRanked
        <2>. QED BY <2>2
    <1>. DEFINE D == {g \in C : g.sender = c.sender}
    <1>5. PICK d \in D : \A g \in D : d.recipient <= g.recipient
        <2>. DEFINE rank == [g \in D |-> g.recipient]
        <2>1. rank \in [D -> Nat] /\ D # {}
            BY <1>1
        <2>2. \E m \in D : \A k \in D : rank[m] <= rank[k]
            <3>. HIDE DEF D, rank
            <3>. QED BY <2>1, LeastRanked
        <2>. QED BY <2>2
    <1>6. ASSUME NEW g \in A \ {d} PROVE Precedes(d, g)
        <2>1. d \in A /\ d.depth = a.depth /\ d.cause = b.cause /\ d.sender = c.sender
            OBVIOUS
        <2>2. a.depth <= g.depth
            BY <1>2
        <2>3. g.depth = d.depth => b.cause <= g.cause
            BY <1>3, <2>1
        <2>4. g.depth = d.depth /\ g.cause = d.cause => c.sender <= g.sender
            BY <1>4, <2>1
        <2>5. g.depth = d.depth /\ g.cause = d.cause /\ g.sender = d.sender =>
                d.recipient <= g.recipient
            BY <1>5, <2>1
        <2>6. g.cause # d.cause \/ g.recipient # d.recipient
            BY <2>1 DEF OneQueued, Arrival
        <2>. QED BY <1>1, <2>1, <2>2, <2>3, <2>4, <2>5, <2>6 DEF Precedes
    <1>7. d \in A
        OBVIOUS
    <1>8. NextInQueue(j) \in A /\ \A g \in A \ {NextInQueue(j)} : Precedes(NextInQueue(j), g)
        <2>. HIDE DEF B, C, D
        <2>. QED BY <1>6, <1>7 DEF NextInQueue
    <1>. QED BY <1>1, <1>8 DEF Precedes

-----------------------------------------------------------------------------
(***************************************************************************)
(* Whose signal it is, and what a drained schedule holds.                  *)
(***************************************************************************)
\* A schedule that was started carries the signal of a cell ...
LEMMA Started ==
    ASSUME TypeOK, NEW j \in Jobs, job[j] # NoJob
    PROVE  /\ job[j] \in Options /\ job[j].cause \in Causes
           /\ Origin[job[j].cause] \in Cells
    BY SchedulerAssumption DEF TypeOK, Options

\* ... and one that was not carries none.
LEMMA NotStarted ==
    ASSUME NEW j \in Jobs, job[j] = NoJob
    PROVE  job[j].cause \notin Causes
    BY SchedulerAssumption DEF NoJob

\* Schedules queue, defer and accept handoffs of their own signals.
LEMMA StepOwned ==
    ASSUME TypeOK, Waits, Owned, [Next]_vars
    PROVE  Owned'
    <1>. USE DEF Waits
    <1>1. ASSUME NEW j \in Jobs, NEW c \in Causes, NEW a \in ArrivalModes,
                 NEW size \in QueueSizes, Start(j, c, a, size)
          PROVE  Owned'
        <2>1. /\ job[j] = NoJob /\ job'[j].cause = c /\ queue'[j] \subseteq Signal(c)
              /\ \A k \in Jobs \ {j} : job'[k] = job[k] /\ queue'[k] = queue[k]
              /\ UNCHANGED <<seen, deferred>>
            BY <1>1, StartQueues
        <2>2. \A h \in queue'[j] : h.cause = job'[j].cause
            BY <2>1 DEF Signal
        <2>3. \A e \in deferred : e.job \in Jobs /\ e.job # j
            BY <2>1 DEF Unstarted, Entries, TypeOK, Entry
        <2>4. ASSUME NEW e \in seen, NEW k \in Jobs, job[k].cause = e.cause
              PROVE  k # j
            BY <2>1, <2>4, NotStarted DEF TypeOK, Event
        <2>. QED BY <2>1, <2>2, <2>3, <2>4 DEF Owned
    <1>2. ASSUME NEW j \in Jobs, NEW m \in Budgets, BeginDrain(j, m)
          PROVE  Owned'
        <2>1. \A e \in deferred' : \E d \in deferred : e.handoff = d.handoff /\ e.job = d.job
            <3>1. \A e \in Retained(j) : \E d \in deferred : e.handoff = d.handoff /\ e.job = d.job
                BY RetainedEntries, SweepParts DEF Entries
            <3>. QED BY <1>2, <3>1, BeginDrainQueues
        <2>2. \A h \in HandoffsOf(Released(j)) : h.cause = job[j].cause
            BY SweepParts DEF HandoffsOf, Owned, Entries
        <2>. QED BY <1>2, <2>1, <2>2, BeginDrainQueues DEF Owned
    <1>3. ASSUME NEW j \in Jobs, NEW h \in queue[j], TurnOn(j, h)
          PROVE  Owned'
        <2>1. h.cause = job[j].cause
            BY DEF Owned
        <2>2. /\ job' = job
              /\ \A k \in Jobs \ {j} : queue'[k] = queue[k]
            BY <1>3, TurnQueues
        <2>3. CASE Accept(j, h)
            <3>1. PICK fitting : /\ queue'[j] = (queue[j] \ {h}) \cup fitting
                                 /\ fitting \subseteq NextHandoffs(h)
                BY <2>3, AcceptQueues
            <3>2. \A g \in NextHandoffs(h) : g.cause = h.cause
                BY DEF NextHandoffs
            <3>3. seen' = seen \cup {EventId(h)} /\ EventId(h).cause = h.cause
                BY <2>3, AcceptQueues DEF EventId
            <3>4. deferred' = deferred
                BY <2>3 DEF Accept
            <3>. QED BY <2>1, <2>2, <3>1, <3>2, <3>3, <3>4 DEF Owned
        <2>4. CASE ~Accept(j, h)
            <3>1. queue'[j] = queue[j] \ {h} /\ UNCHANGED seen
                BY <1>3, <2>4, TurnQueues
            <3>2. \A e \in deferred' : \/ e \in deferred
                                       \/ e.handoff = h /\ e.job = j
                <4>1. CASE Defer(j, h)
                    <5>. DEFINE new == [job |-> j, handoff |-> h, left |-> Ttl, retries |-> 0]
                    <5>1. deferred' = deferred \cup {new} /\ new.job = j /\ new.handoff = h
                        BY <1>3, <4>1, TurnQueues
                    <5>. HIDE DEF new
                    <5>. QED BY <5>1
                <4>2. CASE ~Defer(j, h)
                    BY <1>3, <4>2, TurnQueues
                <4>. QED BY <4>1, <4>2
            <3>. QED BY <2>1, <2>2, <3>1, <3>2 DEF Owned
        <2>. QED BY <2>3, <2>4
    <1>4. CASE Quiet
        BY <1>4 DEF Quiet, Owned
    <1>. QED BY <1>1, <1>2, <1>3, <1>4, StepCases

\* Only the end of a drain reports, and it looks at the queue.
LEMMA StepFinished ==
    ASSUME TypeOK, Waits, Finished, [Next]_vars
    PROVE  Finished'
    <1>. USE DEF Waits
    <1>1. ASSUME NEW j \in Jobs, NEW c \in Causes, NEW a \in ArrivalModes,
                 NEW size \in QueueSizes, Start(j, c, a, size)
          PROVE  Finished'
        BY <1>1, StartQueues DEF Finished, Unstarted
    <1>2. ASSUME NEW j \in Jobs, NEW m \in Budgets, BeginDrain(j, m)
          PROVE  Finished'
        BY <1>2, BeginDrainQueues DEF Finished
    <1>3. ASSUME NEW j \in Jobs, NEW h \in queue[j], TurnOn(j, h)
          PROVE  Finished'
        BY <1>3, TurnQueues DEF Finished
    <1>4. ASSUME NEW j \in Jobs, EndDrain(j) PROVE Finished'
        <2>1. /\ draining = {j} /\ draining' = {} /\ queue' = queue
              /\ status'[j] = DrainStatus(j)
              /\ \A k \in Jobs \ {j} : status'[k] = status[k]
            BY <1>4 DEF EndDrain, TypeOK
        <2>2. status'[j] = "DRAINED" => queue[j] = {}
            BY <2>1 DEF DrainStatus
        <2>. QED BY <2>1, <2>2 DEF Finished
    <1>5. CASE UNCHANGED <<queue, status, draining>>
        BY <1>5 DEF Finished
    <1>. QED
        BY <1>1, <1>2, <1>3, <1>4, <1>5
        DEF Next, Drain, Turn, TurnOn, Occupy, Vacate, Commit, vars

-----------------------------------------------------------------------------
(***************************************************************************)
(* Calm schedules.                                                         *)
(***************************************************************************)

\* A schedule that is calm after a step was calm before, or starts with it.
LEMMA StepCalm ==
    ASSUME TypeOK, Waits, [Next]_vars, NEW j \in Jobs, job[j] # NoJob, Calm(j)'
    PROVE  Calm(j) /\ job'[j] = job[j]
    <1>. USE DEF Waits
    <1>1. \A k \in Jobs : job[k] # NoJob => job'[k] = job[k]
        BY StepCases, StartQueues, BeginDrainQueues, TurnQueues DEF Quiet
    <1>2. ASSUME NEW k \in Jobs \ {j} PROVE job[k].cause # job[j].cause
        <2>1. CASE job[k] = NoJob
            BY <2>1, Started, NotStarted
        <2>2. CASE job[k] # NoJob
            BY <1>1, <2>2 DEF Calm
        <2>. QED BY <2>1, <2>2
    <1>3. count[j].deferred = 0
        <2>1. "deferred" \in Counters
            BY DEF Counters
        <2>2. count[j].deferred \in Nat /\ count'[j].deferred = 0
            BY <2>1 DEF TypeOK, Calm
        <2>3. count'[j].deferred >= count[j].deferred
            BY <2>1, StepCountsGrow
        <2>. QED BY <2>2, <2>3
    <1>4. \A l \in lost : l.job # j
        BY StepGrows DEF Calm
    <1>. QED BY <1>1, <1>2, <1>3, <1>4 DEF Calm

\* A calm schedule has nothing in a mailbox, and nobody else holds its signal.
LEMMA CalmWaits ==
    ASSUME TypeOK, Owned, NEW j \in Jobs, Calm(j), Entries(j) = {}
    PROVE  /\ \A d : Call(j, d) \notin DeferredArrivals
           /\ \A k \in Jobs \ {j} : \A h \in queue[k] : h.cause # job[j].cause
    <1>1. \A e \in deferred : e.job \in Jobs /\ e.job # j
        BY DEF TypeOK, Entry, Entries
    <1>2. \A e \in deferred : e.handoff.cause # job[j].cause
        BY <1>1 DEF Owned, Calm
    <1>3. \A k \in Jobs \ {j} : \A h \in queue[k] : h.cause # job[j].cause
        BY DEF Owned, Calm
    <1>. QED BY <1>2, <1>3 DEF Call, DeferredArrivals, Arrival

\* The ledger and the queue in terms of cells.
LEMMA CallMeans ==
    ASSUME NEW j \in Jobs, NEW d
    PROVE  /\ Call(j, d) \in SeenArrivals <=>
                \E e \in seen : e.cause = job[j].cause /\ e.recipient = d
           /\ Call(j, d) \in Arrivals(queue[j]) <=>
                \E h \in queue[j] : h.cause = job[j].cause /\ h.recipient = d
    BY DEF Call, SeenArrivals, Arrivals, Arrival

\* What leaves a schedule and its signal alone leaves its wave alone.
LEMMA WaveKept ==
    ASSUME NEW j \in Jobs, Wave(j), Entries(j)' = {}, UNCHANGED <<job[j], queue[j]>>,
           \A e : e.cause = job[j].cause => (e \in seen' <=> e \in seen)
    PROVE  Wave(j)'
    <1>1. /\ \A d : Far(j, d)' = Far(j, d)
          /\ \A d : Call(j, d)' = Call(j, d)
          /\ Arrivals(queue[j])' = Arrivals(queue[j])
        BY DEF Far, Call, Arrivals
    <1>2. \A d : Call(j, d) \in SeenArrivals' <=> Call(j, d) \in SeenArrivals
        BY DEF Call, SeenArrivals, Arrivals, Arrival
    <1>3. \A d : Known(j, d)' <=> Known(j, d)
        BY <1>1, <1>2 DEF Known
    <1>4. Shortest(j)'
        BY <1>1 DEF Wave, Shortest
    <1>5. Relayed(j)'
        BY <1>1, <1>2, <1>3 DEF Wave, Relayed
    <1>6. Inward(j)'
        BY <1>1, <1>3 DEF Wave, Inward
    <1>. QED BY <1>4, <1>5, <1>6 DEF Wave

-----------------------------------------------------------------------------
(***************************************************************************)
(* The steps of a wave.                                                    *)
(***************************************************************************)
\* Losses of others are not losses of j.
LEMMA LostElsewhere ==
    ASSUME NEW j, NEW losses, \A l \in losses : l.job # j
    PROVE  \A a : [job |-> j, arrival |-> a] \notin losses
    <1>1. \A a : [job |-> j, arrival |-> a].job = j
        OBVIOUS
    <1>. QED BY <1>1

\* A schedule starts with a handoff to each neighbour of the origin.
LEMMA StartWave ==
    ASSUME TypeOK, Waits, Owned, NEW j \in Jobs, NEW c \in Causes, NEW a \in ArrivalModes,
           NEW size \in QueueSizes, Start(j, c, a, size), Calm(j)'
    PROVE  Wave(j)'
    <1>. USE DEF Waits
    <1>. DEFINE o == Origin[c]
    <1>1. /\ job[j] = NoJob /\ job'[j].cause = c /\ queue'[j] \subseteq Signal(c)
          /\ \A k \in Jobs \ {j} : job'[k] = job[k]
          /\ UNCHANGED <<seen, deferred>>
          /\ o \in Cells
        BY StartQueues, SchedulerAssumption
    <1>2. \A k \in Jobs : job[k].cause # c
        BY <1>1, NotStarted DEF Calm
    <1>3. \A e \in seen : e.cause # c
        BY <1>2 DEF Owned
    <1>4. \A e \in deferred : e.handoff.cause # c
        BY <1>2 DEF Owned, TypeOK, Entry
    <1>5. \A h \in Signal(c) : /\ h.cause = c /\ h.depth = 1 /\ h.path = {o}
                               /\ h.recipient \in Cells /\ Distance(h.recipient, o) = 1
        <2>1. \A d \in Cells : Distance(o, d) = 1 => Distance(d, o) = 1
            BY <1>1, NextDistance, DistanceIs
        <2>. QED BY <2>1 DEF Signal, Neighbours
    <1>6. Signal(c) \subseteq queue'[j]
        <2>1. ASSUME NEW h \in Signal(c), Arrival(h) \in SeenArrivals \cup DeferredArrivals
              PROVE  FALSE
            <3>1. \A g : Arrival(g) = Arrival(h) => g.cause = c
                BY <1>5 DEF Arrival
            <3>2. \/ \E e \in seen : Arrival(e) = Arrival(h)
                  \/ \E e \in deferred : Arrival(e.handoff) = Arrival(h)
                BY <2>1 DEF SeenArrivals, DeferredArrivals, Arrivals
            <3>. QED BY <1>3, <1>4, <3>1, <3>2
        <2>2. \A h \in Signal(c) \ queue'[j] :
                 \/ Arrival(h) \in SeenArrivals \cup DeferredArrivals
                 \/ [job |-> j, arrival |-> Arrival(h)] \in lost'
            BY StartQueues
        <2>3. \A x : [job |-> j, arrival |-> x] \notin lost'
            BY LostElsewhere DEF Calm
        <2>. QED BY <2>1, <2>2, <2>3
    <1>7. \A d : Far(j, d)' = Distance(d, o)
        BY <1>1 DEF Far
    <1>8. Entries(j)' = {}
        BY <1>1 DEF Unstarted, Entries
    <1>9. Shortest(j)'
        BY <1>1, <1>3, <1>5, <1>7 DEF Shortest
    <1>10. Relayed(j)'
        <2>1. \A r : Call(j, r)' \notin SeenArrivals'
            BY <1>1, <1>3 DEF Call, SeenArrivals, Arrivals, Arrival
        <2>2. ASSUME NEW d \in Cells, Distance(o, d) = 1
              PROVE  Known(j, d)'
            <3>. DEFINE h == [cause |-> c, depth |-> 1, sender |-> o, recipient |-> d, path |-> {o}]
            <3>1. h \in Signal(c) /\ h.recipient = d
                BY <2>2 DEF Signal, Neighbours
            <3>. HIDE DEF h
            <3>2. h \in queue'[j] /\ Arrival(h) = Call(j, d)'
                BY <1>1, <1>5, <1>6, <3>1 DEF Arrival, Call
            <3>. QED BY <3>2 DEF Known, Arrivals
        <2>3. \A r \in Cells : Distance(r, o) = 0 => r = o
            BY <1>1, DistanceIs
        <2>. QED BY <1>7, <2>1, <2>2, <2>3 DEF Relayed
    <1>11. Inward(j)'
        <2>1. \A d \in Cells : Distance(d, o) \in Nat
            BY <1>1, DistanceIs
        <2>. QED BY <1>1, <1>5, <1>7, <2>1 DEF Inward
    <1>. QED BY <1>8, <1>9, <1>10, <1>11 DEF Wave

\* A handoff that is taken and not accepted led to a cell that knows the signal.
LEMMA RejectWave ==
    ASSUME TypeOK, Waits, Owned, PathsSeen, NEW j \in Jobs, NEW h \in queue[j],
           TurnOn(j, h), ~Accept(j, h), Calm(j), Calm(j)', Wave(j)
    PROVE  Wave(j)'
    <1>. USE DEF Waits
    <1>1. /\ job[j].cause \in Causes /\ Origin[job[j].cause] \in Cells
          /\ h \in Handoff /\ h.cause = job[j].cause
        BY Started DEF Calm, Owned, TypeOK
    <1>2. Reject(j, h)
        <2>1. ~Defer(j, h)
            <3>1. ASSUME Defer(j, h) PROVE FALSE
                <4>1. count'[j].deferred = count[j].deferred + 1
                    BY <3>1, TurnCounts
                <4>. QED BY <4>1 DEF Calm
            <3>. QED BY <3>1
        <2>2. ~DropByMailbox(j, h)
            <3>1. ASSUME DropByMailbox(j, h) PROVE [job |-> j, arrival |-> Arrival(h)] \in lost'
                BY <3>1 DEF DropByMailbox, Lose, Arrivals
            <3>. QED BY <3>1, LostElsewhere DEF Calm
        <2>3. ~DeferDuplicate(j, h)
            <3>1. Arrival(h) = Call(j, h.recipient)
                BY <1>1 DEF Arrival, Call
            <3>. QED BY <3>1, CalmWaits DEF DeferDuplicate, Wave
        <2>. QED BY <2>1, <2>2, <2>3 DEF TurnOn
    <1>3. Far(j, h.recipient) = 0 \/ Call(j, h.recipient) \in SeenArrivals
        <2>1. CASE EventId(h) \in seen
            <3>1. EventId(h).cause = job[j].cause /\ EventId(h).recipient = h.recipient
                BY <1>1 DEF EventId
            <3>. QED BY <2>1, <3>1, CallMeans
        <2>2. CASE Arrival(h) \in SeenArrivals
            BY <1>1, <2>2 DEF Arrival, Call
        <2>3. CASE h.recipient \in h.path
            <3>1. \/ h.recipient = Origin[job[j].cause]
                  \/ [cause |-> h.cause, recipient |-> h.recipient] \in SeenArrivals
                BY <1>1, <2>3 DEF PathsSeen, PathSeen
            <3>. QED BY <1>1, <3>1, DistanceIs DEF Far, Call
        <2>. QED BY <1>2, <2>1, <2>2, <2>3 DEF Reject, Admissible
    <1>4. /\ queue'[j] = queue[j] \ {h} /\ job' = job /\ seen' = seen /\ deferred' = deferred
        BY <1>2, TurnQueues DEF Reject
    <1>5. /\ \A d : Far(j, d)' = Far(j, d) /\ Call(j, d)' = Call(j, d)
          /\ SeenArrivals' = SeenArrivals /\ Entries(j)' = Entries(j)
        BY <1>4 DEF Far, Call, SeenArrivals, Entries
    <1>6. ASSUME NEW d \in Cells, Far(j, d) # 0, Known(j, d)
          PROVE  Known(j, d)'
        <2>1. CASE Call(j, d) \in SeenArrivals
            BY <1>5, <2>1 DEF Known
        <2>2. CASE Call(j, d) \notin SeenArrivals
            <3>1. PICK g \in queue[j] : Arrival(g) = Call(j, d)
                BY <1>6, <2>2 DEF Known, Arrivals
            <3>2. g.recipient = d
                BY <3>1 DEF Arrival, Call
            <3>3. g \in queue'[j]
                BY <1>3, <1>4, <1>6, <2>2, <3>2
            <3>. QED BY <1>5, <3>1, <3>3 DEF Known, Arrivals
        <2>. QED BY <2>1, <2>2
    <1>7. Shortest(j)'
        BY <1>4, <1>5 DEF Wave, Shortest
    <1>8. \A d \in Cells : Far(j, d) \in Nat
        BY <1>1, DistanceIs DEF Far
    <1>9. Relayed(j)'
        BY <1>5, <1>6, <1>8 DEF Wave, Relayed
    <1>10. Inward(j)'
        BY <1>4, <1>5, <1>6, <1>8 DEF Wave, Inward
    <1>. QED BY <1>5, <1>7, <1>9, <1>10 DEF Wave

\* When a handoff is accepted all cells closer to the origin have accepted, and
\* those as far away know the signal: what is relayed further is the shortest way.
LEMMA AcceptWave ==
    ASSUME TypeOK, Waits, Owned, NEW j \in Jobs, NEW h \in queue[j],
           Accept(j, h), Calm(j), Calm(j)', Wave(j)
    PROVE  Wave(j)'
    <1>. USE DEF Waits
    <1>. DEFINE o == Origin[job[j].cause]
                s == h.recipient
    <1>1. /\ job[j].cause \in Causes /\ o \in Cells
          /\ h \in Handoff /\ h.cause = job[j].cause
          /\ s \in Cells /\ h.depth \in Nat /\ h.depth <= HopLimit
        BY Started, SchedulerAssumption DEF Calm, Owned, TypeOK, Handoff
    <1>2. \A d \in Cells : Far(j, d) \in Nat /\ (Far(j, d) = 0 <=> d = o)
        BY <1>1, DistanceIs DEF Far
    <1>3. Admissible(h) /\ \A g \in queue[j] : h.depth <= g.depth
        BY NextIsLeast DEF Accept, Take
    <1>4. o \in h.path /\ Far(j, s) # 0 /\ h.depth = Far(j, s)
        <2>1. o \in h.path /\ (Far(j, s) = 0 \/ h.depth = Far(j, s))
            BY DEF Wave, Shortest
        <2>. QED BY <1>1, <1>2, <1>3, <2>1 DEF Admissible
    <1>5. PICK fitting :
             /\ queue'[j] = (queue[j] \ {h}) \cup fitting
             /\ fitting \subseteq NextHandoffs(h)
             /\ \A g \in fitting : Arrival(g) \notin SeenArrivals'
        BY AcceptQueues
    <1>6. /\ seen' = seen \cup {EventId(h)}
          /\ job' = job /\ deferred' = deferred
          /\ Arrival(h) \in SeenArrivals' /\ SeenArrivals \subseteq SeenArrivals'
          /\ EventId(h).cause = h.cause /\ EventId(h).recipient = s
          /\ EventId(h).depth = h.depth
        <2>1. seen' = seen \cup {EventId(h)} /\ job' = job /\ deferred' = deferred
            BY DEF Accept, Take
        <2>. QED BY <2>1, AcceptSees DEF EventId, SeenArrivals, Arrivals
    <1>7. /\ \A d : Far(j, d)' = Far(j, d) /\ Call(j, d)' = Call(j, d)
          /\ Entries(j)' = Entries(j)
        BY <1>6 DEF Far, Call, Entries
    <1>8. \A g \in NextHandoffs(h) :
             /\ g.cause = h.cause /\ g.depth = h.depth + 1 /\ g.path = h.path \cup {s}
             /\ g.recipient \in Cells /\ Distance(s, g.recipient) = 1
        BY DEF NextHandoffs, Neighbours
    <1>9. ASSUME NEW d \in Cells, Known(j, d)
          PROVE  Known(j, d)'
        <2>1. CASE Call(j, d) \in SeenArrivals \/ Call(j, d) = Arrival(h)
            BY <1>6, <1>7, <2>1 DEF Known
        <2>2. CASE Call(j, d) \notin SeenArrivals /\ Call(j, d) # Arrival(h)
            BY <1>5, <1>7, <1>9, <2>2 DEF Known, Arrivals
        <2>. QED BY <2>1, <2>2
    <1>10. ASSUME NEW d \in Cells, 0 < Far(j, d), Far(j, d) < h.depth
           PROVE  Call(j, d) \in SeenArrivals
        <2>1. Known(j, d)
            BY <1>10 DEF Wave, Inward
        <2>2. ASSUME Call(j, d) \in Arrivals(queue[j]) PROVE FALSE
            <3>1. PICK g \in queue[j] : g.recipient = d
                BY <2>2, CallMeans
            <3>2. g.depth = Far(j, d)
                BY <1>2, <1>10, <3>1 DEF Wave, Shortest
            <3>. QED BY <1>1, <1>2, <1>3, <1>10, <3>2
        <2>. QED BY <2>1, <2>2 DEF Known
    <1>11. ASSUME NEW d \in Cells, 0 < Far(j, d), Far(j, d) <= h.depth
           PROVE  Known(j, d)'
        <2>1. PICK r \in Cells : Distance(r, d) = 1 /\ Far(j, d) = Far(j, r) + 1
            BY <1>1, <1>2, <1>11, CloserNeighbour DEF Far
        <2>2. Far(j, r) = 0 \/ Call(j, r) \in SeenArrivals
            BY <1>1, <1>2, <1>10, <1>11, <2>1
        <2>3. Far(j, d) <= HopLimit
            BY <1>1, <1>2, <1>11, SchedulerAssumption
        <2>. QED BY <1>9, <2>1, <2>2, <2>3 DEF Wave, Relayed
    <1>12. ASSUME NEW g \in NextHandoffs(h)
           PROVE  Known(j, g.recipient)'
        <2>1. Arrival(g) = Call(j, g.recipient)
            BY <1>1, <1>8 DEF Arrival, Call
        <2>2. Arrival(g) \notin DeferredArrivals
            BY <2>1, CalmWaits DEF Wave
        <2>3. CASE g \in queue'[j]
            BY <1>7, <2>1, <2>3 DEF Known, Arrivals
        <2>4. CASE g \notin queue'[j]
            <3>1. \/ Arrival(g) \in SeenArrivals' \cup DeferredArrivals \cup Arrivals(queue'[j])
                  \/ [job |-> j, arrival |-> Arrival(g)] \in lost'
                BY <2>4, AcceptQueues
            <3>. QED BY <1>7, <2>1, <2>2, <3>1 DEF Known, Calm
        <2>. QED BY <2>3, <2>4
    <1>13. Shortest(j)'
        <2>1. ASSUME NEW g \in fitting
              PROVE  o \in g.path /\ (Far(j, g.recipient) = 0 \/ g.depth = Far(j, g.recipient))
            <3>1. /\ g.recipient \in Cells /\ g.cause = job[j].cause
                  /\ g.depth = h.depth + 1 /\ o \in g.path
                BY <1>1, <1>4, <1>5, <1>8
            <3>2. \/ Far(j, g.recipient) = Far(j, s) + 1
                  \/ Far(j, g.recipient) = Far(j, s) - 1
                BY <1>1, <1>5, <1>8, NextDistance DEF Far
            <3>3. ASSUME Far(j, g.recipient) = Far(j, s) - 1
                  PROVE  Far(j, g.recipient) = 0
                <4>1. Call(j, g.recipient) \notin SeenArrivals
                    BY <1>5, <1>6, <3>1 DEF Call, Arrival
                <4>. QED BY <1>1, <1>2, <1>4, <1>10, <3>1, <3>3, <4>1
            <3>. QED BY <1>4, <3>1, <3>2, <3>3
        <2>2. /\ \A g \in queue[j] : /\ o \in g.path
                                     /\ Far(j, g.recipient) = 0 \/ g.depth = Far(j, g.recipient)
              /\ \A e \in seen : e.cause = job[j].cause =>
                    Far(j, e.recipient) # 0 /\ e.depth = Far(j, e.recipient)
            BY DEF Wave, Shortest
        <2>3. \A g \in queue'[j] : /\ o \in g.path
                                   /\ Far(j, g.recipient) = 0 \/ g.depth = Far(j, g.recipient)
            BY <1>5, <2>1, <2>2
        <2>4. \A e \in seen' : e.cause = job[j].cause =>
                 Far(j, e.recipient) # 0 /\ e.depth = Far(j, e.recipient)
            BY <1>4, <1>6, <2>2
        <2>. QED BY <1>6, <1>7, <2>3, <2>4 DEF Shortest
    <1>14. Relayed(j)'
        <2>1. ASSUME NEW r \in Cells, NEW d \in Cells, Distance(r, d) = 1,
                     Far(j, d) = Far(j, r) + 1, Far(j, d) <= HopLimit,
                     Far(j, r) = 0 \/ Call(j, r) \in SeenArrivals'
              PROVE  Known(j, d)'
            <3>1. CASE Far(j, r) = 0 \/ Call(j, r) \in SeenArrivals
                BY <1>9, <2>1, <3>1 DEF Wave, Relayed
            <3>2. CASE ~(Far(j, r) = 0 \/ Call(j, r) \in SeenArrivals)
                <4>1. r = s
                    BY <1>6, <2>1, <3>2 DEF Call, SeenArrivals, Arrivals, Arrival
                <4>2. h.depth < HopLimit
                    BY <1>1, <1>2, <1>4, <2>1, <4>1, SchedulerAssumption
                <4>3. d \in Neighbours(s)
                    BY <2>1, <4>1 DEF Neighbours
                <4>. DEFINE g == [cause |-> h.cause, depth |-> h.depth + 1, sender |-> s,
                                  recipient |-> d, path |-> h.path \cup {s}]
                <4>4. g \in NextHandoffs(h) /\ g.recipient = d
                    BY <1>1, <4>2, <4>3, SchedulerAssumption DEF NextHandoffs
                <4>. HIDE DEF g
                <4>. QED BY <1>12, <4>4
            <3>. QED BY <3>1, <3>2
        <2>. QED BY <1>7, <2>1 DEF Relayed
    <1>15. Inward(j)'
        <2>1. ASSUME NEW g \in queue'[j], NEW d \in Cells, 0 < Far(j, d), Far(j, d) < g.depth
              PROVE  Known(j, d)'
            <3>1. CASE g \in queue[j]
                BY <1>9, <2>1, <3>1 DEF Wave, Inward
            <3>2. CASE g \in fitting
                <4>1. Far(j, d) <= h.depth
                    BY <1>1, <1>2, <1>5, <1>8, <2>1, <3>2
                <4>. QED BY <1>11, <2>1, <4>1
            <3>. QED BY <1>5, <2>1, <3>1, <3>2
        <2>. QED BY <1>7, <2>1 DEF Inward
    <1>. QED BY <1>7, <1>13, <1>14, <1>15 DEF Wave

\* The wave of a calm schedule survives every step.
LEMMA StepWaves ==
    ASSUME IInv, Owned, Waves, [Next]_vars
    PROVE  Waves'
    <1>1. TypeOK /\ Waits /\ PathsSeen
        BY DEF IInv
    <1>. SUFFICES ASSUME NEW j \in Jobs, Calm(j)' PROVE Wave(j)'
        BY DEF Waves
    <1>2. job[j] # NoJob => Calm(j) /\ Wave(j) /\ job'[j] = job[j]
        BY <1>1, StepCalm DEF Waves
    <1>3. ASSUME NEW k \in Jobs, NEW c \in Causes, NEW a \in ArrivalModes,
                 NEW size \in QueueSizes, Start(k, c, a, size)
          PROVE  Wave(j)'
        <2>1. CASE k = j
            BY <1>1, <1>3, <2>1, StartWave
        <2>2. CASE k # j
            <3>1. /\ queue'[j] = queue[j] /\ job'[j] = job[j]
                  /\ seen' = seen /\ Entries(j)' = Entries(j)
                BY <1>1, <1>3, <2>2, StartQueues DEF Entries
            <3>2. Wave(j)
                BY <1>2, <3>1 DEF Calm
            <3>. QED BY <3>1, <3>2, WaveKept DEF Wave
        <2>. QED BY <2>1, <2>2
    <1>4. ASSUME job'[j] = job[j] PROVE Calm(j) /\ Wave(j)
        BY <1>2, <1>4 DEF Calm
    <1>5. ASSUME NEW k \in Jobs, NEW m \in Budgets, BeginDrain(k, m)
          PROVE  Wave(j)'
        <2>1. /\ job' = job /\ seen' = seen
              /\ deferred' = (deferred \ Entries(k)) \cup Retained(k)
              /\ queue'[k] = queue[k] \cup HandoffsOf(Released(k))
              /\ \A i \in Jobs \ {k} : queue'[i] = queue[i]
            BY <1>1, <1>5, BeginDrainQueues
        <2>2. Wave(j)
            BY <1>4, <2>1
        <2>3. \A e \in Retained(k) : e.job = k
            BY <1>1, RetainedEntries
        <2>4. Entries(j)' = {} /\ queue'[j] = queue[j]
            <3>1. CASE k = j
                <4>1. Entries(j) = {} /\ Released(j) = {} /\ Kept(j) = {}
                    BY <1>1, <2>2, SweepParts, RetainedEntries DEF Wave
                <4>2. Retained(j) = {} /\ HandoffsOf(Released(j)) = {}
                    BY <1>1, <4>1, RetainedEntries DEF HandoffsOf
                <4>. QED BY <2>1, <3>1, <4>1, <4>2 DEF Entries
            <3>2. CASE k # j
                BY <2>1, <2>2, <2>3, <3>2 DEF Wave, Entries
            <3>. QED BY <3>1, <3>2
        <2>. QED BY <2>1, <2>2, <2>4, WaveKept
    <1>6. ASSUME NEW k \in Jobs, NEW h \in queue[k], TurnOn(k, h)
          PROVE  Wave(j)'
        <2>1. job' = job /\ \A i \in Jobs \ {k} : queue'[i] = queue[i]
            BY <1>1, <1>6, TurnQueues
        <2>2. Calm(j) /\ Wave(j)
            BY <1>4, <2>1
        <2>3. CASE k = j
            BY <1>1, <1>6, <2>2, <2>3, AcceptWave, RejectWave
        <2>4. CASE k # j
            <3>1. h.cause # job[j].cause
                BY <1>1, <2>2, <2>4, CalmWaits DEF Wave
            <3>2. \A e : e.cause = job[j].cause => (e \in seen' <=> e \in seen)
                <4>1. CASE Accept(k, h)
                    <5>1. seen' = seen \cup {EventId(h)}
                        BY <1>1, <4>1, AcceptQueues
                    <5>2. EventId(h).cause = h.cause
                        BY DEF EventId
                    <5>. QED BY <3>1, <5>1, <5>2
                <4>2. CASE ~Accept(k, h)
                    BY <1>1, <1>6, <4>2, TurnQueues
                <4>. QED BY <4>1, <4>2
            <3>3. Entries(j)' = {}
                <4>1. CASE Defer(k, h)
                    <5>. DEFINE new == [job |-> k, handoff |-> h, left |-> Ttl, retries |-> 0]
                    <5>1. deferred' = deferred \cup {new} /\ new.job = k
                        BY <1>1, <1>6, <4>1, TurnQueues
                    <5>. HIDE DEF new
                    <5>. QED BY <2>2, <2>4, <5>1 DEF Wave, Entries
                <4>2. CASE ~Defer(k, h)
                    BY <1>1, <1>6, <2>2, <4>2, TurnQueues DEF Wave, Entries
                <4>. QED BY <4>1, <4>2
            <3>. QED BY <2>1, <2>2, <2>4, <3>2, <3>3, WaveKept
        <2>. QED BY <2>3, <2>4
    <1>7. CASE Quiet
        <2>1. Wave(j) /\ job' = job /\ queue' = queue /\ seen' = seen
            BY <1>4, <1>7 DEF Quiet
        <2>2. Entries(j)' = {}
            BY <1>7, <2>1 DEF Quiet, Entries, Wave
        <2>. QED BY <2>1, <2>2, WaveKept
    <1>. QED BY <1>3, <1>5, <1>6, <1>7, StepCases

\* A calm schedule that is drained has sent the wave everywhere.
LEMMA WaveReaches ==
    ASSUME TypeOK, NEW j \in Jobs, Calm(j), Wave(j), queue[j] = {},
           NEW c \in Cells, c # Origin[job[j].cause], Far(j, c) <= HopLimit
    PROVE  \E e \in seen : e.cause = job[j].cause /\ e.recipient = c /\ e.depth = Far(j, c)
    <1>. DEFINE o == Origin[job[j].cause]
                Missed == {d \in Cells : /\ 0 < Far(j, d) /\ Far(j, d) <= HopLimit
                                         /\ Call(j, d) \notin SeenArrivals}
    <1>1. o \in Cells
        BY Started DEF Calm
    <1>2. \A d \in Cells : Far(j, d) \in Nat /\ (Far(j, d) = 0 <=> d = o)
        BY <1>1, DistanceIs DEF Far
    <1>3. ASSUME Missed # {} PROVE FALSE
        <2>. DEFINE rank == [k \in Missed |-> Far(j, k)]
        <2>1. rank \in [Missed -> Nat]
            BY <1>2
        <2>2. PICK d \in Missed : \A k \in Missed : rank[d] <= rank[k]
            <3>. HIDE DEF Missed, rank
            <3>. QED BY <1>3, <2>1, LeastRanked
        <2>3. PICK r \in Cells : Distance(r, d) = 1 /\ Far(j, d) = Far(j, r) + 1
            BY <1>1, <1>2, CloserNeighbour DEF Far
        <2>4. r \notin Missed
            BY <1>2, <2>2, <2>3
        <2>5. Far(j, r) = 0 \/ Call(j, r) \in SeenArrivals
            BY <1>2, <2>3, <2>4, SchedulerAssumption
        <2>6. Known(j, d)
            BY <2>3, <2>5 DEF Wave, Relayed
        <2>. QED BY <2>6 DEF Known, Arrivals
    <1>4. Call(j, c) \in SeenArrivals
        BY <1>2, <1>3
    <1>. QED BY <1>4, CallMeans DEF Wave, Shortest

-----------------------------------------------------------------------------
(***************************************************************************)
(* The theorems.                                                           *)
(***************************************************************************)
LEMMA InitIInv ==
    ASSUME Init
    PROVE  IInv
    <1>1. TypeOK
        BY DEF Init, TypeOK, Statuses
    <1>2. Waits
        BY FS_EmptySet DEF Init, Waits, Finite, Unstarted, OneQueued, OneEntry, Entries
    <1>3. Bounded
        <2>1. \A j \in Jobs : queue[j] = {} /\ job[j].maxQueue = 0
            BY DEF Init, NoJob
        <2>2. \A c : Mailbox(c) = {}
            BY DEF Init, Mailbox
        <2>3. Cardinality({}) = 0 /\ MaxMailbox \in Nat
            BY FS_EmptySet, SchedulerAssumption
        <2>. QED BY <2>1, <2>2, <2>3 DEF Bounded
    <1>4. Accounted
        <2>1. \A j \in Jobs, n \in Counters : count[j][n] = 0
            BY DEF Init
        <2>2. \A j \in Jobs : queue[j] = {} /\ Entries(j) = {}
            BY DEF Init, Entries
        <2>. QED BY <2>1, <2>2, FS_EmptySet DEF Accounted, Counters
    <1>5. PathsSeen /\ LossesCounted /\ LossReported
        BY DEF Init, PathsSeen, LossesCounted, LossReported
    <1>6. NothingVanishes
        <2>1. Offered = {}
            BY DEF Init, Offered
        <2>. QED BY <2>1 DEF NothingVanishes
    <1>. QED BY <1>1, <1>2, <1>3, <1>4, <1>5, <1>6 DEF IInv

LEMMA StepIInv ==
    ASSUME IInv, [Next]_vars
    PROVE  IInv'
    <1>1. TypeOK /\ Waits /\ Finite
        BY DEF IInv, Waits
    <1>2. TypeOK'
        BY <1>1, StepTypes
    <1>3. Waits'
        BY <1>1, StepFinite, StepUnstarted, StepOneQueued, StepOneEntry DEF Waits
    <1>4. Bounded' /\ Accounted'
        BY <1>1, StepBounded, StepAccounted DEF IInv
    <1>5. PathsSeen' /\ NothingVanishes'
        BY <1>1, StepPathsSeen, StepNothingVanishes DEF IInv
    <1>6. LossesCounted' /\ LossReported'
        BY <1>1, StepLossesCounted, StepLossReported DEF IInv
    <1>. QED BY <1>2, <1>3, <1>4, <1>5, <1>6 DEF IInv

\* Every reachable state satisfies the inductive invariant.
THEOREM InvariantHolds == Spec => []IInv
    <1>1. Init => IInv
        BY InitIInv
    <1>2. IInv /\ [Next]_vars => IInv'
        BY StepIInv
    <1>. QED BY <1>1, <1>2, PTL DEF Spec

\* The state of the scheduler keeps its types: ages and retries stay within
\* their limits, and counters only count.
THEOREM TypeCorrect == Spec => []TypeOK
    <1>1. IInv => TypeOK
        BY DEF IInv
    <1>. QED BY <1>1, InvariantHolds, PTL

\* Queues and mailboxes stay within their limits, whatever the drains release
\* and derive (enqueueIntoJob, deferBusyHandoff, sweepDeferredMailboxes).
THEOREM BoundedHolds == Spec => []Bounded
    <1>1. IInv => Bounded
        BY DEF IInv
    <1>. QED BY <1>1, InvariantHolds, PTL

\* The counters of a schedule balance with what it still holds.
THEOREM AccountedHolds == Spec => []Accounted
    <1>1. IInv => Accounted
        BY DEF IInv
    <1>. QED BY <1>1, InvariantHolds, PTL

\* A mailbox entry is the only one of its arrival, and its own schedule does not
\* queue that arrival as well.
THEOREM OneEntryHolds == Spec => []OneEntry
    <1>1. IInv => OneEntry
        BY DEF IInv, Waits
    <1>. QED BY <1>1, InvariantHolds, PTL

\* An arrival that was asked for was accepted, is held, or is counted as lost.
THEOREM NothingVanishesHolds == Spec => []NothingVanishes
    <1>1. IInv => NothingVanishes
        BY DEF IInv
    <1>. QED BY <1>1, InvariantHolds, PTL

\* A schedule that has lost an arrival never reports a clean drain.
THEOREM LossReportedHolds == Spec => []LossReported
    <1>1. IInv => LossReported
        BY DEF IInv
    <1>. QED BY <1>1, InvariantHolds, PTL

\* An arrival is accepted at most once, over all schedules and drains.
THEOREM AcceptedOnceHolds == Spec => AcceptedOnce
    <1>1. IInv /\ [Next]_vars =>
            [\A j \in Jobs : count'[j].accepted > count[j].accepted =>
                \E e \in seen' \ seen : Arrival(e) \notin SeenArrivals]_vars
        BY StepAcceptedOnce DEF IInv, Waits
    <1>. QED BY <1>1, InvariantHolds, PTL DEF Spec, AcceptedOnce

\* A signal that one schedule carried undisturbed to the end of its drain has
\* reached every cell within its hop limit, each over a shortest path.
THEOREM WaveCompletes == Spec => []WaveComplete
    <1>1. Init => WaveInv
        <2>1. ASSUME Init PROVE WaveInv
            <3>1. IInv
                BY <2>1, InitIInv
            <3>2. Owned /\ Finished /\ Waves
                BY <2>1 DEF Init, Owned, Finished, Waves, Calm
            <3>. QED BY <3>1, <3>2 DEF WaveInv
        <2>. QED BY <2>1
    <1>2. WaveInv /\ [Next]_vars => WaveInv'
        <2>1. ASSUME WaveInv, [Next]_vars PROVE WaveInv'
            <3>1. IInv'
                BY <2>1, StepIInv DEF WaveInv
            <3>2. Owned' /\ Finished'
                BY <2>1, StepOwned, StepFinished DEF WaveInv, IInv
            <3>3. Waves'
                BY <2>1, StepWaves DEF WaveInv
            <3>. QED BY <3>1, <3>2, <3>3 DEF WaveInv
        <2>. QED BY <2>1
    <1>3. WaveInv => WaveComplete
        <2>. SUFFICES ASSUME WaveInv, NEW j \in Jobs, status[j] = "DRAINED", draining = {},
                             count[j].deferred = 0,
                             \A k \in Jobs \ {j} : job[k].cause # job[j].cause,
                             NEW c \in Cells \ {Origin[job[j].cause]},
                             Distance(c, Origin[job[j].cause]) <= HopLimit
                      PROVE  \E e \in seen : /\ e.cause = job[j].cause /\ e.recipient = c
                                             /\ e.depth = Distance(c, Origin[job[j].cause])
            BY DEF WaveComplete
        <2>1. TypeOK /\ Waits /\ LossReported
            BY DEF WaveInv, IInv
        <2>2. job[j] # NoJob
            BY <2>1 DEF Waits, Unstarted
        <2>3. \A l \in lost : l.job # j
            BY <2>1 DEF LossReported
        <2>4. Calm(j)
            BY <2>2, <2>3 DEF Calm
        <2>5. Wave(j) /\ queue[j] = {}
            BY <2>4 DEF WaveInv, Waves, Finished
        <2>. QED BY <2>1, <2>4, <2>5, WaveReaches DEF Far
    <1>. QED BY <1>1, <1>2, <1>3, PTL DEF Spec

=============================================================================
