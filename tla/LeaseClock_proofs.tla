-------------------------- MODULE LeaseClock_proofs --------------------------
(***************************************************************************)
(* Proofs about the logical clock of the writer lease.                     *)
(***************************************************************************)
EXTENDS LeaseClock, WellFoundedInduction, FiniteSetTheorems, TLAPS

-----------------------------------------------------------------------------
(***************************************************************************)
(* Least and greatest numbers, and the latest observation of a chain.      *)
(***************************************************************************)
LEMMA LeastElement ==
    ASSUME NEW T \in SUBSET Nat, T # {}
    PROVE  \E m \in T : \A k \in T : m <= k
    <1> DEFINE R == {ss \in Nat \X Nat : ss[1] < ss[2]}
    <1>1. IsWellFoundedOn(R, Nat)
        BY NatLessThanWellFounded DEF OpToRel
    <1>2. PICK m \in T : \A k \in T : ~ (<<k, m>> \in R)
        <2> HIDE DEF R
        <2>1. QED BY <1>1, WFMin
    <1>3. \A k \in T : ~(k < m)
        BY <1>2
    <1>4. QED BY <1>3

LEMMA GreatestElement ==
    ASSUME NEW N \in Nat, NEW T \in SUBSET (0..N), T # {}
    PROVE  \E m \in T : \A k \in T : k <= m
    <1> DEFINE U == {n \in Nat : n <= N /\ N - n \in T}
    <1>1. PICK t \in T : TRUE
        OBVIOUS
    <1>2. N - t \in U
        BY <1>1
    <1>3. PICK u \in U : \A n \in U : u <= n
        <2> HIDE DEF U
        <2>1. U \in SUBSET Nat /\ U # {}
            BY <1>2 DEF U
        <2>2. QED BY <2>1, LeastElement
    <1>4. \A k \in T : N - k \in U
        OBVIOUS
    <1>5. \A k \in T : k <= N - u
        BY <1>3, <1>4
    <1>6. QED BY <1>3, <1>5

LEMMA MinIsLeast ==
    ASSUME NEW S \in SUBSET Nat, S # {}
    PROVE  Min(S) \in S /\ \A n \in S : Min(S) <= n
    <1>1. \E m \in S : \A n \in S : m <= n
        BY LeastElement
    <1>2. QED BY <1>1 DEF Min

LEMMA MaxOfTwo ==
    ASSUME NEW m \in Nat, NEW n \in Nat
    PROVE  Max({m, n}) = IF m <= n THEN n ELSE m
    <1>1. \E x \in {m, n} : \A y \in {m, n} : x >= y
        OBVIOUS
    <1>2. Max({m, n}) \in {m, n} /\ \A y \in {m, n} : Max({m, n}) >= y
        BY <1>1 DEF Max
    <1>3. QED BY <1>2

LEMMA Constants ==
    /\ MaxWall \in Nat /\ MaxSequence \in Nat /\ MaxGeneration \in Nat /\ Tolerance \in Nat
    /\ Times = 0..(MaxWall + MaxSequence)
    /\ NoObservation \in Observation /\ NoArchive \in Archive
    BY ClockAssumption DEF Times, Observation, Archive, NoObservation, NoArchive

LEMMA LatestOfSome ==
    ASSUME NEW a, NEW obs \in SUBSET Observation, obs # {}
    PROVE  Latest(a, obs) \in obs /\ \A o \in obs : o.sequence <= Latest(a, obs).sequence
    <1> DEFINE T == {o.sequence : o \in obs}
    <1>1. \A o \in obs : o.sequence \in 0..MaxSequence
        BY DEF Observation
    <1>2. T \in SUBSET (0..MaxSequence) /\ T # {}
        BY <1>1
    <1>3. PICK m \in T : \A k \in T : k <= m
        <2> HIDE DEF T
        <2>1. QED BY <1>2, Constants, GreatestElement
    <1>4. \E o \in obs : \A p \in obs : p.sequence <= o.sequence
        BY <1>3
    <1>5. QED BY <1>4 DEF Latest

LEMMA LatestOfNone ==
    ASSUME NEW a \in Archive
    PROVE  /\ Latest(a, {}) \in Observation
           /\ Latest(a, {}).sequence = a.through /\ Latest(a, {}).wall = a.wall
           /\ Latest(a, {}).logical = a.logical
    BY Constants DEF Latest, NoObservation, Archive, Observation

-----------------------------------------------------------------------------
(***************************************************************************)
(* Steps that change the memory of one process.                            *)
(***************************************************************************)
LEMMA MemoryStep ==
    ASSUME IInv, NEW w \in Writers, UNCHANGED <<files, latest, top, stale, reborn>>,
           crashed' \in BOOLEAN,
           NEW step \in Steps \ {"write"}, pc' = [pc EXCEPT ![w] = step],
           wall' \in [Writers -> 0..MaxWall], listed' \in [Writers -> SUBSET Sequences],
           NEW b \in Archive, base' = [base EXCEPT ![w] = b],
           NEW c \in SUBSET Observation, chain' = [chain EXCEPT ![w] = c],
           NEW n \in Observation, next' = [next EXCEPT ![w] = n],
           n.sealed, InTime(n.logical, n.sequence), InTime(b.logical, b.through),
           \A o \in c : InTime(o.logical, o.sequence),
           step = "create" => n.sequence # 0,
           step \in {"archiveCreate", "archiveWrite"} => b.generation < MaxGeneration,
           ~stale => /\ Known(b.through, b.logical, b.wall)
                     /\ \A o \in c : Known(o.sequence, o.logical, o.wall)
                     /\ step = "create" => Follows(n)
    PROVE  IInv'
    <1> TypeOK /\ BoundsInv /\ (~stale => ChronologyInv)
        BY DEF IInv
    <1>1. TypeOK'
        BY DEF TypeOK, files
    <1>2. /\ pc'[w] = step /\ base'[w] = b /\ chain'[w] = c /\ next'[w] = n
          /\ \A v \in Writers \ {w} : /\ pc'[v] = pc[v] /\ base'[v] = base[v]
                                      /\ chain'[v] = chain[v] /\ next'[v] = next[v]
        BY DEF TypeOK
    <1>3. BoundsInv'
        <2>1. \A v \in Writers : Bounded(v)'
            BY <1>2 DEF BoundsInv, Bounded, InTime
        <2>2. QED BY <2>1 DEF BoundsInv, files, InTime
    <1>4. ASSUME ~stale PROVE ChronologyInv'
        <2>1. \A v \in Writers : Informed(v)'
            BY <1>2, <1>4 DEF ChronologyInv, Informed, Known, Follows
        <2>2. SoleWriter'
            BY <1>2, <1>4 DEF ChronologyInv, SoleWriter
        <2>3. FilesKnown'
            BY <1>4 DEF ChronologyInv, FilesKnown, Known, files
        <2>4. QED BY <2>1, <2>2, <2>3 DEF ChronologyInv
    <1>5. QED BY <1>1, <1>3, <1>4 DEF IInv

\* Nothing is known of nothing.
LEMMA NothingRead ==
    ASSUME IInv
    PROVE  /\ NoObservation.sealed /\ InTime(NoObservation.logical, NoObservation.sequence)
           /\ InTime(NoArchive.logical, NoArchive.through)
           /\ ~stale => Known(NoArchive.through, NoArchive.logical, NoArchive.wall)
    BY Constants
    DEF InTime, NoObservation, NoArchive, IInv, ChronologyInv, FilesKnown, Known, TypeOK, Observation

LEMMA FinishStep ==
    ASSUME IInv, NEW w \in Writers, Finish(w), UNCHANGED <<files, latest, top, stale, reborn>>,
           crashed' \in BOOLEAN
    PROVE  IInv'
    <1>1. /\ wall' \in [Writers -> 0..MaxWall] /\ listed' \in [Writers -> SUBSET Sequences]
          /\ NoArchive \in Archive /\ NoObservation \in Observation /\ {} \in SUBSET Observation
          /\ "idle" \in Steps \ {"write"}
        BY Constants DEF IInv, TypeOK, Finish, Steps
    <1>2. /\ pc' = [pc EXCEPT ![w] = "idle"] /\ base' = [base EXCEPT ![w] = NoArchive]
          /\ chain' = [chain EXCEPT ![w] = {}] /\ next' = [next EXCEPT ![w] = NoObservation]
        BY DEF Finish
    <1>3. QED BY <1>1, <1>2, NothingRead, MemoryStep

LEMMA RefuseStep ==
    ASSUME IInv, NEW w \in Writers, Refuse(w)
    PROVE  IInv'
    BY FinishStep DEF Refuse, history, IInv, TypeOK

\* What a process has in its memory.
LEMMA Remembered ==
    ASSUME IInv, NEW w \in Writers
    PROVE  /\ pc[w] \in Steps /\ pc = [pc EXCEPT ![w] = pc[w]]
           /\ base[w] \in Archive /\ base = [base EXCEPT ![w] = base[w]]
           /\ chain[w] \in SUBSET Observation /\ chain = [chain EXCEPT ![w] = chain[w]]
           /\ next[w] \in Observation /\ next = [next EXCEPT ![w] = next[w]]
           /\ next[w].sealed /\ InTime(next[w].logical, next[w].sequence)
           /\ InTime(base[w].logical, base[w].through)
           /\ \A o \in chain[w] : InTime(o.logical, o.sequence)
           /\ ~stale => /\ Known(base[w].through, base[w].logical, base[w].wall)
                        /\ \A o \in chain[w] : Known(o.sequence, o.logical, o.wall)
    BY DEF IInv, TypeOK, BoundsInv, Bounded, ChronologyInv, Informed

LEMMA NewestIsThere ==
    ASSUME NEW as \in SUBSET Archive, as # {}
    PROVE  Newest(as) \in as /\ \A a \in as : a.generation <= Newest(as).generation
    <1> DEFINE T == {a.generation : a \in as}
    <1>1. \A a \in as : a.generation \in 0..MaxGeneration
        BY DEF Archive
    <1>2. T \in SUBSET (0..MaxGeneration) /\ T # {}
        BY <1>1
    <1>3. PICK m \in T : \A k \in T : k <= m
        <2> HIDE DEF T
        <2>1. QED BY <1>2, Constants, GreatestElement
    <1>4. \E a \in as : \A b \in as : b.generation <= a.generation
        BY <1>3
    <1>5. QED BY <1>4 DEF Newest

\* An archive is listed or read.
LEMMA BaseStep ==
    ASSUME IInv, NEW w \in Writers,
           NEW at \in {"observeArchive", "archiveArchive", "observeList", "archiveList"},
           pc' = [pc EXCEPT ![w] = at], NEW b \in archives \cup {NoArchive},
           base' = [base EXCEPT ![w] = b],
           UNCHANGED <<files, wall, listed, chain, next, history>>
    PROVE  IInv'
    <1>1. /\ b \in Archive /\ InTime(b.logical, b.through)
          /\ ~stale => Known(b.through, b.logical, b.wall)
        BY Constants, NothingRead DEF IInv, TypeOK, BoundsInv, ChronologyInv, FilesKnown
    <1>2. at \in Steps \ {"write"} /\ at \notin {"create", "archiveCreate", "archiveWrite"}
        BY DEF Steps, ObserveSteps, ArchiveSteps
    <1>3. wall' \in [Writers -> 0..MaxWall] /\ listed' \in [Writers -> SUBSET Sequences]
          /\ crashed' \in BOOLEAN /\ UNCHANGED <<files, latest, top, stale, reborn>>
        BY DEF IInv, TypeOK, history
    <1>4. chain' = [chain EXCEPT ![w] = chain[w]] /\ next' = [next EXCEPT ![w] = next[w]]
        BY Remembered
    <1>5. QED BY <1>1, <1>2, <1>3, <1>4, Remembered, MemoryStep

LEMMA ListArchivesStep ==
    ASSUME IInv, NEW w \in Writers, NEW from,
           NEW readIt \in {"observeArchive", "archiveArchive"},
           NEW skip \in {"observeList", "archiveList"},
           ListArchives(w, from, readIt, skip)
    PROVE  IInv'
    <1>1. archives \in SUBSET Archive
        BY DEF IInv, TypeOK
    <1>2. /\ pc' = [pc EXCEPT ![w] = IF archives = {} THEN skip ELSE readIt]
          /\ base' = [base EXCEPT ![w] = IF archives = {} THEN NoArchive ELSE Newest(archives)]
          /\ UNCHANGED <<files, wall, listed, chain, next, history>>
        BY DEF ListArchives, Step
    <1>3. CASE archives = {}
        <2>1. pc' = [pc EXCEPT ![w] = skip] /\ base' = [base EXCEPT ![w] = NoArchive]
            BY <1>2, <1>3
        <2>2. QED BY <1>2, <2>1, BaseStep
    <1>4. CASE archives # {}
        <2>1. /\ pc' = [pc EXCEPT ![w] = readIt] /\ base' = [base EXCEPT ![w] = Newest(archives)]
              /\ Newest(archives) \in archives
            BY <1>1, <1>2, <1>4, NewestIsThere
        <2>2. QED BY <1>2, <2>1, BaseStep
    <1>5. QED BY <1>3, <1>4

LEMMA ReadArchiveStep ==
    ASSUME IInv, NEW w \in Writers, NEW from, NEW to \in {"observeList", "archiveList"},
           ReadArchive(w, from, to)
    PROVE  IInv'
    <1>1. CASE Refuse(w)
        BY <1>1, RefuseStep
    <1>2. CASE ~Refuse(w)
        <2>1. PICK b \in archives : base' = [base EXCEPT ![w] = b]
            BY <1>2 DEF ReadArchive
        <2>2. pc' = [pc EXCEPT ![w] = to] /\ UNCHANGED <<files, wall, listed, chain, next, history>>
            BY <1>2 DEF ReadArchive
        <2>3. QED BY <2>1, <2>2, BaseStep
    <1>3. QED BY <1>1, <1>2

LEMMA BeginStep ==
    ASSUME IInv, NEW w \in Writers, BeginObserve(w) \/ BeginArchive(w)
    PROVE  IInv'
    <1>1. PICK at \in {"observeArchives", "archiveArchives"} : pc' = [pc EXCEPT ![w] = at]
        BY DEF BeginObserve, BeginArchive, Step
    <1>2. /\ UNCHANGED <<files, base, listed, chain, next, latest, top, stale, reborn, crashed>>
          /\ wall' \in [Writers -> 0..MaxWall]
        BY Constants DEF BeginObserve, BeginArchive, view, history, IInv, TypeOK
    <1>3. at \in Steps \ {"write"} /\ at \notin {"create", "archiveCreate", "archiveWrite"}
        BY DEF Steps, ObserveSteps, ArchiveSteps
    <1>4. listed' \in [Writers -> SUBSET Sequences] /\ crashed' \in BOOLEAN
        BY <1>2 DEF IInv, TypeOK
    <1>5. /\ base' = [base EXCEPT ![w] = base[w]] /\ chain' = [chain EXCEPT ![w] = chain[w]]
          /\ next' = [next EXCEPT ![w] = next[w]]
        BY <1>2, Remembered
    <1>6. QED BY <1>1, <1>2, <1>3, <1>4, <1>5, Remembered, MemoryStep

LEMMA ObservationsOnDisk ==
    ASSUME IInv
    PROVE  /\ observations \in SUBSET Observation
           /\ \A obs \in SUBSET observations : Numbers(obs) \in SUBSET Sequences
           /\ \A o \in observations : o.sealed /\ ~stale => Known(o.sequence, o.logical, o.wall)
    <1>1. \A o \in observations : o \in Observation /\ o.sequence \in 0..MaxSequence /\ o.sequence # 0
        BY DEF IInv, TypeOK, BoundsInv, Observation
    <1>2. \A o \in observations : o.sequence \in Sequences
        BY <1>1, Constants DEF Sequences
    <1>3. QED BY <1>1, <1>2 DEF Numbers, IInv, ChronologyInv, FilesKnown

\* Observations are listed or read.
LEMMA ChainStep ==
    ASSUME IInv, NEW w \in Writers, NEW at \in {"observeRead", "archiveRead"},
           pc' = [pc EXCEPT ![w] = at], listed' \in [Writers -> SUBSET Sequences],
           NEW c \in SUBSET Observation, chain' = [chain EXCEPT ![w] = c],
           c \ chain[w] \subseteq {o \in observations : o.sealed},
           UNCHANGED <<files, wall, base, next, history>>
    PROVE  IInv'
    <1>1. /\ \A o \in c : InTime(o.logical, o.sequence)
          /\ ~stale => \A o \in c : Known(o.sequence, o.logical, o.wall)
        BY Remembered, ObservationsOnDisk DEF IInv, BoundsInv
    <1>2. at \in Steps \ {"write"} /\ at \notin {"create", "archiveCreate", "archiveWrite"}
        BY DEF Steps, ObserveSteps, ArchiveSteps
    <1>3. wall' \in [Writers -> 0..MaxWall] /\ crashed' \in BOOLEAN
          /\ UNCHANGED <<files, latest, top, stale, reborn>>
        BY DEF IInv, TypeOK, history
    <1>4. base' = [base EXCEPT ![w] = base[w]] /\ next' = [next EXCEPT ![w] = next[w]]
        BY Remembered
    <1>5. QED BY <1>1, <1>2, <1>3, <1>4, Remembered, MemoryStep

LEMMA ListObservationsStep ==
    ASSUME IInv, NEW w \in Writers, NEW from, NEW to \in {"observeRead", "archiveRead"},
           ListObservations(w, from, to)
    PROVE  IInv'
    <1>1. /\ pc' = [pc EXCEPT ![w] = to] /\ chain' = [chain EXCEPT ![w] = {}]
          /\ UNCHANGED <<files, wall, base, next, history>>
        BY DEF ListObservations, Step
    <1>2. listed' \in [Writers -> SUBSET Sequences]
        BY ObservationsOnDisk DEF ListObservations, IInv, TypeOK
    <1>3. {} \in SUBSET Observation /\ {} \ chain[w] \subseteq {o \in observations : o.sealed}
        OBVIOUS
    <1>4. QED BY <1>1, <1>2, <1>3, ChainStep

LEMMA ReadObservationStep ==
    ASSUME IInv, NEW w \in Writers, NEW at \in {"observeRead", "archiveRead"},
           ReadObservation(w, at)
    PROVE  IInv'
    <1>1. CASE Refuse(w)
        BY <1>1, RefuseStep
    <1>2. CASE ~Refuse(w)
        <2>1. PICK n : n = Min(listed[w])
            OBVIOUS
        <2>2. PICK found : found = {o \in observations : o.sequence = n /\ o.sealed}
            OBVIOUS
        <2>3. /\ chain' = [chain EXCEPT ![w] = chain[w] \cup found]
              /\ listed' = [listed EXCEPT ![w] = listed[w] \ {n}]
              /\ UNCHANGED <<files, pc, wall, base, next, history>>
            BY <1>2, <2>1, <2>2 DEF ReadObservation
        <2>4. PICK c : c = chain[w] \cup found
            OBVIOUS
        <2>5. /\ chain' = [chain EXCEPT ![w] = c] /\ c \in SUBSET Observation
              /\ c \ chain[w] \subseteq {o \in observations : o.sealed}
            BY <2>2, <2>3, <2>4, Remembered, ObservationsOnDisk
        <2>6. pc[w] = at
            BY DEF ReadObservation
        <2>7. pc' = [pc EXCEPT ![w] = at]
            BY <2>3, <2>6, Remembered
        <2>8. listed' \in [Writers -> SUBSET Sequences]
            BY <2>3 DEF IInv, TypeOK
        <2>9. QED BY <2>3, <2>5, <2>7, <2>8, ChainStep
    <1>3. QED BY <1>1, <1>2

\* The latest record that a process has read.
LEMMA LatestRead ==
    ASSUME IInv, NEW w \in Writers, NEW c \in SUBSET chain[w]
    PROVE  LET before == Latest(base[w], c) IN
             /\ before \in Observation
             /\ InTime(before.logical, before.sequence)
             /\ ~stale => Known(before.sequence, before.logical, before.wall)
    <1>1. CASE c = {}
        BY <1>1, Remembered, LatestOfNone
    <1>2. CASE c # {}
        <2>1. Latest(base[w], c) \in chain[w]
            BY <1>2, Remembered, LatestOfSome
        <2>2. QED BY <2>1, Remembered
    <1>3. QED BY <1>1, <1>2

LEMMA DecideStep ==
    ASSUME IInv, NEW w \in Writers, Decide(w)
    PROVE  IInv'
    <1>1. CASE Refuse(w)
        BY <1>1, RefuseStep
    <1>2. CASE ~Refuse(w)
        <2>1. PICK before : before = Latest(base[w], chain[w])
            OBVIOUS
        <2>2. PICK n : n = [sequence |-> before.sequence + 1, sealed |-> TRUE,
                            wall |-> wall[w], logical |-> LogicalTime(w, before),
                            previous |-> before.logical]
            OBVIOUS
        <2>3. /\ before.sequence < MaxSequence /\ ~RolledBack(w, before)
              /\ next' = [next EXCEPT ![w] = n] /\ pc' = [pc EXCEPT ![w] = "create"]
              /\ chain' = [chain EXCEPT ![w] = {}] /\ base' = [base EXCEPT ![w] = NoArchive]
              /\ UNCHANGED <<files, wall, listed, history>>
            BY <1>2, <2>1, <2>2 DEF Decide
        <2>4. /\ before \in Observation /\ InTime(before.logical, before.sequence)
              /\ ~stale => Known(before.sequence, before.logical, before.wall)
            BY <2>1, LatestRead
        <2>5. /\ before.sequence \in 0..MaxSequence /\ before.logical \in Times
              /\ before.wall \in 0..MaxWall /\ wall[w] \in 0..MaxWall
            BY <2>4 DEF Observation, IInv, TypeOK
        <2>6. /\ LogicalTime(w, before) \in Nat /\ LogicalTime(w, before) >= before.logical + 1
              /\ InTime(LogicalTime(w, before), before.sequence + 1)
            BY <2>4, <2>5, Constants DEF LogicalTime, InTime
        <2>7. /\ n.sequence = before.sequence + 1 /\ n.logical = LogicalTime(w, before)
              /\ n.wall = wall[w] /\ n.sealed /\ n.sequence # 0 /\ InTime(n.logical, n.sequence)
            BY <2>2, <2>5, <2>6
        <2>8. n \in Observation
            <3>1. before.sequence + 1 \in 0..MaxSequence /\ LogicalTime(w, before) \in Times
                BY <2>3, <2>5, <2>6, Constants DEF InTime
            <3>2. QED BY <2>2, <2>5, <3>1 DEF Observation
        <2>9. ASSUME ~stale PROVE Follows(n)
            <3>1. latest.sequence \in Nat /\ latest.logical \in Nat /\ latest.wall \in Nat
                BY Constants DEF IInv, TypeOK, Observation
            <3>2. wall[w] >= before.wall - Tolerance
                BY <2>3, <2>5, Constants DEF RolledBack
            <3>3. Known(before.sequence, before.logical, before.wall)
                BY <2>4, <2>9
            <3>4. before.sequence \in Nat /\ before.logical \in Nat
                BY <2>5, Constants
            <3>5. QED BY <2>6, <2>7, <3>1, <3>2, <3>3, <3>4 DEF Follows, Known
        <2>10. wall' \in [Writers -> 0..MaxWall] /\ crashed' \in BOOLEAN
              /\ listed' \in [Writers -> SUBSET Sequences]
              /\ UNCHANGED <<files, latest, top, stale, reborn>>
            BY <2>3 DEF IInv, TypeOK, history
        <2>11. "create" \in Steps \ {"write"} /\ {} \in SUBSET Observation
            BY DEF Steps, ObserveSteps
        <2>12. QED
            BY <2>3, <2>7, <2>8, <2>9, <2>10, <2>11, Constants, NothingRead, MemoryStep
    <1>3. QED BY <1>1, <1>2

-----------------------------------------------------------------------------
(***************************************************************************)
(* Steps that create or complete an observation.                           *)
(***************************************************************************)
\* A sequence created for the first time is the one after the latest.
LEMMA NewSequence ==
    ASSUME IInv, NEW w \in Writers, Create(w), next[w].sequence \notin Numbers(observations),
           ~stale'
    PROVE  /\ ~stale /\ ChronologyInv /\ Follows(next[w])
           /\ top = latest.sequence /\ next[w].sequence = top + 1 /\ top' = next[w].sequence
           /\ \A o \in observations : o.sealed
           /\ \A v \in Writers : pc[v] # "write"
    <1> DEFINE m == next[w].sequence
    <1>1. /\ pc[w] = "create" /\ stale' = (stale \/ m <= top) /\ top' = Max({top, m})
        BY DEF Create
    <1>2. latest.sequence \in Nat /\ m \in Nat /\ top \in Nat
        BY Remembered, Constants DEF IInv, TypeOK, Observation
    <1>3. top' = IF top <= m THEN m ELSE top
        <2> HIDE DEF m
        <2>1. QED BY <1>1, <1>2, MaxOfTwo
    <1>4. ~stale /\ ~(m <= top)
        BY <1>1, Zenon
    <1>5. ChronologyInv
        BY <1>4 DEF IInv
    <1>6. Follows(next[w])
        BY <1>1, <1>5 DEF ChronologyInv, Informed
    <1>7. top = latest.sequence /\ m = top + 1 /\ top' = m
        BY <1>2, <1>3, <1>4, <1>5, <1>6 DEF Follows, ChronologyInv, FilesKnown
    <1>8. \A o \in observations : o.sealed
        BY <1>2, <1>5, <1>7 DEF ChronologyInv, FilesKnown
    <1>9. \A v \in Writers : pc[v] # "write"
        BY <1>2, <1>5, <1>7 DEF ChronologyInv, SoleWriter
    <1>10. QED BY <1>4, <1>5, <1>6, <1>7, <1>8, <1>9

LEMMA CreateStep ==
    ASSUME IInv, NEW w \in Writers, Create(w)
    PROVE  IInv'
    <1>1. CASE next[w].sequence \in Numbers(observations)
        <2>1. /\ pc' = [pc EXCEPT ![w] = "observeArchives"]
              /\ next' = [next EXCEPT ![w] = NoObservation]
              /\ UNCHANGED <<files, wall, base, listed, chain, history>>
            BY <1>1 DEF Create
        <2>2. base' = [base EXCEPT ![w] = base[w]] /\ chain' = [chain EXCEPT ![w] = chain[w]]
            BY <2>1, Remembered
        <2>3. /\ wall' \in [Writers -> 0..MaxWall] /\ crashed' \in BOOLEAN
              /\ listed' \in [Writers -> SUBSET Sequences]
              /\ UNCHANGED <<files, latest, top, stale, reborn>>
            BY <2>1 DEF IInv, TypeOK, history
        <2>4. "observeArchives" \in Steps \ {"write"}
            BY DEF Steps, ObserveSteps
        <2>5. PICK step : step = "observeArchives"
            OBVIOUS
        <2>6. /\ step \in Steps \ {"write"} /\ pc' = [pc EXCEPT ![w] = step]
              /\ step \notin {"create", "archiveCreate", "archiveWrite"}
            BY <2>1, <2>4, <2>5
        <2>7. QED BY <2>1, <2>2, <2>3, <2>6, Constants, NothingRead, Remembered, MemoryStep
    <1>2. CASE next[w].sequence \notin Numbers(observations)
        <2> DEFINE m == next[w].sequence
        <2>1. /\ pc[w] = "create" /\ pc' = [pc EXCEPT ![w] = "write"]
              /\ observations' = observations \cup {Unwritten(w)}
              /\ stale' = (stale \/ m <= top) /\ top' = Max({top, m})
              /\ UNCHANGED <<archives, wall, base, listed, chain, next, latest, reborn, crashed>>
            BY <1>2 DEF Create, view
        <2>2. /\ TypeOK /\ BoundsInv /\ next[w] \in Observation /\ m \in 0..MaxSequence /\ m # 0
              /\ top \in 0..MaxSequence
            BY <2>1, Remembered DEF IInv, TypeOK, BoundsInv, Bounded, Observation
        <2>3. top' = IF top <= m THEN m ELSE top
            <3>1. top \in Nat /\ m \in Nat
                BY <2>2, Constants
            <3> HIDE DEF m
            <3>2. QED BY <2>1, <3>1, MaxOfTwo
        <2>4. PICK u : u = Unwritten(w)
            OBVIOUS
        <2>5. /\ u \in Observation /\ u.sequence = m /\ ~u.sealed /\ u.logical = 0
            BY <2>2, <2>4, Constants DEF Unwritten, Observation, NoObservation
        <2>6. (stale \/ m <= top) \in BOOLEAN
            OBVIOUS
        <2>7. stale' \in BOOLEAN
            BY <2>1, <2>6, Zenon
        <2>8. TypeOK'
            BY <2>1, <2>2, <2>3, <2>4, <2>5, <2>7 DEF TypeOK, Steps, ObserveSteps
        <2>9. pc'[w] = "write" /\ \A v \in Writers \ {w} : pc'[v] = pc[v]
            BY <2>1, <2>2 DEF TypeOK
        <2>10. BoundsInv'
            <3>1. InTime(u.logical, u.sequence)
                BY <2>2, <2>5, Constants DEF InTime
            <3>2. \A v \in Writers : Bounded(v)'
                BY <2>1, <2>2, <2>9 DEF BoundsInv, Bounded, InTime
            <3>3. QED BY <2>1, <2>2, <2>4, <2>5, <3>1, <3>2 DEF BoundsInv, InTime
        <2>11. ASSUME ~stale' PROVE ChronologyInv'
            <3>1. /\ ChronologyInv /\ Follows(next[w])
                  /\ top = latest.sequence /\ m = top + 1 /\ top' = m
                  /\ \A o \in observations : o.sealed
                  /\ \A v \in Writers : pc[v] # "write"
                BY <1>2, <2>11, NewSequence
            <3>2. latest.sequence \in Nat /\ m \in Nat /\ top \in Nat
                BY <2>2, Constants DEF TypeOK, Observation
            <3>3. \A v \in Writers : Informed(v)'
                BY <2>1, <2>9, <3>1 DEF ChronologyInv, Informed, Known, Follows
            <3>4. SoleWriter'
                BY <2>1, <2>9, <3>1 DEF SoleWriter
            <3>5. FilesKnown'
                <4>1. u = [NoObservation EXCEPT !.sequence = top', !.sealed = FALSE]
                    BY <2>4, <3>1 DEF Unwritten
                <4>2. QED
                    BY <2>1, <2>4, <2>5, <3>1, <3>2, <4>1 DEF ChronologyInv, FilesKnown, Known
            <3>6. QED BY <3>3, <3>4, <3>5 DEF ChronologyInv
        <2>12. QED BY <2>8, <2>10, <2>11 DEF IInv
    <1>3. QED BY <1>1, <1>2

LEMMA WriteStep ==
    ASSUME IInv, NEW w \in Writers, Write(w)
    PROVE  IInv'
    <1> DEFINE n == next[w]
    <1>1. /\ pc[w] = "write" /\ pc' = [pc EXCEPT ![w] = "return"] /\ latest' = n
          /\ observations' = {IF o = Unwritten(w) THEN n ELSE o : o \in observations}
          /\ UNCHANGED <<archives, wall, base, listed, chain, next, top, stale, reborn, crashed>>
        BY DEF Write, Step, view
    <1>2. /\ TypeOK /\ BoundsInv /\ n \in Observation /\ n.sequence # 0
          /\ n.sealed /\ InTime(n.logical, n.sequence)
        BY <1>1, Remembered DEF IInv, BoundsInv, Bounded
    <1>3. TypeOK'
        BY <1>1, <1>2 DEF TypeOK, Steps, ObserveSteps
    <1>4. pc'[w] = "return" /\ \A v \in Writers \ {w} : pc'[v] = pc[v]
        BY <1>1, <1>2 DEF TypeOK
    <1>5. BoundsInv'
        <2>1. \A v \in Writers : Bounded(v)'
            BY <1>1, <1>2, <1>4 DEF BoundsInv, Bounded, InTime
        <2>2. QED BY <1>1, <1>2, <2>1 DEF BoundsInv, InTime
    <1>6. ASSUME ~stale PROVE ChronologyInv'
        <2>1. ChronologyInv
            BY <1>6 DEF IInv
        <2>2. /\ n.sequence = top /\ top = latest.sequence + 1
              /\ \A v \in Writers : pc[v] = "write" => v = w
            BY <1>1, <2>1 DEF ChronologyInv, SoleWriter
        <2>3. latest.sequence \in Nat
            BY <1>2, Constants DEF TypeOK, Observation
        <2>4. \A s \in Nat : \A t, wt :
                  Known(s, t, wt) => s <= latest'.sequence /\ s # latest'.sequence
            BY <1>1, <2>2, <2>3 DEF Known
        <2>5. \A v \in Writers : Informed(v)'
            <3>1. ASSUME NEW v \in Writers PROVE Informed(v)'
                <4>1. base[v].through \in Nat /\ \A o \in chain[v] : o.sequence \in Nat
                    BY Remembered, Constants DEF Archive, Observation
                <4>2. next[v].sequence \in Nat
                    BY Remembered, Constants DEF Observation
                <4>3. pc'[v] \in {"create", "write"} => pc[v] = "create" /\ v # w
                    BY <1>1, <1>4, <2>2
                <4>4. Follows(next[v]) => Follows(next[v])'
                    BY <1>1, <2>2, <2>3, <4>2 DEF Follows
                <4>5. Informed(v)
                    BY <2>1 DEF ChronologyInv
                <4>6. /\ base'[v] = base[v] /\ chain'[v] = chain[v] /\ next'[v] = next[v]
                      /\ latest' = n
                    BY <1>1
                <4>7. QED BY <2>4, <4>1, <4>3, <4>4, <4>5, <4>6 DEF Informed, Known
            <3>2. QED BY <3>1
        <2>6. SoleWriter'
            BY <1>1, <1>4, <2>2 DEF SoleWriter
        <2>7. FilesKnown'
            <3>1. \A o \in observations' : o.sealed /\ Known(o.sequence, o.logical, o.wall)'
                <4>1. \A o \in observations : o.sequence \in Nat
                    BY <1>2, Constants DEF TypeOK, Observation
                <4>2. \A o \in observations' \ {n} :
                         o.sealed /\ Known(o.sequence, o.logical, o.wall)'
                    <5>1. \A o \in observations' \ {n} : o \in observations /\ o # Unwritten(w)
                        BY <1>1
                    <5>2. Unwritten(w) = [NoObservation EXCEPT !.sequence = top, !.sealed = FALSE]
                        BY <2>2 DEF Unwritten
                    <5>3. \A o \in observations' \ {n} :
                             o.sealed /\ Known(o.sequence, o.logical, o.wall)
                        BY <2>1, <5>1, <5>2 DEF ChronologyInv, FilesKnown
                    <5>4. QED BY <1>1, <2>2, <2>4, <4>1, <5>1, <5>3 DEF Known
                <4>3. n.sequence \in Nat
                    BY <2>2, <2>3
                <4>4. QED BY <1>1, <1>2, <4>2, <4>3 DEF Known
            <3>2. \A a \in archives' : Known(a.through, a.logical, a.wall)'
                <4>1. \A a \in archives : a.through \in Nat
                    BY <1>2, Constants DEF TypeOK, Archive
                <4>2. QED BY <1>1, <2>1, <2>4, <4>1 DEF ChronologyInv, FilesKnown, Known
            <3>3. QED BY <1>1, <1>2, <2>2, <2>3, <3>1, <3>2 DEF FilesKnown, Known
        <2>8. QED BY <2>5, <2>6, <2>7 DEF ChronologyInv
    <1>7. QED BY <1>1, <1>3, <1>5, <1>6 DEF IInv

-----------------------------------------------------------------------------
(***************************************************************************)
(* Steps of archiving.                                                     *)
(***************************************************************************)
LEMMA DecideArchiveStep ==
    ASSUME IInv, NEW w \in Writers, DecideArchive(w)
    PROVE  IInv'
    <1>1. CASE Refuse(w)
        BY <1>1, RefuseStep
    <1>2. CASE ~Refuse(w)
        <2>1. PICK c : c = Archived(w)
            OBVIOUS
        <2>2. PICK step : step = "archiveCreate"
            OBVIOUS
        <2>3. /\ base[w].generation < MaxGeneration
              /\ chain' = [chain EXCEPT ![w] = c] /\ pc' = [pc EXCEPT ![w] = step]
              /\ UNCHANGED <<files, wall, base, listed, next, history>>
            BY <1>2, <2>1, <2>2 DEF DecideArchive
        <2>4. c \in SUBSET chain[w]
            BY <2>1 DEF Archived
        <2>5. step \in Steps \ {"write"} /\ step # "create"
            BY <2>2 DEF Steps, ArchiveSteps
        <2>6. /\ wall' \in [Writers -> 0..MaxWall] /\ crashed' \in BOOLEAN
              /\ listed' \in [Writers -> SUBSET Sequences]
              /\ UNCHANGED <<files, latest, top, stale, reborn>>
            BY <2>3 DEF IInv, TypeOK, history
        <2>7. base' = [base EXCEPT ![w] = base[w]] /\ next' = [next EXCEPT ![w] = next[w]]
            BY <2>3, Remembered
        <2>8. /\ c \in SUBSET Observation /\ \A o \in c : InTime(o.logical, o.sequence)
              /\ ~stale => \A o \in c : Known(o.sequence, o.logical, o.wall)
            BY <2>4, Remembered
        <2>9. /\ base[w] \in Archive /\ InTime(base[w].logical, base[w].through)
              /\ next[w] \in Observation /\ next[w].sealed
              /\ InTime(next[w].logical, next[w].sequence)
              /\ ~stale => Known(base[w].through, base[w].logical, base[w].wall)
            BY Remembered
        <2>10. QED BY <2>3, <2>5, <2>6, <2>7, <2>8, <2>9, MemoryStep
    <1>3. QED BY <1>1, <1>2

\* The files change under a process that remembers what it did before.
LEMMA FilesStep ==
    ASSUME IInv, NEW w \in Writers, UNCHANGED <<view, latest, top, stale, crashed>>,
           reborn' \in BOOLEAN,
           observations' \in SUBSET observations,
           NEW new \in Archive, archives' \subseteq archives \cup {new},
           InTime(new.logical, new.through),
           ~stale => Known(new.through, new.logical, new.wall),
           NEW step \in Steps \ {"create", "write", "archiveCreate"},
           pc' = [pc EXCEPT ![w] = step],
           step = "archiveWrite" => base[w].generation < MaxGeneration
    PROVE  IInv'
    <1>1. /\ TypeOK /\ BoundsInv /\ UNCHANGED <<latest, top, stale, crashed>>
          /\ UNCHANGED <<wall, base, listed, chain, next>>
        BY DEF IInv, view, history
    <1>2. TypeOK'
        BY <1>1 DEF TypeOK
    <1>3. pc'[w] = step /\ \A v \in Writers \ {w} : pc'[v] = pc[v]
        BY <1>1 DEF TypeOK
    <1>4. BoundsInv'
        <2>1. \A v \in Writers : Bounded(v)'
            BY <1>1, <1>3 DEF BoundsInv, Bounded, InTime
        <2>2. QED BY <1>1, <2>1 DEF BoundsInv, InTime
    <1>5. ASSUME ~stale PROVE ChronologyInv'
        <2>1. ChronologyInv
            BY <1>5 DEF IInv
        <2>2. \A v \in Writers : Informed(v)'
            BY <1>1, <1>3, <2>1 DEF ChronologyInv, Informed, Known, Follows
        <2>3. SoleWriter'
            BY <1>1, <1>3, <2>1 DEF ChronologyInv, SoleWriter
        <2>4. FilesKnown'
            BY <1>1, <1>5, <2>1 DEF ChronologyInv, FilesKnown, Known
        <2>5. QED BY <2>2, <2>3, <2>4 DEF ChronologyInv
    <1>6. QED BY <1>1, <1>2, <1>4, <1>5 DEF IInv

LEMMA CreateArchiveStep ==
    ASSUME IInv, NEW w \in Writers, CreateArchive(w)
    PROVE  IInv'
    <1>1. CASE Refuse(w)
        BY <1>1, RefuseStep
    <1>2. CASE ~Refuse(w)
        <2>1. PICK new : new = UnwrittenArchive(w)
            OBVIOUS
        <2>2. /\ pc[w] = "archiveCreate" /\ archives' = archives \cup {new}
              /\ pc' = [pc EXCEPT ![w] = "archiveWrite"]
              /\ UNCHANGED <<observations, view, latest, top, stale, crashed>>
            BY <1>2, <2>1 DEF CreateArchive
        <2>3. base[w].generation < MaxGeneration /\ base[w].generation \in 0..MaxGeneration
            BY <2>2, Remembered DEF IInv, BoundsInv, Bounded, Archive
        <2>4. base[w].generation + 1 \in 0..MaxGeneration
            BY <2>3, Constants
        <2>5. /\ new \in Archive
              /\ new.through = NoArchive.through /\ new.logical = NoArchive.logical
              /\ new.wall = NoArchive.wall
            BY <2>1, <2>4, Constants DEF UnwrittenArchive, Archive, NoArchive
        <2>6. /\ InTime(new.logical, new.through)
              /\ ~stale => Known(new.through, new.logical, new.wall)
            BY <2>5, NothingRead
        <2>7. PICK step : step = "archiveWrite"
            OBVIOUS
        <2>8. step \in Steps \ {"create", "write", "archiveCreate"} /\ pc' = [pc EXCEPT ![w] = step]
            BY <2>2, <2>7 DEF Steps, ArchiveSteps
        <2>9. reborn' \in BOOLEAN
            BY <1>2, Zenon DEF CreateArchive
        <2>10. QED BY <2>2, <2>3, <2>5, <2>6, <2>8, <2>9, FilesStep
    <1>3. QED BY <1>1, <1>2

LEMMA WriteArchiveStep ==
    ASSUME IInv, NEW w \in Writers, WriteArchive(w)
    PROVE  IInv'
    <1>1. PICK new : new = NextArchive(w)
        OBVIOUS
    <1>2. PICK last : last = Latest(base[w], chain[w])
        OBVIOUS
    <1>3. /\ pc[w] = "archiveWrite" /\ pc' = [pc EXCEPT ![w] = "delete"]
          /\ archives' \subseteq archives \cup {new}
          /\ UNCHANGED <<observations, view, history>>
        BY <1>1 DEF WriteArchive, Step
    <1>4. /\ last \in Observation /\ InTime(last.logical, last.sequence)
          /\ ~stale => Known(last.sequence, last.logical, last.wall)
        BY <1>2, Remembered, LatestRead
    <1>5. base[w].generation < MaxGeneration /\ base[w].generation \in 0..MaxGeneration
        BY <1>3, Remembered DEF IInv, BoundsInv, Bounded, Archive
    <1>6. base[w].generation + 1 \in 0..MaxGeneration
        BY <1>5, Constants
    <1>7. new = [generation |-> base[w].generation + 1, sealed |-> TRUE,
                 through |-> last.sequence, wall |-> last.wall, logical |-> last.logical]
        BY <1>1, <1>2 DEF NextArchive
    <1>8. /\ new \in Archive /\ new.through = last.sequence /\ new.logical = last.logical
          /\ new.wall = last.wall
        BY <1>4, <1>6, <1>7 DEF Archive, Observation
    <1>9. /\ InTime(new.logical, new.through)
          /\ ~stale => Known(new.through, new.logical, new.wall)
        BY <1>4, <1>8
    <1>10. PICK step : step = "delete"
        OBVIOUS
    <1>11. /\ step \in Steps \ {"create", "write", "archiveCreate"} /\ step # "archiveWrite"
           /\ pc' = [pc EXCEPT ![w] = step]
        BY <1>3, <1>10 DEF Steps, ArchiveSteps
    <1>12. QED BY <1>3, <1>8, <1>9, <1>11, FilesStep DEF history, IInv, TypeOK

LEMMA DeleteStep ==
    ASSUME IInv, NEW w \in Writers, Delete(w)
    PROVE  IInv'
    <1>1. pc[w] = "delete" /\ pc' \in {pc, [pc EXCEPT ![w] = "prune"]}
        BY DEF Delete
    <1>2. PICK step \in {"delete", "prune"} : pc' = [pc EXCEPT ![w] = step]
        BY <1>1, Remembered
    <1>3. observations' \in SUBSET observations /\ UNCHANGED <<archives, view, history>>
        BY DEF Delete
    <1>4. /\ step \in Steps \ {"create", "write", "archiveCreate"} /\ step # "archiveWrite"
        BY <1>2 DEF Steps, ArchiveSteps
    <1>5. QED BY <1>2, <1>3, <1>4, Constants, NothingRead, FilesStep DEF history, IInv, TypeOK

LEMMA PruneStep ==
    ASSUME IInv, NEW w \in Writers, Prune(w)
    PROVE  IInv'
    <1>1. /\ TypeOK /\ BoundsInv /\ Finish(w) /\ archives' \in SUBSET archives
          /\ UNCHANGED <<observations, latest, top, stale, reborn, crashed>>
        BY DEF IInv, Prune, history
    <1>2. TypeOK'
        BY <1>1, Constants DEF TypeOK, Finish, Steps
    <1>3. /\ pc'[w] = "idle" /\ base'[w] = NoArchive /\ chain'[w] = {} /\ next'[w] = NoObservation
          /\ \A v \in Writers \ {w} : /\ pc'[v] = pc[v] /\ base'[v] = base[v]
                                      /\ chain'[v] = chain[v] /\ next'[v] = next[v]
        BY <1>1 DEF TypeOK, Finish
    <1>4. BoundsInv'
        <2>1. \A v \in Writers : Bounded(v)'
            BY <1>1, <1>3, NothingRead DEF BoundsInv, Bounded, InTime
        <2>2. QED BY <1>1, <2>1 DEF BoundsInv, InTime
    <1>5. ASSUME ~stale PROVE ChronologyInv'
        <2>1. ChronologyInv
            BY <1>5 DEF IInv
        <2>2. \A v \in Writers : Informed(v)'
            BY <1>1, <1>3, <1>5, <2>1, NothingRead DEF ChronologyInv, Informed, Known, Follows
        <2>3. SoleWriter'
            BY <1>1, <1>3, <2>1 DEF ChronologyInv, SoleWriter
        <2>4. FilesKnown'
            BY <1>1, <2>1 DEF ChronologyInv, FilesKnown, Known
        <2>5. QED BY <2>2, <2>3, <2>4 DEF ChronologyInv
    <1>6. QED BY <1>1, <1>2, <1>4, <1>5 DEF IInv

-----------------------------------------------------------------------------
LEMMA InitIInv ==
    ASSUME Init
    PROVE  IInv
    <1>1. TypeOK
        <2>1. 0 \in 0..MaxWall /\ 0 \in 0..MaxSequence /\ "idle" \in Steps
            BY Constants DEF Steps
        <2>2. stale \in BOOLEAN /\ reborn \in BOOLEAN /\ crashed \in BOOLEAN
            BY DEF Init
        <2>3. /\ observations = {} /\ archives = {} /\ latest = NoObservation /\ top = 0
              /\ pc \in [Writers -> Steps] /\ wall \in [Writers -> 0..MaxWall]
            BY <2>1 DEF Init
        <2>4. /\ base \in [Writers -> Archive] /\ listed \in [Writers -> SUBSET Sequences]
              /\ chain \in [Writers -> SUBSET Observation] /\ next \in [Writers -> Observation]
            BY Constants DEF Init
        <2>5. QED BY <2>1, <2>2, <2>3, <2>4, Constants DEF TypeOK
    <1>2. BoundsInv
        BY Constants DEF Init, BoundsInv, Bounded, InTime, NoObservation, NoArchive
    <1>3. ChronologyInv
        BY DEF Init, ChronologyInv, FilesKnown, SoleWriter, Informed, Known, NoObservation, NoArchive
    <1>4. QED BY <1>1, <1>2, <1>3 DEF IInv

LEMMA StepIInv ==
    ASSUME IInv, [Next]_vars
    PROVE  IInv'
    <1>1. CASE Next
        <2>1. PICK w \in Writers : Observe(w) \/ ArchiveClock(w) \/ Crash(w)
            BY <1>1 DEF Next
        <2>2. CASE Observe(w)
            <3>1. ASSUME Return(w) PROVE IInv'
                <4>1. /\ Finish(w) /\ UNCHANGED <<files, latest, top, stale, reborn>>
                      /\ crashed' \in BOOLEAN
                    BY <3>1 DEF Return, history, IInv, TypeOK
                <4>2. QED BY <4>1, FinishStep
            <3>2. QED
                BY <2>2, <3>1, BeginStep, ListArchivesStep, ReadArchiveStep, ListObservationsStep,
                   ReadObservationStep, DecideStep, CreateStep, WriteStep
                DEF Observe
        <2>3. CASE ArchiveClock(w)
            BY <2>3, BeginStep, ListArchivesStep, ReadArchiveStep, ListObservationsStep,
               ReadObservationStep, DecideArchiveStep, CreateArchiveStep, WriteArchiveStep,
               DeleteStep, PruneStep
            DEF ArchiveClock
        <2>4. CASE Crash(w)
            BY <2>4, FinishStep DEF Crash
        <2>5. QED BY <2>1, <2>2, <2>3, <2>4
    <1>2. CASE UNCHANGED vars
        BY <1>2
        DEF vars, IInv, TypeOK, BoundsInv, Bounded, ChronologyInv, FilesKnown, SoleWriter, Informed,
            Known, Follows, InTime
    <1>3. QED BY <1>1, <1>2

-----------------------------------------------------------------------------
(***************************************************************************)
(* Time advances and rollbacks are rejected.                               *)
(***************************************************************************)
\* Under any interleaving of observing, archiving, deleting and exiting
\* processes the bounds hold and, as long as no sequence number is created
\* twice, everything any process has read is no later than the observation
\* completed last, and one observation at most is being written, right after it.
THEOREM Invariant == Spec => []IInv
    <1>1. QED BY InitIInv, StepIInv, PTL DEF Spec

\* The files of lease-clock.js and what its processes hold in memory have their
\* types in every reachable state: numbers stay within the bounds on sequences,
\* generations and logical times.
THEOREM TypeCorrect == Spec => []TypeOK
    <1>1. IInv => TypeOK
        BY DEF IInv
    <1>2. QED BY <1>1, Invariant, PTL

\* No step forgets that a sequence was used twice.
LEMMA StaleStays ==
    ASSUME [Next]_vars, stale
    PROVE  stale'
    <1>1. stale' = stale \/ \E w \in Writers : Create(w)
        BY DEF Next, Observe, ArchiveClock, Crash, vars, history, BeginObserve, BeginArchive,
               ListArchives, ReadArchive, ListObservations, ReadObservation, Decide, Write, Return,
               DecideArchive, CreateArchive, WriteArchive, Delete, Prune, Refuse
    <1>2. QED BY <1>1, Zenon DEF Create, history

\* The observation that a process is writing may come next.
LEMMA WrittenFollows ==
    ASSUME IInv, ~stale, NEW w \in Writers, pc[w] = "write"
    PROVE  next[w].logical > latest.logical /\ next[w].wall >= latest.wall - Tolerance
    BY DEF IInv, ChronologyInv, SoleWriter, Informed, Follows

\* A completed observation (observeLeaseClock) is logically later than
\* the one completed before it, whoever made the two, unless a sequence number
\* was used, archived, deleted and used again.
THEOREM TimeAlwaysAdvances == Spec => TimeAdvances
    <1>1. ASSUME IInv, [Next]_vars
          PROVE  \A w \in Writers : Seals(w) /\ ~stale' => next[w].logical > latest.logical
        BY <1>1, StaleStays, WrittenFollows DEF Seals
    <1>2. QED BY <1>1, Invariant, PTL DEF Spec, TimeAdvances

\* Under the same condition the wall time of a completed observation is at most
\* the tolerance behind that of the one before it: the rollback check of
\* observeLeaseClock is not overtaken by another process.
THEOREM RollbackAlwaysRejected == Spec => RollbackRejected
    <1>1. ASSUME IInv, [Next]_vars
          PROVE  \A w \in Writers : Seals(w) /\ ~stale' =>
                    next[w].wall >= latest.wall - Tolerance
        BY <1>1, StaleStays, WrittenFollows DEF Seals
    <1>2. QED BY <1>1, Invariant, PTL DEF Spec, RollbackRejected

-----------------------------------------------------------------------------
(***************************************************************************)
(* The newest archive, and chains without a gap.                           *)
(***************************************************************************)
LEMMA NewestIs ==
    ASSUME NEW S \in SUBSET Archive, NEW a \in S,
           \A b \in S : b.generation <= a.generation,
           \A b \in S : b.generation = a.generation => b = a
    PROVE  Newest(S) = a
    <1>1. PICK m \in S : m = Newest(S) /\ a.generation <= m.generation
        BY NewestIsThere
    <1>2. a \in Archive /\ m \in Archive
        OBVIOUS
    <1>3. a.generation \in Nat /\ m.generation \in Nat
        BY <1>2, Constants DEF Archive
    <1>4. m.generation <= a.generation
        OBVIOUS
    <1>5. m.generation = a.generation
        BY <1>1, <1>3, <1>4
    <1>6. QED BY <1>1, <1>5

LEMMA CurrentIsNewest ==
    ASSUME IInv
    PROVE  /\ CurrentArchive \in Archive
           /\ archives = {} => CurrentArchive = NoArchive
           /\ archives # {} => CurrentArchive \in archives
           /\ \A a \in archives : a.generation <= CurrentArchive.generation
    <1>1. archives \in SUBSET Archive
        BY DEF IInv, TypeOK
    <1>2. QED BY <1>1, Constants, NewestIsThere DEF CurrentArchive

\* A chain that validateObservationChain accepts reaches back to its archive.
LEMMA ValidIsGapless ==
    ASSUME NEW a \in Archive, NEW obs \in SUBSET Observation, ValidChain(a, obs)
    PROVE  Gapless(a, obs)
    <1> DEFINE Good(o) == /\ o.sequence > a.through
                          /\ (a.through + 1)..o.sequence \subseteq Numbers(obs)
               Bad == {o.sequence : o \in {p \in obs : ~Good(p)}}
    <1>1. a.through \in Nat /\ \A o \in obs : o.sequence \in Nat /\ o.sequence \in Numbers(obs)
        BY Constants DEF Archive, Observation, Numbers
    <1>2. ASSUME Bad # {} PROVE FALSE
        <2>1. Bad \in SUBSET Nat
            BY <1>1
        <2>2. PICK m \in Bad : \A k \in Bad : m <= k
            <3> HIDE DEF Bad
            <3>1. QED BY <1>2, <2>1, LeastElement
        <2>3. PICK o \in obs : ~Good(o) /\ o.sequence = m
            BY <2>2
        <2>4. PICK below : below = {p \in obs : p.sequence < o.sequence}
            OBVIOUS
        <2>5. o.sequence = Latest(a, below).sequence + 1
            BY <2>4 DEF ValidChain, Before
        <2>6. CASE below = {}
            <3>1. o.sequence = a.through + 1
                BY <2>5, <2>6, LatestOfNone
            <3>2. QED BY <1>1, <2>3, <3>1
        <2>7. CASE below # {}
            <3>1. PICK q \in below : q = Latest(a, below)
                BY <2>4, <2>7, LatestOfSome
            <3>2. q \in obs /\ q.sequence < m
                BY <2>3, <2>4, <3>1
            <3>3. Good(q)
                BY <1>1, <2>2, <3>2
            <3>4. o.sequence = q.sequence + 1
                BY <2>5, <3>1
            <3>5. QED BY <1>1, <2>3, <3>2, <3>3, <3>4
        <2>8. QED BY <2>6, <2>7
    <1>3. \A o \in obs : Good(o)
        BY <1>2
    <1>4. QED BY <1>3 DEF Gapless

\* What is archived of a chain is the oldest part of it.
LEMMA ArchivedIsPrefix ==
    ASSUME NEW w \in Writers, chain[w] \in SUBSET Observation, IsFiniteSet(chain[w]),
           NEW a \in Archive, Gapless(a, chain[w])
    PROVE  Gapless(a, Archived(w))
    <1>1. a.through \in Nat /\ \A o \in chain[w] : o.sequence \in Nat
        BY Constants DEF Archive, Observation
    <1>2. ASSUME NEW o \in Archived(w), NEW p \in chain[w], p.sequence <= o.sequence
          PROVE  p \in Archived(w)
        <2> DEFINE Later(q) == {r \in chain[w] : r.sequence > q.sequence}
        <2>1. Later(o) \subseteq Later(p) /\ Later(p) \subseteq chain[w]
            BY <1>1, <1>2 DEF Archived
        <2>2. IsFiniteSet(Later(p)) /\ IsFiniteSet(Later(o))
            BY <2>1, FS_Subset
        <2>3. /\ Cardinality(Later(o)) \in Nat /\ Cardinality(Later(p)) \in Nat
              /\ Cardinality(Later(o)) <= Cardinality(Later(p))
            BY <2>1, <2>2, FS_Subset, FS_CardinalityType
        <2>4. Cardinality(Later(o)) >= Retain /\ Retain \in Nat
            BY ClockAssumption DEF Archived
        <2>5. Cardinality(Later(p)) >= Retain
            <3> HIDE DEF Later
            <3>1. QED BY <2>3, <2>4
        <2>6. QED BY <2>5 DEF Archived
    <1>3. ASSUME NEW o \in Archived(w), NEW n \in (a.through + 1)..o.sequence
          PROVE  n \in Numbers(Archived(w))
        <2>1. o \in chain[w]
            BY DEF Archived
        <2>2. PICK p \in chain[w] : p.sequence = n
            BY <2>1 DEF Gapless, Numbers
        <2>3. p \in Archived(w)
            BY <1>1, <1>2, <1>3, <2>1, <2>2
        <2>4. QED BY <2>2, <2>3 DEF Numbers
    <1>4. QED BY <1>3 DEF Gapless, Archived

-----------------------------------------------------------------------------
(***************************************************************************)
(* What the observations continue.                                         *)
(***************************************************************************)
LEMMA Numeric ==
    ASSUME IInv
    PROVE  /\ latest.sequence \in Nat /\ top \in Nat
           /\ \A o \in observations : o.sequence \in Nat
           /\ \A w \in Writers :
                 /\ next[w].sequence \in Nat /\ base[w].generation \in Nat
                 /\ \A o \in chain[w] : o.sequence \in Nat
    <1>1. /\ latest \in Observation /\ top \in 0..MaxSequence
          /\ \A o \in observations : o \in Observation
          /\ \A w \in Writers : /\ next[w] \in Observation /\ base[w] \in Archive
                               /\ \A o \in chain[w] : o \in Observation
        BY DEF IInv, TypeOK
    <1>2. \A o \in Observation : o.sequence \in Nat
        BY Constants DEF Observation
    <1>3. \A a \in Archive : a.generation \in Nat
        BY Constants DEF Archive
    <1>4. QED BY <1>1, <1>2, <1>3, Constants

LEMMA NextArchiveIs ==
    ASSUME IInv, NEW w \in Writers, chain[w] # {}
    PROVE  \E last \in chain[w] :
              /\ \A o \in chain[w] : o.sequence <= last.sequence
              /\ NextArchive(w) = [generation |-> base[w].generation + 1, sealed |-> TRUE,
                     through |-> last.sequence, wall |-> last.wall, logical |-> last.logical]
    <1>1. PICK last \in chain[w] : last = Latest(base[w], chain[w])
                                   /\ \A o \in chain[w] : o.sequence <= last.sequence
        BY Remembered, LatestOfSome
    <1>2. QED BY <1>1 DEF NextArchive

\* The archives that the observations continue.
Foundation(a) ==
    \/ a = CurrentArchive /\ a.sealed
    \/ \E w \in Writers : pc[w] = "archiveWrite" /\ a = NextArchive(w)

LEMMA FoundationKnown ==
    ASSUME IInv, ContinuityInv, ~stale, NEW a, Foundation(a)
    PROVE  Founded(a) /\ a.through \in Nat /\ Known(a.through, a.logical, a.wall)
    <1>1. CASE a = CurrentArchive /\ a.sealed
        <2>1. Known(a.through, a.logical, a.wall)
            BY <1>1, CurrentIsNewest, NothingRead DEF IInv, ChronologyInv, FilesKnown
        <2>2. a.through \in Nat
            BY <1>1, CurrentIsNewest, Constants DEF Archive
        <2>3. QED BY <1>1, <2>1, <2>2 DEF ContinuityInv, FoundedInv
    <1>2. ASSUME NEW w \in Writers, pc[w] = "archiveWrite", a = NextArchive(w)
          PROVE  Founded(a) /\ a.through \in Nat /\ Known(a.through, a.logical, a.wall)
        <2>1. chain[w] # {}
            BY <1>2 DEF ContinuityInv, ChainsInv
        <2>2. PICK last \in chain[w] :
                  a = [generation |-> base[w].generation + 1, sealed |-> TRUE,
                       through |-> last.sequence, wall |-> last.wall, logical |-> last.logical]
            BY <1>2, <2>1, NextArchiveIs
        <2>3. Known(last.sequence, last.logical, last.wall)
            BY Remembered
        <2>4. a.through = last.sequence /\ a.logical = last.logical /\ a.wall = last.wall
            BY <2>2
        <2>5. Founded(a)
            BY <1>2 DEF ContinuityInv, FoundedInv
        <2>6. QED BY <2>3, <2>4, <2>5, Numeric
    <1>3. QED BY <1>1, <1>2 DEF Foundation

LEMMA SomeFoundation ==
    ASSUME IInv, ContinuityInv
    PROVE  \E a : Foundation(a)
    <1>1. CASE CurrentArchive.sealed
        BY <1>1 DEF Foundation
    <1>2. CASE ~CurrentArchive.sealed
        <2>1. CurrentArchive \in archives
            BY <1>2, CurrentIsNewest DEF NoArchive
        <2>2. \E w \in Writers : pc[w] = "archiveWrite"
            BY <1>2, <2>1 DEF ContinuityInv, ArchivesInv
        <2>3. QED BY <2>2 DEF Foundation
    <1>3. QED BY <1>1, <1>2

-----------------------------------------------------------------------------
(***************************************************************************)
(* Steps that leave the newest archive and the observations as they are.   *)
(***************************************************************************)
LEMMA MemoryContinuity ==
    ASSUME IInv, ContinuityInv, NEW w \in Writers,
           UNCHANGED <<observations, CurrentArchive, latest, top>>, archives' \subseteq archives,
           pc[w] \notin {"write", "archiveWrite", "delete"},
           NEW step, step \notin {"write", "archiveWrite", "delete"},
           pc' = [pc EXCEPT ![w] = step],
           NEW b, base' = [base EXCEPT ![w] = b], b.generation <= CurrentArchive.generation,
           step \in {"archiveList", "archiveRead", "archiveCreate"} =>
              b.sealed /\ (b.generation = CurrentArchive.generation => b = CurrentArchive),
           NEW n, next' = [next EXCEPT ![w] = n],
           step = "create" /\ n.sequence = latest.sequence + 1 => n.previous = latest.logical,
           NEW c, chain' = [chain EXCEPT ![w] = c], IsFiniteSet(c),
           \A o \in c : o.sealed /\ (o \in chain[w] \/ o \in observations),
           step = "archiveCreate" => c # {} /\ Gapless(b, c)
    PROVE  ContinuityInv'
    <1> TypeOK /\ ArchivesInv /\ ObservationsInv /\ ChainsInv /\ FoundedInv
        BY DEF IInv, ContinuityInv
    <1>1. /\ pc'[w] = step /\ base'[w] = b /\ chain'[w] = c /\ next'[w] = n
          /\ \A v \in Writers \ {w} : /\ pc'[v] = pc[v] /\ base'[v] = base[v]
                                      /\ chain'[v] = chain[v] /\ next'[v] = next[v]
        BY DEF TypeOK
    <1>2. \A v \in Writers \ {w} : /\ UnwrittenArchive(v)' = UnwrittenArchive(v)
                                   /\ Unwritten(v)' = Unwritten(v)
                                   /\ NextArchive(v)' = NextArchive(v)
        BY <1>1 DEF UnwrittenArchive, Unwritten, NextArchive, Latest
    <1>3. ArchivesInv'
        BY <1>1, <1>2 DEF ArchivesInv
    <1>4. ObservationsInv'
        BY <1>1, <1>2 DEF ObservationsInv
    <1>5. ChainsInv'
        BY <1>1 DEF ChainsInv, Gapless, Numbers
    <1>6. ASSUME NEW a, Founded(a) PROVE Founded(a)'
        BY <1>1, <1>6 DEF Founded, Numbers, Continues
    <1>7. FoundedInv'
        <2>1. PICK a : a = CurrentArchive
            OBVIOUS
        <2>2. CurrentArchive.sealed => Founded(a)'
            BY <1>6, <2>1 DEF FoundedInv
        <2>3. ASSUME NEW v \in Writers, pc'[v] = "archiveWrite" PROVE Founded(NextArchive(v))'
            <3>1. PICK x : x = NextArchive(v)
                OBVIOUS
            <3>2. Founded(x)' /\ NextArchive(v)' = x
                BY <1>1, <1>2, <1>6, <2>3, <3>1 DEF FoundedInv
            <3>3. QED BY <3>2
        <2>4. QED BY <2>1, <2>2, <2>3 DEF FoundedInv
    <1>8. QED BY <1>3, <1>4, <1>5, <1>7 DEF ContinuityInv

LEMMA SameArchives ==
    ASSUME UNCHANGED archives
    PROVE  CurrentArchive' = CurrentArchive /\ archives' \subseteq archives
    BY DEF CurrentArchive

\* What a process holds, for the steps that leave some of it alone.
LEMMA Held ==
    ASSUME IInv, ContinuityInv, NEW w \in Writers
    PROVE  /\ base[w].generation <= CurrentArchive.generation
           /\ pc[w] \in {"archiveList", "archiveRead", "archiveCreate"} =>
                 /\ base[w].sealed
                 /\ base[w].generation = CurrentArchive.generation => base[w] = CurrentArchive
           /\ IsFiniteSet(chain[w]) /\ \A o \in chain[w] : o.sealed
    BY DEF ContinuityInv, ArchivesInv, ChainsInv

LEMMA FinishContinuity ==
    ASSUME IInv, ContinuityInv, NEW w \in Writers, Finish(w),
           UNCHANGED <<observations, CurrentArchive, latest, top>>, archives' \subseteq archives,
           pc[w] \notin {"write", "archiveWrite", "delete"}
    PROVE  ContinuityInv'
    <1>1. PICK step, b, n, c : step = "idle" /\ b = NoArchive /\ n = NoObservation /\ c = {}
        OBVIOUS
    <1>2. /\ pc' = [pc EXCEPT ![w] = step] /\ base' = [base EXCEPT ![w] = b]
          /\ next' = [next EXCEPT ![w] = n] /\ chain' = [chain EXCEPT ![w] = c]
        BY <1>1 DEF Finish
    <1>3. b.generation <= CurrentArchive.generation
        BY <1>1, CurrentIsNewest, Constants DEF NoArchive, Archive
    <1>4. IsFiniteSet(c) /\ \A o \in c : o.sealed /\ (o \in chain[w] \/ o \in observations)
        BY <1>1, FS_EmptySet
    <1>5. step \notin {"write", "archiveWrite", "delete", "create", "archiveList", "archiveRead",
                      "archiveCreate"}
        BY <1>1
    <1>6. QED BY <1>2, <1>3, <1>4, <1>5, MemoryContinuity

LEMMA RefuseContinuity ==
    ASSUME IInv, ContinuityInv, NEW w \in Writers, Refuse(w),
           pc[w] \notin {"write", "archiveWrite", "delete"}
    PROVE  ContinuityInv'
    BY FinishContinuity, SameArchives DEF Refuse, files, history

LEMMA BaseContinuity ==
    ASSUME IInv, ContinuityInv, NEW w \in Writers,
           pc[w] \notin {"write", "archiveWrite", "delete"},
           NEW at \in {"observeArchive", "archiveArchive", "observeList", "archiveList"},
           pc' = [pc EXCEPT ![w] = at], NEW b, base' = [base EXCEPT ![w] = b],
           b.generation <= CurrentArchive.generation,
           at = "archiveList" =>
              b.sealed /\ (b.generation = CurrentArchive.generation => b = CurrentArchive),
           UNCHANGED <<files, wall, listed, chain, next, history>>
    PROVE  ContinuityInv'
    <1>1. at \notin {"write", "archiveWrite", "delete", "create", "archiveRead", "archiveCreate"}
        OBVIOUS
    <1>2. chain' = [chain EXCEPT ![w] = chain[w]] /\ next' = [next EXCEPT ![w] = next[w]]
        BY Remembered
    <1>3. UNCHANGED <<observations, CurrentArchive, latest, top>> /\ archives' \subseteq archives
        BY SameArchives DEF files, history
    <1>4. PICK c : c = chain[w]
        OBVIOUS
    <1>5. PICK n : n = next[w]
        OBVIOUS
    <1>6. /\ chain' = [chain EXCEPT ![w] = c] /\ next' = [next EXCEPT ![w] = n]
          /\ IsFiniteSet(c) /\ \A o \in c : o.sealed /\ (o \in chain[w] \/ o \in observations)
        BY <1>2, <1>4, <1>5, Held
    <1>7. QED BY <1>1, <1>3, <1>6, MemoryContinuity

LEMMA ListArchivesContinuity ==
    ASSUME IInv, ContinuityInv, NEW w \in Writers,
           NEW from, from \notin {"write", "archiveWrite", "delete"},
           NEW readIt \in {"observeArchive", "archiveArchive"},
           NEW skip \in {"observeList", "archiveList"},
           ListArchives(w, from, readIt, skip)
    PROVE  ContinuityInv'
    <1>1. PICK at : at = IF archives = {} THEN skip ELSE readIt
        OBVIOUS
    <1>2. PICK b : b = CurrentArchive
        OBVIOUS
    <1>3. /\ pc[w] = from /\ pc' = [pc EXCEPT ![w] = at] /\ base' = [base EXCEPT ![w] = b]
          /\ UNCHANGED <<files, wall, listed, chain, next, history>>
        BY <1>1, <1>2 DEF ListArchives, Step, CurrentArchive
    <1>4. at \in {"observeArchive", "archiveArchive", "observeList", "archiveList"}
        BY <1>1
    <1>5. b.generation <= CurrentArchive.generation
        BY <1>2, CurrentIsNewest, Constants DEF Archive
    <1>6. at = "archiveList" => b.sealed
        BY <1>1, <1>2, CurrentIsNewest DEF NoArchive
    <1>7. QED BY <1>2, <1>3, <1>4, <1>5, <1>6, BaseContinuity

LEMMA ReadArchiveContinuity ==
    ASSUME IInv, ContinuityInv, NEW w \in Writers,
           NEW from, from \notin {"write", "archiveWrite", "delete"},
           NEW to \in {"observeList", "archiveList"}, ReadArchive(w, from, to)
    PROVE  ContinuityInv'
    <1>1. pc[w] = from
        BY DEF ReadArchive
    <1>2. CASE Refuse(w)
        BY <1>1, <1>2, RefuseContinuity
    <1>3. CASE ~Refuse(w)
        <2>1. PICK a \in archives : a.generation = base[w].generation /\ a.sealed
            BY <1>3 DEF ReadArchive
        <2>2. PICK b \in archives : /\ b.generation = base[w].generation
                                    /\ base' = [base EXCEPT ![w] = b]
            BY <1>3 DEF ReadArchive
        <2>3. pc' = [pc EXCEPT ![w] = to] /\ UNCHANGED <<files, wall, listed, chain, next, history>>
            BY <1>3 DEF ReadArchive
        <2>4. b = a /\ b.sealed
            BY <2>1, <2>2 DEF ContinuityInv, ArchivesInv
        <2>5. b.generation <= CurrentArchive.generation /\ CurrentArchive \in archives
            BY CurrentIsNewest
        <2>6. b.generation = CurrentArchive.generation => b = CurrentArchive
            BY <2>5 DEF ContinuityInv, ArchivesInv
        <2>7. QED BY <1>1, <2>2, <2>3, <2>4, <2>5, <2>6, BaseContinuity
    <1>4. QED BY <1>2, <1>3

\* w goes on, and remembers no more than observations that it has just read.
LEMMA ChainContinuity ==
    ASSUME IInv, ContinuityInv, NEW w \in Writers,
           pc[w] \notin {"write", "archiveWrite", "delete"},
           NEW step, step \notin {"write", "archiveWrite", "delete", "create"},
           step \in {"archiveList", "archiveRead", "archiveCreate"} =>
              pc[w] \in {"archiveList", "archiveRead", "archiveCreate"},
           pc' = [pc EXCEPT ![w] = step],
           NEW c, chain' = [chain EXCEPT ![w] = c], IsFiniteSet(c),
           \A o \in c : o.sealed /\ (o \in chain[w] \/ o \in observations),
           step = "archiveCreate" => c # {} /\ Gapless(base[w], c),
           NEW n, next' = [next EXCEPT ![w] = n],
           UNCHANGED <<files, base, latest, top>>
    PROVE  ContinuityInv'
    <1>1. UNCHANGED <<observations, CurrentArchive, latest, top>> /\ archives' \subseteq archives
        BY SameArchives DEF files
    <1>2. PICK b : b = base[w]
        OBVIOUS
    <1>3. base' = [base EXCEPT ![w] = b]
        BY <1>2, Remembered
    <1>4. /\ b.generation <= CurrentArchive.generation
          /\ step \in {"archiveList", "archiveRead", "archiveCreate"} =>
                b.sealed /\ (b.generation = CurrentArchive.generation => b = CurrentArchive)
        BY <1>2, Held
    <1>5. step = "archiveCreate" => c # {} /\ Gapless(b, c)
        BY <1>2
    <1>6. QED BY <1>1, <1>3, <1>4, <1>5, MemoryContinuity

LEMMA BeginContinuity ==
    ASSUME IInv, ContinuityInv, NEW w \in Writers, BeginObserve(w) \/ BeginArchive(w)
    PROVE  ContinuityInv'
    <1>1. PICK step \in {"observeArchives", "archiveArchives"} : pc' = [pc EXCEPT ![w] = step]
        BY DEF BeginObserve, BeginArchive, Step
    <1>2. pc[w] = "idle" /\ UNCHANGED <<files, base, chain, next, latest, top>>
        BY DEF BeginObserve, BeginArchive, Step, view, history
    <1>3. PICK c, n : c = chain[w] /\ n = next[w]
        OBVIOUS
    <1>4. /\ chain' = [chain EXCEPT ![w] = c] /\ next' = [next EXCEPT ![w] = n] /\ IsFiniteSet(c)
          /\ \A o \in c : o.sealed /\ (o \in chain[w] \/ o \in observations)
        BY <1>2, <1>3, Remembered, Held
    <1>5. step \notin {"write", "archiveWrite", "delete", "create", "archiveList", "archiveRead",
                      "archiveCreate"}
        BY <1>1
    <1>6. QED BY <1>1, <1>2, <1>4, <1>5, ChainContinuity

LEMMA ListObservationsContinuity ==
    ASSUME IInv, ContinuityInv, NEW w \in Writers,
           ListObservations(w, "observeList", "observeRead")
             \/ ListObservations(w, "archiveList", "archiveRead")
    PROVE  ContinuityInv'
    <1>1. PICK step \in {"observeRead", "archiveRead"} :
              /\ pc' = [pc EXCEPT ![w] = step]
              /\ pc[w] = IF step = "archiveRead" THEN "archiveList" ELSE "observeList"
        BY DEF ListObservations, Step
    <1>2. PICK c, n : c = {} /\ n = next[w]
        OBVIOUS
    <1>3. chain' = [chain EXCEPT ![w] = c] /\ UNCHANGED <<files, base, latest, top>> /\ next' = next
        BY <1>2 DEF ListObservations, history
    <1>4. /\ next' = [next EXCEPT ![w] = n] /\ IsFiniteSet(c)
          /\ \A o \in c : o.sealed /\ (o \in chain[w] \/ o \in observations)
        BY <1>2, <1>3, Remembered, FS_EmptySet
    <1>5. /\ step \notin {"write", "archiveWrite", "delete", "create", "archiveList", "archiveCreate"}
          /\ pc[w] \notin {"write", "archiveWrite", "delete"}
          /\ step = "archiveRead" => pc[w] = "archiveList"
        BY <1>1
    <1>6. QED BY <1>1, <1>3, <1>4, <1>5, ChainContinuity

LEMMA ReadObservationContinuity ==
    ASSUME IInv, ContinuityInv, NEW w \in Writers, NEW at \in {"observeRead", "archiveRead"},
           ReadObservation(w, at)
    PROVE  ContinuityInv'
    <1>1. pc[w] = at
        BY DEF ReadObservation
    <1>2. CASE Refuse(w)
        BY <1>1, <1>2, RefuseContinuity
    <1>3. CASE ~Refuse(w)
        <2>1. PICK num : num = Min(listed[w])
            OBVIOUS
        <2>2. PICK found : found = {o \in observations : o.sequence = num /\ o.sealed}
            OBVIOUS
        <2>3. PICK c, n, step : c = chain[w] \cup found /\ n = next[w] /\ step = at
            OBVIOUS
        <2>4. chain' = [chain EXCEPT ![w] = c] /\ UNCHANGED <<files, pc, base, next, latest, top>>
            BY <1>3, <2>1, <2>2, <2>3 DEF ReadObservation, history
        <2>5. next' = [next EXCEPT ![w] = n] /\ pc' = [pc EXCEPT ![w] = step]
            BY <1>1, <2>3, <2>4, Remembered
        <2>6. IsFiniteSet(c)
            <3>1. IsFiniteSet(found)
                BY <2>2, FS_Subset DEF ContinuityInv, ObservationsInv
            <3>2. QED BY <2>3, <3>1, Held, FS_Union
        <2>7. \A o \in c : o.sealed /\ (o \in chain[w] \/ o \in observations)
            BY <2>2, <2>3, Held
        <2>8. /\ step \notin {"write", "archiveWrite", "delete", "create", "archiveCreate"}
              /\ step = pc[w]
            BY <1>1, <2>3
        <2>9. QED BY <2>4, <2>5, <2>6, <2>7, <2>8, ChainContinuity
    <1>4. QED BY <1>2, <1>3

\* A record that would come next is linked to the latest observation.
LEMMA DecideContinuity ==
    ASSUME IInv, ContinuityInv, ~stale, NEW w \in Writers, Decide(w)
    PROVE  ContinuityInv'
    <1>1. pc[w] = "observeRead"
        BY DEF Decide
    <1>2. CASE Refuse(w)
        BY <1>1, <1>2, RefuseContinuity
    <1>3. CASE ~Refuse(w)
        <2>1. PICK before : before = Latest(base[w], chain[w])
            OBVIOUS
        <2>2. PICK n : n = [sequence |-> before.sequence + 1, sealed |-> TRUE,
                            wall |-> wall[w], logical |-> LogicalTime(w, before),
                            previous |-> before.logical]
            OBVIOUS
        <2>3. PICK step, b, c : step = "create" /\ b = NoArchive /\ c = {}
            OBVIOUS
        <2>4. /\ next' = [next EXCEPT ![w] = n] /\ pc' = [pc EXCEPT ![w] = step]
              /\ chain' = [chain EXCEPT ![w] = c] /\ base' = [base EXCEPT ![w] = b]
              /\ UNCHANGED <<files, latest, top>>
            BY <1>3, <2>1, <2>2, <2>3 DEF Decide, history
        <2>5. UNCHANGED <<observations, CurrentArchive, latest, top>> /\ archives' \subseteq archives
            BY <2>4, SameArchives DEF files
        <2>6. before \in Observation /\ Known(before.sequence, before.logical, before.wall)
            BY <2>1, LatestRead
        <2>7. before.sequence \in Nat
            BY <2>6, Constants DEF Observation
        <2>8. n.sequence = latest.sequence + 1 => n.previous = latest.logical
            BY <2>2, <2>6, <2>7, Numeric DEF Known
        <2>9. b.generation <= CurrentArchive.generation
            BY <2>3, CurrentIsNewest, Constants DEF NoArchive, Archive
        <2>10. IsFiniteSet(c) /\ \A o \in c : o.sealed /\ (o \in chain[w] \/ o \in observations)
            BY <2>3, FS_EmptySet
        <2>11. /\ step \notin {"write", "archiveWrite", "delete"}
               /\ step \notin {"archiveList", "archiveRead", "archiveCreate"}
               /\ pc[w] \notin {"write", "archiveWrite", "delete"}
            BY <1>1, <2>3
        <2>12. QED BY <2>4, <2>5, <2>8, <2>9, <2>10, <2>11, MemoryContinuity
    <1>4. QED BY <1>2, <1>3

LEMMA DecideArchiveContinuity ==
    ASSUME IInv, ContinuityInv, NEW w \in Writers, DecideArchive(w)
    PROVE  ContinuityInv'
    <1>1. pc[w] = "archiveRead"
        BY DEF DecideArchive
    <1>2. CASE Refuse(w)
        BY <1>1, <1>2, RefuseContinuity
    <1>3. CASE ~Refuse(w)
        <2>1. PICK c, n, step : c = Archived(w) /\ n = next[w] /\ step = "archiveCreate"
            OBVIOUS
        <2>2. /\ ValidChain(base[w], chain[w]) /\ c # {}
              /\ chain' = [chain EXCEPT ![w] = c] /\ pc' = [pc EXCEPT ![w] = step]
              /\ UNCHANGED <<files, base, next, latest, top>>
            BY <1>3, <2>1 DEF DecideArchive, history
        <2>3. next' = [next EXCEPT ![w] = n]
            BY <2>1, <2>2, Remembered
        <2>4. c \subseteq chain[w]
            BY <2>1 DEF Archived
        <2>5. IsFiniteSet(c) /\ \A o \in c : o.sealed /\ (o \in chain[w] \/ o \in observations)
            BY <2>4, Held, FS_Subset
        <2>6. Gapless(base[w], c)
            BY <2>1, <2>2, Remembered, Held, ValidIsGapless, ArchivedIsPrefix
        <2>7. /\ step \notin {"write", "archiveWrite", "delete", "create"}
              /\ pc[w] \notin {"write", "archiveWrite", "delete"}
            BY <1>1, <2>1
        <2>8. QED BY <1>1, <2>2, <2>3, <2>5, <2>6, <2>7, ChainContinuity
    <1>4. QED BY <1>2, <1>3

-----------------------------------------------------------------------------
(***************************************************************************)
(* Steps that change the observations.                                     *)
(***************************************************************************)

\* The current archive and the archives being written are the same and still
\* found, so that the continuity of the observations is kept.
LEMMA KeepFoundations ==
    ASSUME IInv, ContinuityInv, ~stale, CurrentArchive' = CurrentArchive, UNCHANGED <<base, chain>>,
           \A w \in Writers : pc'[w] = "archiveWrite" => pc[w] = "archiveWrite",
           \A a : Founded(a) /\ a.through \in Nat /\ Known(a.through, a.logical, a.wall)
                     => Founded(a)'
    PROVE  FoundedInv'
    <1>1. PICK a : a = CurrentArchive
        OBVIOUS
    <1>2. CurrentArchive.sealed => Founded(a)'
        BY <1>1, FoundationKnown DEF Foundation
    <1>3. ASSUME NEW v \in Writers, pc'[v] = "archiveWrite" PROVE Founded(NextArchive(v))'
        <2>1. PICK x : x = NextArchive(v)
            OBVIOUS
        <2>2. Founded(x)'
            BY <1>3, <2>1, FoundationKnown DEF Foundation
        <2>3. NextArchive(v)' = x
            BY <2>1 DEF NextArchive, Latest
        <2>4. QED BY <2>2, <2>3
    <1>4. QED BY <1>1, <1>2, <1>3 DEF FoundedInv

LEMMA CreateContinuity ==
    ASSUME IInv, ContinuityInv, ~stale', NEW w \in Writers, Create(w)
    PROVE  ContinuityInv'
    <1>1. CASE next[w].sequence \in Numbers(observations)
        <2>1. PICK c, n, step : c = chain[w] /\ n = NoObservation /\ step = "observeArchives"
            OBVIOUS
        <2>2. /\ pc[w] = "create" /\ pc' = [pc EXCEPT ![w] = step]
              /\ next' = [next EXCEPT ![w] = n] /\ UNCHANGED <<files, base, chain, latest, top>>
            BY <1>1, <2>1 DEF Create, history
        <2>3. /\ chain' = [chain EXCEPT ![w] = c] /\ IsFiniteSet(c)
              /\ \A o \in c : o.sealed /\ (o \in chain[w] \/ o \in observations)
            BY <2>1, <2>2, Remembered, Held
        <2>4. /\ step \notin {"write", "archiveWrite", "delete", "create", "archiveList",
                              "archiveRead", "archiveCreate"}
              /\ pc[w] \notin {"write", "archiveWrite", "delete"}
            BY <2>1, <2>2
        <2>5. QED BY <2>2, <2>3, <2>4, ChainContinuity
    <1>2. CASE next[w].sequence \notin Numbers(observations)
        <2>1. PICK m : m = next[w].sequence
            OBVIOUS
        <2>2. PICK u : u = Unwritten(w)
            OBVIOUS
        <2>3. /\ pc[w] = "create" /\ pc' = [pc EXCEPT ![w] = "write"]
              /\ observations' = observations \cup {u}
              /\ UNCHANGED <<archives, base, chain, next, latest>>
            BY <1>2, <2>2 DEF Create, view
        <2>4. ~stale /\ top = latest.sequence /\ m = top + 1 /\ top' = m
            BY <1>2, <2>1, NewSequence
        <2>5. u.sequence = m /\ ~u.sealed /\ m \in Nat /\ m \notin Numbers(observations)
            BY <1>2, <2>1, <2>2, Numeric DEF Unwritten, NoObservation
        <2>6. pc'[w] = "write" /\ \A v \in Writers \ {w} : pc'[v] = pc[v]
            BY <2>3 DEF IInv, TypeOK
        <2>7. CurrentArchive' = CurrentArchive
            BY <2>3, SameArchives
        <2>8. \A v \in Writers : UnwrittenArchive(v)' = UnwrittenArchive(v)
                                 /\ Unwritten(v)' = Unwritten(v)
            BY <2>3 DEF UnwrittenArchive, Unwritten
        <2>9. ArchivesInv'
            BY <2>3, <2>6, <2>7, <2>8 DEF ContinuityInv, ArchivesInv
        <2>10. ObservationsInv'
            <3>1. IsFiniteSet(observations')
                BY <2>3, FS_AddElement DEF ContinuityInv, ObservationsInv
            <3>2. \A o \in observations' : \A p \in observations' :
                      p.sequence = o.sequence => p = o
                BY <2>3, <2>5 DEF ContinuityInv, ObservationsInv, Numbers
            <3>3. \A o \in observations' : ~o.sealed =>
                      \E v \in Writers : pc'[v] = "write" /\ o = Unwritten(v)'
                BY <2>2, <2>3, <2>6, <2>8 DEF ContinuityInv, ObservationsInv
            <3>4. \A v \in Writers :
                      /\ pc'[v] = "write" => Unwritten(v)' \in observations'
                      /\ pc'[v] \in {"create", "write"} /\ next'[v].sequence = latest'.sequence + 1
                           => next'[v].previous = latest'.logical
                BY <2>2, <2>3, <2>6, <2>8 DEF ContinuityInv, ObservationsInv
            <3>5. QED BY <3>1, <3>2, <3>3, <3>4 DEF ObservationsInv
        <2>11. ChainsInv'
            BY <2>3, <2>6 DEF ContinuityInv, ChainsInv, Gapless, Numbers
        <2>12. ASSUME NEW a, Founded(a), a.through \in Nat, Known(a.through, a.logical, a.wall)
               PROVE  Founded(a)'
            <3>1. a.through < m
                BY <2>4, <2>5, <2>12, Numeric DEF Known
            <3>2. \A n \in (a.through + 1)..top' : n \in Numbers(observations')
                BY <2>3, <2>4, <2>5, <2>12, Numeric DEF Founded, Numbers
            <3>3. \A o \in observations' : o.sealed =>
                      /\ Continues(o, a.through, a.logical)
                      /\ \A p \in observations' : p.sealed => Continues(o, p.sequence, p.logical)
                BY <2>3, <2>5, <2>12 DEF Founded
            <3>4. \A o \in observations' : o.sequence <= a.through =>
                      \E v \in Writers : /\ pc'[v] \in {"archiveWrite", "delete"}
                                         /\ o.sequence \in Numbers(chain'[v])
                BY <2>3, <2>5, <2>6, <2>12, <3>1 DEF Founded
            <3>5. \A v \in Writers : \A o \in chain'[v] :
                      /\ o.sequence > a.through => o \in observations'
                      /\ pc'[v] \in {"archiveWrite", "delete"} => o.sequence <= a.through
                BY <2>3, <2>6, <2>12 DEF Founded
            <3>6. QED BY <3>2, <3>3, <3>4, <3>5 DEF Founded, Continues
        <2>13. FoundedInv'
            BY <2>3, <2>4, <2>6, <2>7, <2>12, KeepFoundations
        <2>14. QED BY <2>9, <2>10, <2>11, <2>13 DEF ContinuityInv
    <1>3. QED BY <1>1, <1>2

LEMMA WriteContinuity ==
    ASSUME IInv, ContinuityInv, ~stale, NEW w \in Writers, Write(w)
    PROVE  ContinuityInv'
    <1>1. PICK n, u : n = next[w] /\ u = Unwritten(w)
        OBVIOUS
    <1>2. /\ pc[w] = "write" /\ pc' = [pc EXCEPT ![w] = "return"] /\ latest' = n
          /\ observations' = {IF o = u THEN n ELSE o : o \in observations}
          /\ UNCHANGED <<archives, base, chain, next, top>>
        BY <1>1 DEF Write, Step, view
    <1>3. /\ ChronologyInv /\ n.sequence = top /\ top = latest.sequence + 1
          /\ \A v \in Writers : pc[v] = "write" => v = w
        BY <1>1, <1>2 DEF IInv, ChronologyInv, SoleWriter
    <1>4. /\ u \in observations /\ ~u.sealed /\ u.sequence = n.sequence /\ n.sealed
          /\ n.previous = latest.logical /\ n.logical > latest.logical
        <2>1. u \in observations /\ n.previous = latest.logical
            BY <1>1, <1>2, <1>3 DEF ContinuityInv, ObservationsInv
        <2>2. n.sealed
            BY <1>1, Remembered
        <2>3. Follows(n)
            BY <1>1, <1>2, <1>3 DEF ChronologyInv, Informed
        <2>4. QED
            BY <1>1, <1>3, <2>1, <2>2, <2>3, Numeric DEF Unwritten, NoObservation, Follows
    <1>5. pc'[w] = "return" /\ \A v \in Writers \ {w} : pc'[v] = pc[v]
        BY <1>2 DEF IInv, TypeOK
    <1>6. /\ CurrentArchive' = CurrentArchive
          /\ \A v \in Writers : UnwrittenArchive(v)' = UnwrittenArchive(v)
                                /\ Unwritten(v)' = Unwritten(v)
        BY <1>2, SameArchives DEF UnwrittenArchive, Unwritten
    <1>7. n \in observations' /\ \A o \in observations : o # u => o \in observations'
        BY <1>2, <1>4
    <1>8. \A o \in observations' : o = n \/ (o \in observations /\ o # u)
        BY <1>2
    <1>9. \A o \in observations : o # u => o.sequence # n.sequence /\ o.sealed
        BY <1>1, <1>3, <1>4 DEF ContinuityInv, ObservationsInv
    <1>10. ArchivesInv'
        BY <1>2, <1>5, <1>6 DEF ContinuityInv, ArchivesInv
    <1>11. ObservationsInv'
        <2>1. IsFiniteSet(observations')
            <3>1. observations' \subseteq observations \cup {n}
                BY <1>8
            <3>2. IsFiniteSet(observations \cup {n})
                BY FS_AddElement DEF ContinuityInv, ObservationsInv
            <3>3. QED BY <3>1, <3>2, FS_Subset
        <2>2. \A o \in observations' : /\ \A p \in observations' : p.sequence = o.sequence => p = o
                                       /\ o.sealed
            BY <1>4, <1>8, <1>9 DEF ContinuityInv, ObservationsInv
        <2>3. \A v \in Writers : pc'[v] # "write"
            BY <1>3, <1>5
        <2>4. ASSUME NEW v \in Writers, pc'[v] = "create",
                     next'[v].sequence = latest'.sequence + 1
              PROVE  FALSE
            <3>1. pc[v] = "create" /\ next[v].sequence = latest.sequence + 2
                BY <1>2, <1>3, <1>5, <2>4, Numeric
            <3>2. Follows(next[v])
                BY <1>3, <3>1 DEF ChronologyInv, Informed
            <3>3. QED BY <3>1, <3>2, Numeric DEF Follows
        <2>5. QED BY <2>1, <2>2, <2>3, <2>4 DEF ObservationsInv
    <1>12. ChainsInv'
        BY <1>2, <1>5 DEF ContinuityInv, ChainsInv, Gapless, Numbers
    <1>13. ASSUME NEW a, Founded(a), a.through \in Nat, Known(a.through, a.logical, a.wall)
           PROVE  Founded(a)'
        <2>1. a.through < n.sequence
            BY <1>3, <1>13, Numeric DEF Known
        <2>2. \A i \in (a.through + 1)..top' : i \in Numbers(observations')
            <3>1. ASSUME NEW i \in (a.through + 1)..top PROVE i \in Numbers(observations')
                <4>1. PICK o \in observations : o.sequence = i
                    BY <1>13 DEF Founded, Numbers
                <4>2. QED BY <1>4, <1>7, <4>1 DEF Numbers
            <3>2. QED BY <1>2, <3>1
        <2>3. \A o \in observations : o # u =>
                  o.sequence \in Nat /\ Known(o.sequence, o.logical, o.wall)
            BY <1>3, <1>9, Numeric DEF ChronologyInv, FilesKnown
        <2>4. Continues(n, a.through, a.logical)
            BY <1>3, <1>4, <1>13, Numeric DEF Continues, Known
        <2>5. \A p \in observations : p # u => /\ Continues(n, p.sequence, p.logical)
                                               /\ Continues(p, n.sequence, n.logical)
            BY <1>3, <1>4, <2>3, Numeric DEF Continues, Known
        <2>6. \A o \in observations : \A p \in observations : o # u /\ p # u =>
                  /\ Continues(o, a.through, a.logical)
                  /\ Continues(o, p.sequence, p.logical)
            BY <1>9, <1>13 DEF Founded
        <2>7. Continues(n, n.sequence, n.logical)
            BY <1>3, Numeric DEF Continues
        <2>8. \A o \in observations' : o.sealed =>
                  /\ Continues(o, a.through, a.logical)
                  /\ \A p \in observations' : p.sealed => Continues(o, p.sequence, p.logical)
            BY <1>8, <2>4, <2>5, <2>6, <2>7
        <2>9. \A o \in observations' : o.sequence <= a.through =>
                  \E v \in Writers : /\ pc'[v] \in {"archiveWrite", "delete"}
                                     /\ o.sequence \in Numbers(chain'[v])
            <3>1. ~(n.sequence <= a.through)
                BY <1>3, <1>13, <2>1, Numeric
            <3>2. \A o \in observations' : o.sequence <= a.through => o \in observations
                BY <1>8, <3>1
            <3>3. \A v \in Writers : pc[v] \in {"archiveWrite", "delete"} =>
                      pc'[v] = pc[v] /\ chain'[v] = chain[v]
                BY <1>2, <1>5
            <3>4. QED BY <1>13, <3>2, <3>3 DEF Founded
        <2>10. \A v \in Writers : \A o \in chain'[v] :
                  /\ o.sequence > a.through => o \in observations'
                  /\ pc'[v] \in {"archiveWrite", "delete"} => o.sequence <= a.through
            BY <1>2, <1>4, <1>5, <1>7, <1>13, Held DEF Founded
        <2>11. QED BY <2>2, <2>8, <2>9, <2>10 DEF Founded, Continues
    <1>14. FoundedInv'
        BY <1>2, <1>5, <1>6, <1>13, KeepFoundations
    <1>15. QED BY <1>10, <1>11, <1>12, <1>14 DEF ContinuityInv

LEMMA DeleteContinuity ==
    ASSUME IInv, ContinuityInv, ~stale, NEW w \in Writers, Delete(w)
    PROVE  ContinuityInv'
    <1>1. PICK left : left = {o \in observations : o.sequence \in Numbers(chain[w])}
        OBVIOUS
    <1>2. PICK removed : removed = Min(Numbers(left))
        OBVIOUS
    <1>3. pc[w] = "delete" /\ UNCHANGED <<archives, base, chain, next, latest, top>>
        BY DEF Delete, view, history
    <1>4. \/ left = {} /\ pc' = [pc EXCEPT ![w] = "prune"] /\ observations' = observations
          \/ /\ left # {} /\ pc' = pc
             /\ observations' = {o \in observations : o.sequence # removed}
        BY <1>1, <1>2 DEF Delete
    <1>5. left # {} => removed \in Numbers(chain[w])
        <2>1. ASSUME left # {} PROVE removed \in Numbers(left)
            <3>1. Numbers(left) \in SUBSET Nat /\ Numbers(left) # {}
                BY <1>1, <2>1, Numeric DEF Numbers
            <3>2. QED BY <1>2, <3>1, MinIsLeast
        <2>2. QED BY <1>1, <2>1 DEF Numbers
    <1>6. \A o \in observations : o \in observations' \/ o.sequence \in Numbers(chain[w])
        BY <1>4, <1>5
    <1>7. observations' \subseteq observations
        BY <1>4
    <1>8. \A v \in Writers : pc'[v] = pc[v] \/ (v = w /\ pc'[v] = "prune" /\ left = {})
        BY <1>4 DEF IInv, TypeOK
    <1>9. /\ CurrentArchive' = CurrentArchive
          /\ \A v \in Writers : UnwrittenArchive(v)' = UnwrittenArchive(v)
                                /\ Unwritten(v)' = Unwritten(v)
        BY <1>3, SameArchives DEF UnwrittenArchive, Unwritten
    <1>10. ASSUME NEW a, Founded(a) PROVE \A s \in Numbers(chain[w]) : s <= a.through
        BY <1>3, <1>10 DEF Founded, Numbers
    <1>11. \A s \in Numbers(chain[w]) : s <= latest.sequence
        <2>1. PICK a : Founded(a) /\ a.through \in Nat /\ Known(a.through, a.logical, a.wall)
            BY SomeFoundation, FoundationKnown
        <2>2. Numbers(chain[w]) \subseteq Nat
            BY Numeric DEF Numbers
        <2>3. QED BY <1>10, <2>1, <2>2, Numeric DEF Known
    <1>12. ArchivesInv'
        BY <1>3, <1>8, <1>9 DEF ContinuityInv, ArchivesInv
    <1>13. ObservationsInv'
        <2>1. ASSUME NEW v \in Writers, pc'[v] = "write" PROVE Unwritten(v)' \in observations'
            <3>1. pc[v] = "write" /\ Unwritten(v) \in observations
                BY <1>8, <2>1 DEF ContinuityInv, ObservationsInv
            <3>2. Unwritten(v).sequence = latest.sequence + 1
                BY <3>1 DEF IInv, ChronologyInv, SoleWriter, Unwritten, NoObservation
            <3>3. Unwritten(v).sequence \notin Numbers(chain[w])
                BY <1>11, <3>2, Numeric
            <3>4. QED BY <1>6, <1>9, <3>1, <3>3
        <2>2. IsFiniteSet(observations')
            BY <1>7, FS_Subset DEF ContinuityInv, ObservationsInv
        <2>3. \A o \in observations' : /\ \A p \in observations' : p.sequence = o.sequence => p = o
                                       /\ ~o.sealed => \E v \in Writers : pc'[v] = "write"
                                                                          /\ o = Unwritten(v)'
            BY <1>3, <1>7, <1>8, <1>9 DEF ContinuityInv, ObservationsInv
        <2>4. \A v \in Writers :
                  pc'[v] \in {"create", "write"} /\ next'[v].sequence = latest'.sequence + 1
                      => next'[v].previous = latest'.logical
            BY <1>3, <1>8 DEF ContinuityInv, ObservationsInv
        <2>5. QED BY <2>1, <2>2, <2>3, <2>4 DEF ObservationsInv
    <1>14. ChainsInv'
        BY <1>3, <1>8 DEF ContinuityInv, ChainsInv, Gapless, Numbers
    <1>15. ASSUME NEW a, Founded(a), a.through \in Nat, Known(a.through, a.logical, a.wall)
           PROVE  Founded(a)'
        <2>1. \A s \in Numbers(chain[w]) : s <= a.through
            BY <1>10, <1>15
        <2>2. \A o \in observations : o.sequence > a.through => o \in observations'
            BY <1>6, <2>1, <1>15, Numeric
        <2>3. \A n \in (a.through + 1)..top' : n \in Numbers(observations')
            <3>1. ASSUME NEW n \in (a.through + 1)..top PROVE n \in Numbers(observations')
                <4>1. PICK o \in observations : o.sequence = n
                    BY <1>15 DEF Founded, Numbers
                <4>2. o.sequence > a.through
                    BY <1>15, <3>1, <4>1, Numeric
                <4>3. QED BY <2>2, <4>1, <4>2 DEF Numbers
            <3>2. QED BY <1>3, <3>1
        <2>4. \A o \in observations' : o.sealed =>
                  /\ Continues(o, a.through, a.logical)
                  /\ \A p \in observations' : p.sealed => Continues(o, p.sequence, p.logical)
            BY <1>7, <1>15 DEF Founded
        <2>5. ASSUME NEW o \in observations', o.sequence <= a.through
              PROVE  \E v \in Writers : /\ pc'[v] \in {"archiveWrite", "delete"}
                                        /\ o.sequence \in Numbers(chain'[v])
            <3>1. PICK v \in Writers : /\ pc[v] \in {"archiveWrite", "delete"}
                                       /\ o.sequence \in Numbers(chain[v])
                BY <1>7, <1>15, <2>5 DEF Founded
            <3>2. ~(v = w /\ left = {})
                BY <1>1, <1>7, <3>1
            <3>3. QED BY <1>3, <1>8, <3>1, <3>2
        <2>6. \A v \in Writers : \A o \in chain'[v] :
                  /\ o.sequence > a.through => o \in observations'
                  /\ pc'[v] \in {"archiveWrite", "delete"} => o.sequence <= a.through
            BY <1>3, <1>8, <1>15, <2>2 DEF Founded
        <2>7. QED BY <2>3, <2>4, <2>5, <2>6 DEF Founded, Continues
    <1>16. FoundedInv'
        BY <1>3, <1>8, <1>9, <1>15, KeepFoundations
    <1>17. QED BY <1>12, <1>13, <1>14, <1>16 DEF ContinuityInv

-----------------------------------------------------------------------------
(***************************************************************************)
(* Steps that change the archives.                                         *)
(***************************************************************************)
LEMMA CreateArchiveContinuity ==
    ASSUME IInv, ContinuityInv, ~reborn', NEW w \in Writers, CreateArchive(w)
    PROVE  ContinuityInv'
    <1>1. pc[w] = "archiveCreate"
        BY DEF CreateArchive
    <1>2. CASE Refuse(w)
        BY <1>1, <1>2, RefuseContinuity
    <1>3. CASE ~Refuse(w)
        <2>1. PICK u, current, new :
                  u = UnwrittenArchive(w) /\ current = CurrentArchive /\ new = NextArchive(w)
            OBVIOUS
        <2>2. /\ archives' = archives \cup {u} /\ pc' = [pc EXCEPT ![w] = "archiveWrite"]
              /\ UNCHANGED <<observations, base, chain, next, latest, top>>
              /\ \A a \in archives : a.generation # base[w].generation + 1
            BY <1>3, <2>1 DEF CreateArchive, view
        <2>3. ~ \E a \in archives : a.generation > base[w].generation + 1
            BY <1>3, Zenon DEF CreateArchive
        <2>4. /\ base[w].generation < MaxGeneration /\ base[w].generation \in 0..MaxGeneration
            BY <1>1, Remembered DEF IInv, BoundsInv, Bounded, Archive
        <2>5. u \in Archive /\ u.generation = base[w].generation + 1 /\ ~u.sealed
            <3>1. base[w].generation + 1 \in 0..MaxGeneration
                BY <2>4, Constants
            <3>2. QED BY <2>1, <3>1, Constants DEF UnwrittenArchive, NoArchive, Archive
        <2>6. archives \in SUBSET Archive /\ \A a \in archives : a.generation \in Nat
            BY Constants DEF IInv, TypeOK, Archive
        <2>7. base[w] = current /\ current.sealed /\ current.generation \in Nat
            <3>1. base[w].generation <= current.generation
                BY <2>1, Held
            <3>2. current.generation <= base[w].generation
                <4>1. CASE archives = {}
                    BY <2>1, <4>1, CurrentIsNewest, Numeric DEF NoArchive
                <4>2. CASE archives # {}
                    BY <2>1, <2>2, <2>3, <2>6, <4>2, CurrentIsNewest, Numeric
                <4>3. QED BY <4>1, <4>2
            <3>3. current.generation \in Nat
                BY <2>1, CurrentIsNewest, Constants DEF Archive
            <3>4. QED BY <1>1, <2>1, <3>1, <3>2, <3>3, Numeric, Held
        <2>8. \A v \in Writers : pc[v] # "archiveWrite"
            <3>1. ASSUME NEW v \in Writers, pc[v] = "archiveWrite" PROVE FALSE
                <4>1. current = UnwrittenArchive(v)
                    BY <2>1, <3>1 DEF ContinuityInv, ArchivesInv
                <4>2. ~UnwrittenArchive(v).sealed
                    BY DEF UnwrittenArchive, NoArchive
                <4>3. QED BY <2>7, <4>1, <4>2
            <3>2. QED BY <3>1
        <2>9. \A a \in archives : a.sealed
            BY <2>8 DEF ContinuityInv, ArchivesInv
        <2>10. pc'[w] = "archiveWrite" /\ \A v \in Writers \ {w} : pc'[v] = pc[v]
            BY <2>2 DEF IInv, TypeOK
        <2>11. \A v \in Writers : /\ UnwrittenArchive(v)' = UnwrittenArchive(v)
                                  /\ Unwritten(v)' = Unwritten(v)
                                  /\ NextArchive(v)' = NextArchive(v)
            BY <2>2 DEF UnwrittenArchive, Unwritten, NextArchive, Latest
        <2>12. \A a \in archives : a.generation < u.generation
            BY <2>1, <2>5, <2>6, <2>7, CurrentIsNewest
        <2>13. CurrentArchive' = u
            <3>1. Newest(archives') = u
                <4>1. PICK S : S = archives'
                    OBVIOUS
                <4>2. S \in SUBSET Archive /\ u \in S
                    BY <2>2, <2>5, <2>6, <4>1
                <4>3. \A a \in S : /\ a.generation <= u.generation
                                   /\ a.generation = u.generation => a = u
                    BY <2>2, <2>5, <2>6, <2>7, <2>12, <4>1
                <4>4. Newest(S) = u
                    BY <4>2, <4>3, NewestIs
                <4>5. QED BY <4>1, <4>4
            <3>2. QED BY <2>2, <3>1 DEF CurrentArchive
        <2>14. ArchivesInv'
            <3>1. \A a \in archives' :
                      /\ a.generation # 0
                      /\ \A b \in archives' : b.generation = a.generation => b = a
                      /\ ~a.sealed => a = u
                BY <2>2, <2>5, <2>6, <2>7, <2>9, <2>12 DEF ContinuityInv, ArchivesInv
            <3>2. \A v \in Writers : base'[v].generation < u.generation
                BY <2>1, <2>2, <2>5, <2>7, Held, Numeric
            <3>3. \A v \in Writers : pc'[v] = "archiveWrite" => v = w
                BY <2>8, <2>10
            <3>4. \A v \in Writers : pc'[v] \in {"archiveList", "archiveRead", "archiveCreate"} =>
                      base'[v].sealed
                BY <2>2, <2>10, Held
            <3>5. u.generation \in Nat /\ \A v \in Writers : base'[v].generation \in Nat
                BY <2>2, <2>5, <2>7, Numeric
            <3>6. \A v \in Writers :
                      /\ base'[v].generation <= CurrentArchive'.generation
                      /\ pc'[v] \in {"archiveList", "archiveRead", "archiveCreate"} =>
                            /\ base'[v].sealed
                            /\ base'[v].generation = CurrentArchive'.generation
                                  => base'[v] = CurrentArchive'
                      /\ pc'[v] = "archiveWrite" =>
                            /\ CurrentArchive' = UnwrittenArchive(v)'
                            /\ \A x \in Writers : pc'[x] = "archiveWrite" => x = v
                BY <2>1, <2>11, <2>13, <3>2, <3>3, <3>4, <3>5
            <3>7. QED BY <2>1, <2>10, <2>11, <3>1, <3>6 DEF ArchivesInv
        <2>15. ObservationsInv'
            BY <1>1, <2>2, <2>10, <2>11 DEF ContinuityInv, ObservationsInv
        <2>16. ChainsInv'
            BY <1>1, <2>2, <2>10 DEF ContinuityInv, ChainsInv, Gapless, Numbers
        <2>17. Founded(current) /\ current.through \in Nat
            <3>1. Founded(current)
                BY <2>1, <2>7 DEF ContinuityInv, FoundedInv
            <3>2. QED BY <2>1, <3>1, CurrentIsNewest, Constants DEF Archive
        <2>18. Gapless(current, chain[w]) /\ chain[w] # {}
            BY <1>1, <2>7 DEF ContinuityInv, ChainsInv
        <2>19. PICK last \in chain[w] :
                   /\ \A o \in chain[w] : o.sequence <= last.sequence
                   /\ new.through = last.sequence /\ new.logical = last.logical
            BY <2>1, <2>18, NextArchiveIs
        <2>20. /\ last.sequence > current.through /\ last.sequence \in Nat
               /\ last \in observations /\ last.sealed
            BY <2>17, <2>18, <2>19, Numeric, Held DEF Gapless, Founded
        <2>21. Founded(new)'
            <3>1. \A n \in (new.through + 1)..top' : n \in Numbers(observations')
                BY <2>2, <2>17, <2>19, <2>20, Numeric DEF Founded
            <3>2. \A o \in observations' : o.sealed =>
                      /\ Continues(o, new.through, new.logical)
                      /\ \A p \in observations' : p.sealed => Continues(o, p.sequence, p.logical)
                BY <2>2, <2>17, <2>19, <2>20 DEF Founded
            <3>3. ASSUME NEW o \in observations', o.sequence <= new.through
                  PROVE  \E v \in Writers : /\ pc'[v] \in {"archiveWrite", "delete"}
                                            /\ o.sequence \in Numbers(chain'[v])
                <4>1. CASE o.sequence <= current.through
                    <5>1. PICK v \in Writers : /\ pc[v] \in {"archiveWrite", "delete"}
                                               /\ o.sequence \in Numbers(chain[v])
                        BY <2>2, <2>17, <4>1 DEF Founded
                    <5>2. QED BY <1>1, <2>2, <2>10, <5>1
                <4>2. CASE ~(o.sequence <= current.through)
                    <5>1. o.sequence \in (current.through + 1)..last.sequence
                        BY <2>2, <2>17, <2>19, <2>20, <3>3, <4>2, Numeric
                    <5>2. o.sequence \in Numbers(chain[w])
                        BY <2>18, <2>19, <5>1 DEF Gapless
                    <5>3. QED BY <2>2, <2>10, <5>2
                <4>3. QED BY <4>1, <4>2
            <3>4. ASSUME NEW v \in Writers, NEW o \in chain'[v]
                  PROVE  /\ o.sequence > new.through => o \in observations'
                         /\ pc'[v] \in {"archiveWrite", "delete"} => o.sequence <= new.through
                <4>1. o \in chain[v] /\ o.sequence \in Nat
                    BY <2>2, Numeric
                <4>2. o.sequence > new.through => o \in observations'
                    BY <2>2, <2>17, <2>19, <2>20, <4>1 DEF Founded
                <4>3. CASE v = w
                    BY <2>19, <4>1, <4>2, <4>3
                <4>4. CASE v # w
                    BY <2>10, <2>17, <2>19, <2>20, <4>1, <4>2, <4>4 DEF Founded
                <4>5. QED BY <4>3, <4>4
            <3>5. QED BY <3>1, <3>2, <3>3, <3>4 DEF Founded, Continues
        <2>22. FoundedInv'
            <3>1. NextArchive(w)' = new /\ \A v \in Writers : pc'[v] = "archiveWrite" => v = w
                BY <2>1, <2>8, <2>10, <2>11
            <3>2. Founded(NextArchive(w))'
                BY <2>21, <3>1
            <3>3. ~CurrentArchive'.sealed
                BY <2>5, <2>13
            <3>4. QED BY <3>1, <3>2, <3>3 DEF FoundedInv
        <2>23. QED BY <2>14, <2>15, <2>16, <2>22 DEF ContinuityInv
    <1>4. QED BY <1>2, <1>3

LEMMA WriteArchiveContinuity ==
    ASSUME IInv, ContinuityInv, NEW w \in Writers, WriteArchive(w)
    PROVE  ContinuityInv'
    <1>1. PICK u, new : u = UnwrittenArchive(w) /\ new = NextArchive(w)
        OBVIOUS
    <1>2. /\ pc[w] = "archiveWrite" /\ pc' = [pc EXCEPT ![w] = "delete"]
          /\ archives' = {IF a = u THEN new ELSE a : a \in archives}
          /\ UNCHANGED <<observations, base, chain, next, latest, top>>
        BY <1>1 DEF WriteArchive, Step, view, history
    <1>3. CurrentArchive = u /\ \A v \in Writers : pc[v] = "archiveWrite" => v = w
        BY <1>1, <1>2 DEF ContinuityInv, ArchivesInv
    <1>4. ~u.sealed /\ u.generation = base[w].generation + 1
        BY <1>1, Remembered DEF UnwrittenArchive, NoArchive
    <1>5. u \in archives
        BY <1>3, <1>4, CurrentIsNewest DEF NoArchive
    <1>6. PICK last \in chain[w] : new = [generation |-> base[w].generation + 1, sealed |-> TRUE,
                      through |-> last.sequence, wall |-> last.wall, logical |-> last.logical]
        BY <1>1, <1>2, NextArchiveIs DEF ContinuityInv, ChainsInv
    <1>7. new.generation = u.generation /\ new.sealed
        BY <1>4, <1>6
    <1>8. archives \in SUBSET Archive /\ new \in Archive /\ u.generation \in Nat
        <2>1. archives \in SUBSET Archive /\ last \in Observation
            BY Remembered DEF IInv, TypeOK
        <2>2. u.generation \in 0..MaxGeneration
            BY <1>5, <2>1 DEF Archive
        <2>3. QED BY <1>4, <1>6, <2>1, <2>2, Constants DEF Archive, Observation
    <1>9. new \in archives' /\ \A a \in archives : a # u => a \in archives'
        BY <1>2, <1>5
    <1>10. \A a \in archives' : a = new \/ (a \in archives /\ a # u)
        BY <1>2
    <1>11. \A a \in archives : a # u => /\ a.generation <= u.generation
                                        /\ a.generation # u.generation
                                        /\ a.sealed
        <2>1. ASSUME NEW a \in archives, a # u PROVE a.generation # u.generation /\ a.sealed
            <3>1. a.generation # u.generation
                BY <1>5, <2>1 DEF ContinuityInv, ArchivesInv
            <3>2. ASSUME ~a.sealed PROVE FALSE
                <4>1. PICK v \in Writers : pc[v] = "archiveWrite" /\ a = UnwrittenArchive(v)
                    BY <3>2 DEF ContinuityInv, ArchivesInv
                <4>2. QED BY <1>1, <1>3, <2>1, <4>1
            <3>3. QED BY <3>1, <3>2
        <2>2. QED BY <1>3, <2>1, CurrentIsNewest
    <1>12. CurrentArchive' = new
        <2>1. PICK S : S = archives'
            OBVIOUS
        <2>2. S \in SUBSET Archive /\ new \in S
            BY <1>8, <1>9, <1>10, <2>1
        <2>3. \A a \in S : a.generation <= new.generation
            BY <1>7, <1>8, <1>10, <1>11, <2>1
        <2>4. \A a \in S : a.generation = new.generation => a = new
            BY <1>7, <1>10, <1>11, <2>1
        <2>5. Newest(S) = new
            BY <2>2, <2>3, <2>4, NewestIs
        <2>6. QED BY <2>1, <2>2, <2>5 DEF CurrentArchive
    <1>13. pc'[w] = "delete" /\ \A v \in Writers \ {w} : pc'[v] = pc[v]
        BY <1>2 DEF IInv, TypeOK
    <1>14. \A v \in Writers : Unwritten(v)' = Unwritten(v)
        BY <1>2 DEF Unwritten
    <1>15. \A v \in Writers : pc'[v] # "archiveWrite"
        BY <1>3, <1>13
    <1>16. ArchivesInv'
        <2>1. \A a \in archives' :
                  /\ a.generation # 0
                  /\ \A b \in archives' : b.generation = a.generation => b = a
                  /\ a.sealed
            BY <1>5, <1>7, <1>10, <1>11 DEF ContinuityInv, ArchivesInv
        <2>2. \A v \in Writers : pc'[v] \in {"archiveList", "archiveRead", "archiveCreate"} =>
                  base'[v].sealed /\ base'[v].generation # new.generation
            BY <1>2, <1>3, <1>4, <1>7, <1>13, Held
        <2>3. \A v \in Writers : base'[v].generation <= new.generation
            BY <1>2, <1>3, <1>7, Held
        <2>4. QED BY <1>12, <1>15, <2>1, <2>2, <2>3 DEF ArchivesInv
    <1>17. ObservationsInv'
        BY <1>2, <1>13, <1>14 DEF ContinuityInv, ObservationsInv
    <1>18. ChainsInv'
        BY <1>2, <1>13 DEF ContinuityInv, ChainsInv, Gapless, Numbers
    <1>19. Founded(new)'
        <2>1. Founded(new)
            BY <1>1, <1>2 DEF ContinuityInv, FoundedInv
        <2>2. QED BY <1>2, <1>13, <2>1 DEF Founded, Numbers, Continues
    <1>20. FoundedInv'
        BY <1>12, <1>15, <1>19 DEF FoundedInv
    <1>21. QED BY <1>16, <1>17, <1>18, <1>20 DEF ContinuityInv

\* The newest archive is never pruned.
LEMMA PruneContinuity ==
    ASSUME IInv, ContinuityInv, NEW w \in Writers, Prune(w)
    PROVE  ContinuityInv'
    <1>1. /\ pc[w] = "prune" /\ Finish(w) /\ UNCHANGED <<observations, latest, top>>
          /\ archives' = {a \in archives :
                            Cardinality({b \in archives : b.generation > a.generation}) < Keep}
        BY DEF Prune, history
    <1>2. PICK current : current = CurrentArchive
        OBVIOUS
    <1>3. archives \in SUBSET Archive
        BY DEF IInv, TypeOK
    <1>4. CASE archives = {}
        <2>1. CurrentArchive' = CurrentArchive /\ archives' \subseteq archives
            BY <1>1, <1>4 DEF CurrentArchive
        <2>2. QED BY <1>1, <2>1, FinishContinuity
    <1>5. CASE archives # {}
        <2>1. /\ current \in archives /\ \A a \in archives : a.generation <= current.generation
              /\ current.generation \in Nat
            BY <1>2, <1>3, <1>5, CurrentIsNewest, Constants DEF Archive
        <2>2. {b \in archives : b.generation > current.generation} = {}
            <3>1. \A b \in archives : b.generation \in Nat
                BY <1>3, Constants DEF Archive
            <3>2. QED BY <2>1, <3>1
        <2>3. current \in archives'
            <3>1. Cardinality({}) = 0 /\ Keep > 0
                BY FS_EmptySet, ClockAssumption
            <3>2. QED BY <1>1, <2>1, <2>2, <3>1
        <2>4. archives' \subseteq archives
            BY <1>1
        <2>5. PICK S : S = archives'
            OBVIOUS
        <2>6. \A a \in S : /\ a.generation <= current.generation
                           /\ a.generation = current.generation => a = current
            BY <2>1, <2>4, <2>5 DEF ContinuityInv, ArchivesInv
        <2>7. S \in SUBSET Archive /\ current \in S
            BY <1>3, <2>3, <2>4, <2>5
        <2>8. Newest(S) = current
            BY <2>6, <2>7, NewestIs
        <2>9. CurrentArchive' = current
            BY <2>5, <2>7, <2>8 DEF CurrentArchive
        <2>10. QED BY <1>1, <1>2, <2>4, <2>9, FinishContinuity
    <1>6. QED BY <1>4, <1>5

-----------------------------------------------------------------------------
(***************************************************************************)
(* The clock at rest can be read.                                          *)
(***************************************************************************)
LEMMA InitRestInv ==
    ASSUME Init
    PROVE  RestInv
    <1>1. CurrentArchive = NoArchive /\ NoArchive.sealed
        BY DEF Init, CurrentArchive, NoArchive
    <1>2. ArchivesInv
        BY <1>1 DEF Init, ArchivesInv, NoArchive
    <1>3. ObservationsInv
        BY FS_EmptySet DEF Init, ObservationsInv
    <1>4. ChainsInv
        BY FS_EmptySet DEF Init, ChainsInv
    <1>5. Founded(NoArchive)
        BY DEF Init, Founded, NoArchive
    <1>6. FoundedInv
        BY <1>1, <1>5 DEF Init, FoundedInv
    <1>7. QED BY <1>2, <1>3, <1>4, <1>6, InitIInv DEF RestInv, ContinuityInv

LEMMA StepContinuity ==
    ASSUME IInv, ContinuityInv, Undisturbed, Undisturbed', [Next]_vars
    PROVE  ContinuityInv'
    <1> ~stale /\ ~stale' /\ ~reborn' /\ ~crashed'
        BY DEF Undisturbed
    <1>1. ASSUME NEW w \in Writers, Observe(w) PROVE ContinuityInv'
        <2>1. ASSUME Return(w) PROVE ContinuityInv'
            BY <2>1, FinishContinuity, SameArchives DEF Return, files, history
        <2>2. QED
            BY <1>1, <2>1, BeginContinuity, ListArchivesContinuity, ReadArchiveContinuity,
               ListObservationsContinuity, ReadObservationContinuity, DecideContinuity,
               CreateContinuity, WriteContinuity
            DEF Observe
    <1>2. ASSUME NEW w \in Writers, ArchiveClock(w) PROVE ContinuityInv'
        BY <1>2, BeginContinuity, ListArchivesContinuity, ReadArchiveContinuity,
           ListObservationsContinuity, ReadObservationContinuity, DecideArchiveContinuity,
           CreateArchiveContinuity, WriteArchiveContinuity, DeleteContinuity, PruneContinuity
        DEF ArchiveClock
    <1>3. ASSUME NEW w \in Writers, Crash(w) PROVE FALSE
        BY <1>3 DEF Crash
    <1>4. CASE UNCHANGED vars
        <2>1. /\ UNCHANGED <<observations, archives, pc, base, chain, next, latest, top>>
              /\ CurrentArchive' = CurrentArchive
            BY <1>4, SameArchives DEF vars
        <2>2. \A w \in Writers : /\ UnwrittenArchive(w)' = UnwrittenArchive(w)
                                /\ Unwritten(w)' = Unwritten(w)
            BY <2>1 DEF UnwrittenArchive, Unwritten
        <2>3. ArchivesInv' /\ ObservationsInv' /\ ChainsInv'
            BY <2>1, <2>2
            DEF ContinuityInv, ArchivesInv, ObservationsInv, ChainsInv, Gapless, Numbers
        <2>4. FoundedInv'
            <3>1. \A a : Founded(a) => Founded(a)'
                BY <2>1 DEF Founded, Numbers, Continues
            <3>2. QED BY <2>1, <3>1, KeepFoundations
        <2>5. QED BY <2>3, <2>4 DEF ContinuityInv
    <1>5. QED BY <1>1, <1>2, <1>3, <1>4 DEF Next

\* A disturbance is never forgotten.
LEMMA DisturbanceStays ==
    ASSUME [Next]_vars, Undisturbed'
    PROVE  Undisturbed
    <1>1. ~stale
        BY StaleStays DEF Undisturbed
    <1>2. \/ UNCHANGED <<crashed, reborn>>
          \/ \E w \in Writers : Crash(w) \/ CreateArchive(w)
        BY DEF Next, Observe, ArchiveClock, Crash, vars, history, BeginObserve, BeginArchive,
               ListArchives, ReadArchive, ListObservations, ReadObservation, Decide, Create, Write,
               Return, DecideArchive, WriteArchive, Delete, Prune, Refuse
    <1>3. ASSUME NEW w \in Writers, CreateArchive(w) PROVE ~crashed /\ ~reborn
        BY <1>3, Zenon DEF CreateArchive, Refuse, history, Undisturbed
    <1>4. QED BY <1>1, <1>2, <1>3 DEF Undisturbed, Crash

LEMMA StepRestInv ==
    ASSUME RestInv, [Next]_vars
    PROVE  RestInv'
    BY StepIInv, DisturbanceStays, StepContinuity DEF RestInv

LEMMA RestReadable ==
    ASSUME RestInv, AtRest, Undisturbed
    PROVE  Readable
    <1> IInv /\ ContinuityInv /\ ~stale
        BY DEF RestInv, Undisturbed
    <1>1. \A w \in Writers : pc[w] \notin {"write", "archiveWrite", "delete"}
        BY DEF AtRest
    <1>2. PICK a : Foundation(a)
        BY SomeFoundation
    <1>3. /\ a = CurrentArchive /\ a.sealed
          /\ Founded(a) /\ a.through \in Nat /\ Known(a.through, a.logical, a.wall)
        BY <1>1, <1>2, FoundationKnown DEF Foundation
    <1>4. \A o \in observations : o.sealed /\ o.sequence \in Nat /\ o.sequence > a.through
        BY <1>1, <1>3, Numeric DEF ContinuityInv, ObservationsInv, Founded
    <1>5. \A o \in observations : o.sequence <= top
        BY <1>4, Numeric DEF IInv, ChronologyInv, FilesKnown, Known
    <1>6. ASSUME NEW o \in observations
          PROVE  LET before == Before(a, observations, o) IN
                   /\ o.sequence = before.sequence + 1
                   /\ o.previous = before.logical /\ o.logical > before.logical
        <2>1. PICK below : below = {p \in observations : p.sequence < o.sequence}
            OBVIOUS
        <2>2. PICK before : before = Latest(a, below) /\ before = Before(a, observations, o)
            BY <2>1 DEF Before
        <2>3. \A n \in (a.through + 1)..(o.sequence - 1) : \E p \in below : p.sequence = n
            <3>1. ASSUME NEW n \in (a.through + 1)..(o.sequence - 1)
                  PROVE  \E p \in below : p.sequence = n
                <4>1. n \in (a.through + 1)..top /\ n < o.sequence
                    BY <1>3, <1>4, <1>5, Numeric
                <4>2. QED BY <1>3, <2>1, <4>1 DEF Founded, Numbers
            <3>2. QED BY <3>1
        <2>4. CASE below = {}
            <3>1. o.sequence = a.through + 1
                BY <1>3, <1>4, <2>3, <2>4
            <3>2. before.sequence = a.through /\ before.logical = a.logical
                BY <1>3, <2>2, <2>4, CurrentIsNewest, LatestOfNone
            <3>3. QED BY <1>3, <1>4, <2>2, <3>1, <3>2 DEF Founded, Continues
        <2>5. CASE below # {}
            <3>1. before \in below /\ \A p \in below : p.sequence <= before.sequence
                <4>1. below \in SUBSET Observation
                    BY <2>1 DEF IInv, TypeOK
                <4>2. QED BY <2>2, <2>5, <4>1, LatestOfSome
            <3>2. before \in observations /\ before.sequence < o.sequence
                BY <2>1, <3>1
            <3>3. o.sequence = before.sequence + 1
                <4>1. o.sequence - 1 \in (a.through + 1)..(o.sequence - 1)
                    BY <1>3, <1>4, <3>2
                <4>2. o.sequence - 1 <= before.sequence
                    BY <2>3, <3>1, <4>1
                <4>3. QED BY <1>4, <3>2, <4>2
            <3>4. QED BY <1>3, <1>4, <2>2, <3>2, <3>3 DEF Founded, Continues
        <2>6. QED BY <2>4, <2>5
    <1>7. QED BY <1>3, <1>4, <1>6 DEF Readable, ValidChain

\* Whatever observations and archivings overlapped, once they are over the
\* current archive is complete and continued by the observations, so that
\* inspectLeaseClock accepts them: unless a process exited in the middle of an
\* operation, or used the number of an observation or an archive again.
THEOREM ReadableWheneverAtRest == Spec => []ReadableAtRest
    <1>1. Spec => []RestInv
        BY InitRestInv, StepRestInv, PTL DEF Spec
    <1>2. RestInv => ReadableAtRest
        BY RestReadable DEF ReadableAtRest
    <1>3. QED BY <1>1, <1>2, PTL
=============================================================================
