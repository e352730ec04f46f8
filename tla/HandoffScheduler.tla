-------------------------- MODULE HandoffScheduler --------------------------
(***************************************************************************)
(* The handoff scheduler (scheduler.js, mailbox.js, events.js, arrival.js):*)
(* a signal spreads from cell to cell as handoffs, which a schedule keeps  *)
(* in an ordered queue, or in the mailbox of a busy recipient, and works   *)
(* off in drains that the caller may repeat.                               *)
(*                                                                         *)
(* A drain is one synchronous call: nothing else runs until it ends.  Its  *)
(* sweep and each turn of its loop are a step here.  Between drains cells  *)
(* become busy and dormant, events commit and other schedules start.       *)
(*                                                                         *)
(* A handoff's eventId names its cause, depth, sender and recipient, and   *)
(* its arrival key the cause and the recipient, so that each check of the  *)
(* eventId is implied by the check of the arrival key beside it.  All      *)
(* handoffs are those of neighborHandoffs and deriveNextHandoffs: their    *)
(* fields are present and their source revision is not in the future.     *)
(* Specialists, perceptions and memory (which does not throw here: a cell  *)
(* in repair is busy) change nothing the scheduler reads.                  *)
(***************************************************************************)
EXTENDS Integers, FiniteSets, FiniteSetsExt

CONSTANTS
    Jobs,             \* the schedules that may be started
    Causes,           \* the events that emit a signal, numbers for their order
    Origin,           \* the cell of each cause
    Width, Height,    \* the grid of cells
    HopLimit,         \* hopLimit of the signals
    MaxMailbox,       \* maxMailboxSize
    MaxRetries,       \* maxDeferredRetries
    Ttl,              \* deferredTtlEpochs
    ArrivalModes,     \* the values of processArrivals in use
    QueueSizes,       \* the values of maxQueueSize in use
    Budgets,          \* the values of maxProcessed in use
    BusyCells,        \* bound: cells that are busy at times
    MaxRevision       \* bound: events committed

\* Cells are numbered in the order of their ids C_x_y.
Cells == 0..(Width * Height - 1)

ASSUME SchedulerAssumption ==
    /\ Width \in Nat \ {0} /\ Height \in Nat \ {0}
    /\ Causes \subseteq Nat \ {0}
    /\ Origin \in [Causes -> Cells]
    /\ HopLimit \in Nat \ {0}
    /\ {MaxMailbox, MaxRetries, Ttl} \subseteq Nat \ {0}
    /\ ArrivalModes \subseteq BOOLEAN
    /\ QueueSizes \subseteq Nat \ {0}
    /\ Budgets \subseteq Nat \ {0}
    /\ BusyCells \subseteq Cells
    /\ MaxRevision \in Nat

VARIABLES
    busy,        \* cells whose wakeState is not DORMANT
    revision,    \* the canonical revision of the world
    seen,        \* seenEventIds (and with them seenArrivalKeys)
    deferred,    \* the entries of all mailboxes
    job,         \* what each schedule was started with, NoJob before
    queue,       \* the queue of each schedule
    count,       \* the counters of each schedule
    status,      \* the status of each schedule
    draining,    \* the schedule whose drain runs, in a set; {} between drains
    budget,      \* handoffs the running drain may still process
    lost         \* history: arrivals a schedule dropped, with the schedule

vars == <<busy, revision, seen, deferred, job, queue, count, status,
          draining, budget, lost>>

Event == [cause : Causes, depth : 1..HopLimit, sender : Cells, recipient : Cells]
Handoff == [cause : Causes, depth : 1..HopLimit, sender : Cells, recipient : Cells,
            path : SUBSET Cells]
Entry == [job : Jobs, handoff : Handoff, left : 1..Ttl, retries : 0..MaxRetries]
Options == [cause : Causes, arrivals : BOOLEAN, maxQueue : QueueSizes, revision : Nat]
NoJob == [cause |-> 0, arrivals |-> FALSE, maxQueue |-> 0, revision |-> 0]

Counters == {"initial", "generated", "coalesced", "droppedByQueue", "accepted",
             "rejected", "deferred", "released", "expired", "exhausted",
             "cancelled", "droppedByMailbox", "duplicate"}
Statuses == {"PENDING", "AUTHORITY_BREACH", "BUDGET_EXHAUSTED",
             "DEFERRED_DELIVERY_EXHAUSTED", "WAITING_FOR_DEFERRED_DELIVERY",
             "DRAINED"}

-----------------------------------------------------------------------------
X(c) == c \div Height
Y(c) == c % Height
Distance(c, d) == Max({X(c) - X(d), X(d) - X(c)}) + Max({Y(c) - Y(d), Y(d) - Y(c)})
Neighbours(c) == {d \in Cells : Distance(c, d) = 1}

\* handoffArrivalKey, handoffEventId.
Arrival(h) == [cause |-> h.cause, recipient |-> h.recipient]
EventId(h) == [cause |-> h.cause, depth |-> h.depth, sender |-> h.sender,
               recipient |-> h.recipient]

Arrivals(S) == {Arrival(h) : h \in S}
SeenArrivals == Arrivals(seen)
DeferredArrivals == {Arrival(e.handoff) : e \in deferred}

\* compareHandoffs: by depth, cause, sender and recipient.
Precedes(g, h) ==
    \/ g.depth < h.depth
    \/ g.depth = h.depth /\ g.cause < h.cause
    \/ g.depth = h.depth /\ g.cause = h.cause /\ g.sender < h.sender
    \/ /\ g.depth = h.depth /\ g.cause = h.cause
       /\ g.sender = h.sender /\ g.recipient < h.recipient

\* The first n of S; all of them if there are fewer.
FirstOf(S, n) == {h \in S : Cardinality({g \in S : Precedes(g, h)}) < n}

NextInQueue(j) == CHOOSE h \in queue[j] : \A g \in queue[j] \ {h} : Precedes(h, g)

\* neighborHandoffs.
Signal(c) ==
    {[cause |-> c, depth |-> 1, sender |-> Origin[c], recipient |-> d,
      path |-> {Origin[c]}] : d \in Neighbours(Origin[c])}

\* Fault: the hop limit is reached one hop early.
OneHopShort(h) ==
    IF h.depth + 1 >= HopLimit
      THEN {}
      ELSE {[cause |-> h.cause, depth |-> h.depth + 1, sender |-> h.recipient,
             recipient |-> d, path |-> h.path \cup {h.recipient}]
              : d \in Neighbours(h.recipient)}

\* deriveNextHandoffs.
NextHandoffs(h) ==
    IF h.depth >= HopLimit
      THEN {}
      ELSE {[cause |-> h.cause, depth |-> h.depth + 1, sender |-> h.recipient,
             recipient |-> d, path |-> h.path \cup {h.recipient}]
              : d \in Neighbours(h.recipient)}

\* Fault: the ledger of arrivals is not consulted.
UnlessSameEvent(h) == EventId(h) \notin seen /\ h.recipient \notin h.path

\* inspectHandoff.
Admissible(h) ==
    /\ EventId(h) \notin seen
    /\ h.recipient \notin h.path
    /\ Arrival(h) \notin SeenArrivals

-----------------------------------------------------------------------------
Init ==
    /\ busy = {}
    /\ revision = 0
    /\ seen = {}
    /\ deferred = {}
    /\ job = [j \in Jobs |-> NoJob]
    /\ queue = [j \in Jobs |-> {}]
    /\ count = [j \in Jobs |-> [c \in Counters |-> 0]]
    /\ status = [j \in Jobs |-> "PENDING"]
    /\ draining = {}
    /\ budget = 0
    /\ lost = {}

\* addRunToJob: each counter of j grows by what the step says.
Tally(j, growth) ==
    count' = [count EXCEPT ![j] =
                [c \in Counters |-> @[c] + IF c \in DOMAIN growth THEN growth[c] ELSE 0]]

Lose(j, handoffs) ==
    lost' = lost \cup {[job |-> j, arrival |-> a] : a \in Arrivals(handoffs)}

\* enqueueIntoJob: of the candidates that are neither seen nor queued here nor
\* deferred anywhere, as many as the queue has room for.
Fresh(candidates, q, s) ==
    {h \in candidates : Arrival(h) \notin Arrivals(s) \cup Arrivals(q) \cup DeferredArrivals}

Fitting(fresh, q, size) == FirstOf(fresh, size - Cardinality(q))

-----------------------------------------------------------------------------
\* startHandoffSchedule; with the options of an existing job it returns that one.
\* The limits of mailboxes, retries and lifetimes are the same for all schedules.
Start(j, c, a, size) ==
    LET options == [cause |-> c, arrivals |-> a, maxQueue |-> size, revision |-> revision]
        fresh   == Fresh(Signal(c), {}, seen)
        fitting == Fitting(fresh, {}, size)
    IN  /\ draining = {}
        /\ job[j] = NoJob
        /\ \A k \in Jobs : job[k] # options
        /\ job' = [job EXCEPT ![j] = options]
        /\ queue' = [queue EXCEPT ![j] = fitting]
        /\ Tally(j, [initial |-> Cardinality(Signal(c)),
                     coalesced |-> Cardinality(Signal(c) \ fresh),
                     droppedByQueue |-> Cardinality(fresh \ fitting)])
        /\ Lose(j, fresh \ fitting)
        /\ UNCHANGED <<busy, revision, seen, deferred, status, draining, budget>>

\* sweepDeferredMailboxes: the fate of j's entries in the epoch that begins.
Entries(j) == {e \in deferred : e.job = j}
Cancelled(j) == {e \in Entries(j) : Arrival(e.handoff) \in SeenArrivals}
Expired(j) == {e \in Entries(j) \ Cancelled(j) : e.left = 1}
Waiting(j) == Entries(j) \ (Cancelled(j) \cup Expired(j))
Ready(j) == {e \in Waiting(j) : e.handoff.recipient \notin busy}
Exhausted(j) == {e \in Waiting(j) \ Ready(j) : e.retries + 1 >= MaxRetries}

\* Mailboxes are swept in the order of their cells.
SweptBefore(e, f) ==
    \/ e.handoff.recipient < f.handoff.recipient
    \/ e.handoff.recipient = f.handoff.recipient /\ Precedes(e.handoff, f.handoff)

Room(j) == job[j].maxQueue - Cardinality(queue[j])

\* Fault: everything that is ready is released.
AllReady(j) == Ready(j)

Released(j) ==
    {e \in Ready(j) : Cardinality({f \in Ready(j) : SweptBefore(f, e)}) < Room(j)}

\* Fault: what is ready and does not fit is not kept.
OnlyBusy(j) ==
    {[e EXCEPT !.left = @ - 1, !.retries = @ + 1]
       : e \in Waiting(j) \ (Ready(j) \cup Exhausted(j))}

\* Fault: what is released stays in its mailbox.
AllWaiting(j) ==
    {[e EXCEPT !.left = @ - 1,
               !.retries = IF e \in Ready(j) THEN @ ELSE @ + 1]
       : e \in Waiting(j) \ Exhausted(j)}

Retained(j) ==
    {[e EXCEPT !.left = @ - 1,
               !.retries = IF e \in Ready(j) THEN @ ELSE @ + 1]
       : e \in Waiting(j) \ (Released(j) \cup Exhausted(j))}

HandoffsOf(entries) == {e.handoff : e \in entries}

\* drainHandoffSchedule: the next epoch, its sweep, and what it released.
BeginDrain(j, maxProcessed) ==
    /\ draining = {}
    /\ job[j] # NoJob
    /\ draining' = {j}
    /\ budget' = maxProcessed
    /\ deferred' = (deferred \ Entries(j)) \cup Retained(j)
    /\ queue' = [queue EXCEPT ![j] = @ \cup HandoffsOf(Released(j))]
    /\ Tally(j, [released  |-> Cardinality(Released(j)),
                 expired   |-> Cardinality(Expired(j)),
                 exhausted |-> Cardinality(Exhausted(j)),
                 cancelled |-> Cardinality(Cancelled(j))])
    /\ Lose(j, HandoffsOf(Expired(j) \cup Exhausted(j)))
    /\ UNCHANGED <<busy, revision, seen, job, status>>

-----------------------------------------------------------------------------
\* Fault: the limit is not checked.
TakeAnyway(j, h) ==
    /\ draining = {j}
    /\ queue[j] # {}
    /\ h = NextInQueue(j)
    /\ budget' = budget - 1
    /\ UNCHANGED <<busy, revision, job, status, draining>>

\* One turn of the loop takes h, the first handoff of the queue.
Take(j, h) ==
    /\ draining = {j}
    /\ budget > 0
    /\ queue[j] # {}
    /\ h = NextInQueue(j)
    /\ budget' = budget - 1
    /\ UNCHANGED <<busy, revision, job, status, draining>>

Dequeue(j, h) == queue' = [queue EXCEPT ![j] = @ \ {h}]

MustWait(j, h) == Admissible(h) /\ job[j].arrivals /\ h.recipient \in busy

Mailbox(c) == {e \in deferred : e.handoff.recipient = c}

Reject(j, h) ==
    /\ Take(j, h)
    /\ ~Admissible(h)
    /\ Dequeue(j, h)
    /\ Tally(j, [rejected |-> 1])
    /\ UNCHANGED <<seen, deferred, lost>>

\* Fault: a busy handoff goes back into the queue.
Requeue(j, h) ==
    /\ Take(j, h)
    /\ MustWait(j, h)
    /\ UNCHANGED <<queue, count, seen, deferred, lost>>

\* deferBusyHandoff.
Defer(j, h) ==
    /\ Take(j, h)
    /\ MustWait(j, h)
    /\ Arrival(h) \notin DeferredArrivals
    /\ Cardinality(Mailbox(h.recipient)) < MaxMailbox
    /\ deferred' = deferred \cup {[job |-> j, handoff |-> h, left |-> Ttl, retries |-> 0]}
    /\ Dequeue(j, h)
    /\ Tally(j, [deferred |-> 1])
    /\ UNCHANGED <<seen, lost>>

DeferDuplicate(j, h) ==
    /\ Take(j, h)
    /\ MustWait(j, h)
    /\ Arrival(h) \in DeferredArrivals
    /\ Dequeue(j, h)
    /\ Tally(j, [duplicate |-> 1])
    /\ UNCHANGED <<seen, deferred, lost>>

\* Fault: the drop is counted as a deferral.
DropAsDeferred(j, h) ==
    /\ Take(j, h)
    /\ MustWait(j, h)
    /\ Arrival(h) \notin DeferredArrivals
    /\ Cardinality(Mailbox(h.recipient)) >= MaxMailbox
    /\ Dequeue(j, h)
    /\ Tally(j, [deferred |-> 1])
    /\ Lose(j, {h})
    /\ UNCHANGED <<seen, deferred>>

DropByMailbox(j, h) ==
    /\ Take(j, h)
    /\ MustWait(j, h)
    /\ Arrival(h) \notin DeferredArrivals
    /\ Cardinality(Mailbox(h.recipient)) >= MaxMailbox
    /\ Dequeue(j, h)
    /\ Tally(j, [droppedByMailbox |-> 1])
    /\ Lose(j, {h})
    /\ UNCHANGED <<seen, deferred>>

\* acceptHandoff and processAcceptedHandoff (or deriveNextHandoffs alone): the
\* recipient wakes, relays and sleeps again before the next turn.
Accept(j, h) ==
    LET rest    == queue[j] \ {h}
        next    == NextHandoffs(h)
        fresh   == Fresh(next, rest, seen \cup {EventId(h)})
        fitting == Fitting(fresh, rest, job[j].maxQueue)
    IN  /\ Take(j, h)
        /\ Admissible(h)
        /\ ~MustWait(j, h)
        /\ seen' = seen \cup {EventId(h)}
        /\ queue' = [queue EXCEPT ![j] = rest \cup fitting]
        /\ Tally(j, [accepted |-> 1, generated |-> Cardinality(next),
                     coalesced |-> Cardinality(next \ fresh),
                     droppedByQueue |-> Cardinality(fresh \ fitting)])
        /\ Lose(j, fresh \ fitting)
        /\ UNCHANGED deferred

\* Fault: what a full queue dropped is no failure.
IgnoringDrops(j) ==
    IF revision # job[j].revision THEN "AUTHORITY_BREACH"
    ELSE IF queue[j] # {} \/ count[j].droppedByMailbox > 0 THEN "BUDGET_EXHAUSTED"
    ELSE IF count[j].expired + count[j].exhausted > 0 THEN "DEFERRED_DELIVERY_EXHAUSTED"
    ELSE IF Entries(j) # {} THEN "WAITING_FOR_DEFERRED_DELIVERY"
    ELSE "DRAINED"

\* The canonical hash covers the revision, so it differs from the one at the
\* start exactly if an event was committed since.
DrainStatus(j) ==
    IF revision # job[j].revision THEN "AUTHORITY_BREACH"
    ELSE IF queue[j] # {} \/ count[j].droppedByQueue + count[j].droppedByMailbox > 0
      THEN "BUDGET_EXHAUSTED"
    ELSE IF count[j].expired + count[j].exhausted > 0 THEN "DEFERRED_DELIVERY_EXHAUSTED"
    ELSE IF Entries(j) # {} THEN "WAITING_FOR_DEFERRED_DELIVERY"
    ELSE "DRAINED"

EndDrain(j) ==
    /\ draining = {j}
    /\ queue[j] = {} \/ budget = 0
    /\ draining' = {}
    /\ budget' = 0
    /\ status' = [status EXCEPT ![j] = DrainStatus(j)]
    /\ UNCHANGED <<busy, revision, seen, deferred, job, queue, count, lost>>

-----------------------------------------------------------------------------
\* Between drains a cell is put in another wake state (a recovery sets REPAIR,
\* a failed processEvent leaves ACTIVE) and becomes DORMANT again.
Occupy(c) ==
    /\ draining = {}
    /\ c \in BusyCells \ busy
    /\ busy' = busy \cup {c}
    /\ UNCHANGED <<revision, seen, deferred, job, queue, count, status, draining, budget, lost>>

Vacate(c) ==
    /\ draining = {}
    /\ c \in busy
    /\ busy' = busy \ {c}
    /\ UNCHANGED <<revision, seen, deferred, job, queue, count, status, draining, budget, lost>>

\* processEvent commits an event at c, whatever c's state, and puts c to sleep.
Commit(c) ==
    /\ draining = {}
    /\ revision < MaxRevision
    /\ revision' = revision + 1
    /\ busy' = busy \ {c}
    /\ UNCHANGED <<seen, deferred, job, queue, count, status, draining, budget, lost>>

Turn(j) ==
    \/ \E h \in queue[j] :
          \/ Reject(j, h) \/ Accept(j, h)
          \/ Defer(j, h) \/ DeferDuplicate(j, h) \/ DropByMailbox(j, h)
    \/ EndDrain(j)

Drain(j) == \E maxProcessed \in Budgets : BeginDrain(j, maxProcessed)

Next ==
    \/ \E j \in Jobs, c \in Causes, a \in ArrivalModes, size \in QueueSizes :
          Start(j, c, a, size)
    \/ \E j \in Jobs : Drain(j) \/ Turn(j)
    \/ \E c \in Cells : Occupy(c) \/ Vacate(c) \/ Commit(c)

\* A drain that has begun runs on: it is one call.
Fairness == \A j \in Jobs : WF_vars(Turn(j))

Spec == Init /\ [][Next]_vars /\ Fairness

-----------------------------------------------------------------------------
TypeOK ==
    /\ busy \subseteq Cells
    /\ revision \in Nat
    /\ seen \subseteq Event
    /\ deferred \subseteq Entry
    /\ job \in [Jobs -> Options \cup {NoJob}]
    /\ queue \in [Jobs -> SUBSET Handoff]
    /\ count \in [Jobs -> [Counters -> Nat]]
    /\ status \in [Jobs -> Statuses]
    /\ draining \in SUBSET Jobs
    /\ budget \in Nat
    /\ lost \subseteq [job : Jobs, arrival : [cause : Causes, recipient : Cells]]

\* The queue and the mailboxes stay within their limits, whatever the drains
\* release and derive.
Bounded ==
    /\ \A j \in Jobs : Cardinality(queue[j]) <= job[j].maxQueue
    /\ \A c \in Cells : Cardinality(Mailbox(c)) <= MaxMailbox

\* Every handoff a schedule was given or derived is accounted for by exactly
\* one of its counters, its queue or its mailbox entries.
Accounted ==
    \A j \in Jobs :
        count[j].initial + count[j].generated =
          count[j].coalesced + count[j].droppedByQueue + count[j].accepted
          + count[j].rejected + count[j].droppedByMailbox + count[j].duplicate
          + count[j].expired + count[j].exhausted + count[j].cancelled
          + Cardinality(queue[j]) + Cardinality(Entries(j))

\* Schedules may hold the same arrival in their queues, but a mailbox entry is
\* the only one of its arrival and its own schedule does not queue it as well.
OneEntry ==
    /\ \A e, f \in deferred : Arrival(e.handoff) = Arrival(f.handoff) => e = f
    /\ \A e \in deferred : Arrival(e.handoff) \notin Arrivals(queue[e.job])

\* "accept exactly once": however many schedules carry an arrival and however
\* often it is deferred and released, it is accepted at most once.
AcceptedOnce ==
    [][\A j \in Jobs : count'[j].accepted > count[j].accepted =>
         \E e \in seen' \ seen : Arrival(e) \notin SeenArrivals]_vars

\* The arrivals that signals and relays have asked for so far.
Offered ==
    UNION ({Arrivals(Signal(job[j].cause)) : j \in {k \in Jobs : job[k] # NoJob}}
           \cup {{[cause |-> e.cause, recipient |-> d] : d \in Neighbours(e.recipient)}
                   : e \in {f \in seen : f.depth < HopLimit}})

\* No arrival vanishes: unless it leads back to the origin of its signal it was
\* accepted, or some queue or mailbox holds it, or a schedule has lost it ...
NothingVanishes ==
    \A a \in Offered :
        \/ a.recipient = Origin[a.cause]
        \/ a \in SeenArrivals \cup DeferredArrivals
        \/ \E j \in Jobs : a \in Arrivals(queue[j])
        \/ \E l \in lost : l.arrival = a

\* ... and a schedule that has lost one never reports a clean drain.
LossReported ==
    \A l \in lost :
        status[l.job] \in {"DRAINED", "WAITING_FOR_DEFERRED_DELIVERY"} => draining = {l.job}

\* A signal carried by one schedule that met no busy cell, lost nothing and is
\* drained has reached every cell within its hop limit, each over a shortest path,
\* in however many drains.
WaveComplete ==
    \A j \in Jobs :
        /\ status[j] = "DRAINED" /\ draining = {}
        /\ count[j].deferred = 0
        /\ \A k \in Jobs \ {j} : job[k].cause # job[j].cause
        => \A c \in Cells \ {Origin[job[j].cause]} :
              LET d == Distance(c, Origin[job[j].cause]) IN
                d <= HopLimit =>
                  \E e \in seen : e.cause = job[j].cause /\ e.recipient = c /\ e.depth = d

\* Deferral ends: a schedule that is resumed again and again is some day rid of
\* its queue and of its mailbox entries for good, whatever the cells do.
ResumedEnds ==
    \A j \in Jobs :
        []<><<Drain(j)>>_vars => <>[](queue[j] = {} /\ Entries(j) = {})

\* No drain changes canonical truth, so no schedule reports that one did.
NoFalseBreach == \A j \in Jobs : status[j] # "AUTHORITY_BREACH"

=============================================================================
