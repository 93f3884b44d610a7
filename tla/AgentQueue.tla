----------------------------- MODULE AgentQueue -----------------------------
(***************************************************************************)
(* The agent's offline event queue (personel-queue/src/queue.rs) used by   *)
(* several threads at once through its pool of SQLite connections.  Each   *)
(* call is split at the points where it lets go of the database: between   *)
(* two autocommitted statements or transactions another thread may run.    *)
(*                                                                         *)
(* Producers are the collectors.  They call enqueue, the path the agent    *)
(* uses today, or enqueue_with_pressure, the admission path meant to       *)
(* replace it.  One uploader calls dequeue_batch, ack_batch and            *)
(* nack_batch with a fresh batch id for every dequeue.                     *)
(***************************************************************************)
EXTENDS QueueRows

CONSTANTS
    Producers,    \* the threads that enqueue
    Prios,        \* priorities of the events they enqueue
    Sizes,        \* payload sizes of these events
    MaxBytes,     \* max_bytes, the legacy cap on the database file
    HighWater,    \* high_water_bytes
    HardLimit,    \* hard_limit_bytes
    EvictChunk,   \* LIMIT of the SELECT in evict_inner (200)
    BatchMax,     \* limit argument of dequeue_batch
    MaxEvents,    \* bound: calls that enqueue an event
    MaxNacks      \* bound: nacks

ASSUME PriosAssumption == Prios \subseteq Priority
ASSUME SizesAssumption == Sizes \subseteq Nat
ASSUME LimitsAssumption ==
    /\ MaxBytes \in Nat
    /\ HighWater \in Nat
    /\ HardLimit \in Nat
ASSUME BoundsAssumption ==
    /\ EvictChunk \in Nat
    /\ BatchMax \in Nat
    /\ MaxEvents \in Nat
    /\ MaxNacks \in Nat
ASSUME CallersAssumption ==
    /\ IsFiniteSet(Producers) /\ Producers # {}
    /\ IsFiniteSet(Sizes) /\ Sizes # {}

VARIABLES
    rows,       \* table event_queue
    nextId,     \* the AUTOINCREMENT counter
    dbBytes,    \* page_count * page_size: grows with the rows, only VACUUM shrinks it
    counters,   \* EvictionCounters: rows evicted per priority
    report,     \* producer -> EvictionReport: what it evicted and has not counted yet
    rejected,   \* EvictionCounters.rejected_critical_only
    pc,         \* producer -> where its call stands
    job,        \* producer -> the event it enqueues
    scan,       \* producer -> the loop of evict_inner
    up,         \* the dequeue_batch call of the uploader
    held,       \* batch ids dequeue_batch returned and the caller has not settled
    calls,      \* enqueue calls so far
    nacks,      \* nacks so far
    legacy,     \* history: enqueue was called
    inserted,   \* history: priority -> rows inserted
    acked       \* history: priority -> rows removed by ack_batch

callerVars == <<up, held, nacks, acked>>
enqueueVars == <<pc, job, scan, calls, legacy, inserted>>
vars == <<rows, nextId, dbBytes, counters, report, rejected, enqueueVars, callerVars>>

Ids == 1 .. (nextId - 1)
Event == [prio : Priority, size : Nat]
Scan == [level : {Low, Normal}, freed : Nat, victims : SUBSET [id : Ids, size : Nat]]

NoEvent == [prio |-> Low, size |-> 0]
NoScan  == [level |-> Low, freed |-> 0, victims |-> {}]
NoReport == [l \in {High, Normal, Low} |-> 0]

Init ==
    /\ rows = NoRows
    /\ nextId = 1
    /\ dbBytes = 0
    /\ counters = [l \in {High, Normal, Low} |-> 0]
    /\ report = [p \in Producers |-> NoReport]
    /\ rejected = 0
    /\ pc = [p \in Producers |-> "idle"]
    /\ job = [p \in Producers |-> NoEvent]
    /\ scan = [p \in Producers |-> NoScan]
    /\ up = [pc |-> "idle", ids |-> {}, batch |-> 0]
    /\ held = {}
    /\ calls = 0
    /\ nacks = 0
    /\ legacy = FALSE
    /\ inserted = [l \in Priority |-> 0]
    /\ acked = [l \in Priority |-> 0]

Minus(a, b) == IF a > b THEN a - b ELSE 0      \* saturating_sub

\* The rows of S per priority, added to a tally.
Tally(t, S) == [l \in DOMAIN t |-> t[l] + Cardinality({i \in S : rows[i].prio = l})]

Start(p, e, next) ==
    /\ pc[p] = "idle"
    /\ calls < MaxEvents
    /\ calls' = calls + 1
    /\ job' = [job EXCEPT ![p] = e]
    /\ pc' = [pc EXCEPT ![p] = next]

\* The call returns: what it held is gone.
Return(p) ==
    /\ pc' = [pc EXCEPT ![p] = "idle"]
    /\ job' = [job EXCEPT ![p] = NoEvent]
    /\ scan' = [scan EXCEPT ![p] = NoScan]

-----------------------------------------------------------------------------
(* enqueue: a Critical event goes straight to the INSERT; any other one     *)
(* first runs evict_inner when the database file is over its cap.           *)

Enqueue(p, e) ==
    /\ Start(p, e, IF e.prio # Critical /\ dbBytes + e.size > MaxBytes
                   THEN "select" ELSE "insert")
    /\ legacy' = TRUE
    /\ UNCHANGED <<rows, nextId, dbBytes, counters, report, rejected, scan, inserted, callerVars>>

\* Mutant: the SELECT of evict_inner without its priority test.
EvictSelectAnyPriority(p) ==
    LET oldest == {i \in Pending(rows) : Cardinality({j \in Pending(rows) : j < i}) < EvictChunk}
    IN /\ pc[p] = "select"
       /\ pc' = [pc EXCEPT ![p] = IF oldest # {} THEN "delete" ELSE "insert"]
       /\ scan' = [scan EXCEPT ![p].victims = {[id |-> i, size |-> rows[i].size] : i \in oldest}]
       /\ UNCHANGED <<rows, nextId, dbBytes, counters, report, rejected, job, calls, legacy, inserted, callerVars>>

\* The SELECT of one priority of evict_inner, outside any transaction.
EvictSelect(p) ==
    LET level  == scan[p].level
        all    == {i \in Pending(rows) : rows[i].prio = level}
        oldest == {i \in all : Cardinality({j \in all : j < i}) < EvictChunk}
    IN /\ pc[p] = "select"
       /\ pc' = [pc EXCEPT ![p] = IF oldest # {} THEN "delete"
                                  ELSE IF level = Low THEN "select" ELSE "insert"]
       /\ scan' = [scan EXCEPT
            ![p].victims = {[id |-> i, size |-> rows[i].size] : i \in oldest},
            ![p].level = IF oldest = {} THEN Normal ELSE level]
       /\ UNCHANGED <<rows, nextId, dbBytes, counters, report, rejected, job, calls, legacy, inserted, callerVars>>

\* One autocommitted DELETE by id, whatever became of the row since the SELECT;
\* the size read back then counts as freed.
EvictDelete(p) ==
    /\ pc[p] = "delete"
    /\ \E v \in scan[p].victims :
        LET freed  == scan[p].freed + v.size
            rest   == scan[p].victims \ {v}
            enough == freed >= job[p].size
            last   == enough \/ rest = {}
        IN /\ \A w \in rest : v.id < w.id
           /\ rows' = Delete(rows, {v.id})
           /\ scan' = [scan EXCEPT ![p].freed = freed, ![p].victims = rest,
                                   ![p].level = IF last THEN Normal ELSE @]
           /\ pc' = [pc EXCEPT ![p] =
                IF ~last THEN "delete"
                ELSE IF enough \/ scan[p].level = Normal THEN "insert" ELSE "select"]
    /\ UNCHANGED <<nextId, dbBytes, counters, report, rejected, job, calls, legacy, inserted, callerVars>>

\* The INSERT that ends enqueue and enqueue_with_pressure alike.
InsertEvent(p) ==
    /\ pc[p] = "insert"
    /\ rows' = Insert(rows, nextId, job[p].prio, job[p].size)
    /\ nextId' = nextId + 1
    /\ dbBytes' = Max({dbBytes, BytesOf(rows', DOMAIN rows')})
    /\ inserted' = [inserted EXCEPT ![job[p].prio] = @ + 1]
    /\ Return(p)
    /\ UNCHANGED <<counters, report, rejected, calls, legacy, callerVars>>

-----------------------------------------------------------------------------
(* enqueue_with_pressure: stats, eviction, stats, eviction, stats, INSERT,  *)
(* each on a connection of its own.                                         *)

WouldBe(p) == PendingBytes(rows) + job[p].size

EnqueueWithPressure(p, e) ==
    /\ Start(p, e, IF PendingBytes(rows) + e.size > HighWater THEN "evict_ln" ELSE "stats")
    /\ UNCHANGED <<rows, nextId, dbBytes, counters, report, rejected, scan, legacy, inserted, callerVars>>

\* One eviction transaction.  What it took is in the report of the call; the counters
\* learn of it after the COMMIT.
EvictTx(p, victims) ==
    /\ rows' = Delete(rows, victims)
    /\ report' = [report EXCEPT ![p] = Tally(@, victims)]

\* Where a call goes on once its report is counted.
AfterCount == [count_ln |-> "stats", count_all |-> "recheck", count_floor |-> "refuse"]

\* On to count what was evicted, or further at once.
Counting(p, victims, stage) ==
    pc' = [pc EXCEPT ![p] = IF victims = {} THEN AfterCount[stage] ELSE stage]

\* The fetch_adds that follow an eviction's COMMIT: Low, Normal, High, each on its own.
CountEvicted(p) ==
    /\ pc[p] \in DOMAIN AfterCount
    /\ \E l \in DOMAIN NoReport :
        /\ report[p][l] > 0
        /\ \A m \in DOMAIN NoReport : m > l => report[p][m] = 0
        /\ counters' = [counters EXCEPT ![l] = @ + report[p][l]]
        /\ report' = [report EXCEPT ![p][l] = 0]
    /\ pc' = [pc EXCEPT ![p] = IF report'[p] = NoReport THEN AfterCount[@] ELSE @]
    /\ UNCHANGED <<rows, nextId, dbBytes, rejected, job, scan, calls, legacy, inserted, callerVars>>

\* evict_low_and_normal_until_under, down to the high-water mark.
EvictLowAndNormal(p) ==
    LET victims == Victims(rows, {Low, Normal}, Minus(HighWater, job[p].size))
    IN /\ pc[p] = "evict_ln"
       /\ EvictTx(p, victims)
       /\ Counting(p, victims, "count_ln")
       /\ UNCHANGED <<nextId, dbBytes, counters, rejected, job, scan, calls, legacy, inserted, callerVars>>

\* The second stats: admitted, on to the aggressive eviction, or QueueBackpressure.
CheckHardLimit(p) ==
    /\ pc[p] = "stats"
    /\ \/ /\ WouldBe(p) <= HardLimit
          /\ pc' = [pc EXCEPT ![p] = "insert"]
          /\ UNCHANGED <<job, scan>>
       \/ /\ WouldBe(p) > HardLimit
          /\ job[p].prio = Critical
          /\ pc' = [pc EXCEPT ![p] = "evict_all"]
          /\ UNCHANGED <<job, scan>>
       \/ /\ WouldBe(p) > HardLimit
          /\ job[p].prio # Critical
          /\ Return(p)
    /\ UNCHANGED <<rows, nextId, dbBytes, counters, report, rejected, calls, legacy, inserted, callerVars>>

\* evict_until_under for a Critical event, down to the hard limit or to the critical floor.
EvictAll(p) ==
    LET target  == Minus(HardLimit, job[p].size)
        victims == Victims(rows, {Low, Normal, High}, target)
    IN /\ pc[p] = "evict_all"
       /\ EvictTx(p, victims)
       /\ Counting(p, victims, IF PendingBytes(rows') <= target THEN "count_all" ELSE "count_floor")
       /\ UNCHANGED <<nextId, dbBytes, counters, rejected, job, scan, calls, legacy, inserted, callerVars>>

\* The third stats, after the aggressive eviction.
RecheckHardLimit(p) ==
    /\ pc[p] = "recheck"
    /\ pc' = [pc EXCEPT ![p] = IF WouldBe(p) <= HardLimit THEN "insert" ELSE "refuse"]
    /\ UNCHANGED <<rows, nextId, dbBytes, counters, report, rejected, job, scan, calls, legacy, inserted, callerVars>>

\* QueueCriticalOnlyOverflow: the Critical event is refused.
Refuse(p) ==
    /\ pc[p] = "refuse"
    /\ rejected' = rejected + 1
    /\ Return(p)
    /\ UNCHANGED <<rows, nextId, dbBytes, counters, report, calls, legacy, inserted, callerVars>>

-----------------------------------------------------------------------------
(* dequeue_batch: SELECT the ids, UPDATE them in a transaction, then SELECT *)
(* each row again.                                                          *)

DequeueSelect ==
    /\ up.pc = "idle"
    /\ Pending(rows) # {}
    /\ up' = [pc |-> "update", ids |-> NextPending(rows, BatchMax), batch |-> up.batch + 1]
    /\ UNCHANGED <<rows, nextId, dbBytes, counters, report, rejected, enqueueVars, held, nacks, acked>>

\* Nothing pending: dequeue_batch returns an empty batch.
DequeueEmpty ==
    /\ up.pc = "idle"
    /\ Pending(rows) = {}
    /\ UNCHANGED vars

DequeueUpdate ==
    /\ up.pc = "update"
    /\ rows' = MarkInFlight(rows, up.ids, up.batch)
    /\ up' = [up EXCEPT !.pc = "fetch"]
    /\ UNCHANGED <<nextId, dbBytes, counters, report, rejected, enqueueVars, held, nacks, acked>>

\* Every row is there: the caller gets the batch.
DequeueFetch ==
    /\ up.pc = "fetch"
    /\ up.ids \subseteq DOMAIN rows
    /\ held' = held \cup {up.batch}
    /\ up' = [up EXCEPT !.pc = "idle", !.ids = {}]
    /\ UNCHANGED <<rows, nextId, dbBytes, counters, report, rejected, enqueueVars, nacks, acked>>

\* query_row finds no row: dequeue_batch fails after its transaction committed.
DequeueFails ==
    /\ up.pc = "fetch"
    /\ ~(up.ids \subseteq DOMAIN rows)
    /\ up' = [up EXCEPT !.pc = "idle", !.ids = {}]
    /\ UNCHANGED <<rows, nextId, dbBytes, counters, report, rejected, enqueueVars, held, nacks, acked>>

Ack(b) ==
    /\ up.pc = "idle"
    /\ b \in held
    /\ rows' = AckBatch(rows, b)
    /\ acked' = Tally(acked, BatchRows(rows, b))
    /\ held' = held \ {b}
    /\ UNCHANGED <<nextId, dbBytes, counters, report, rejected, enqueueVars, up, nacks>>

Nack(b) ==
    /\ up.pc = "idle"
    /\ b \in held
    /\ nacks < MaxNacks
    /\ rows' = NackBatch(rows, b)
    /\ held' = held \ {b}
    /\ nacks' = nacks + 1
    /\ UNCHANGED <<nextId, dbBytes, counters, report, rejected, enqueueVars, up, acked>>

Vacuum ==
    /\ dbBytes' = BytesOf(rows, DOMAIN rows)
    /\ UNCHANGED <<rows, nextId, counters, report, rejected, enqueueVars, callerVars>>

-----------------------------------------------------------------------------
Events == [prio : Prios, size : Sizes]

Uploader ==
    \/ DequeueSelect \/ DequeueEmpty \/ DequeueUpdate \/ DequeueFetch \/ DequeueFails
    \/ \E b \in held : Ack(b) \/ Nack(b)

LegacyEnqueue ==
    \E p \in Producers :
        \/ \E e \in Events : Enqueue(p, e)
        \/ EvictSelect(p)
        \/ EvictDelete(p)
        \/ InsertEvent(p)

PressureEnqueue ==
    \E p \in Producers :
        \/ \E e \in Events : EnqueueWithPressure(p, e)
        \/ EvictLowAndNormal(p)
        \/ CheckHardLimit(p)
        \/ EvictAll(p)
        \/ CountEvicted(p)
        \/ RecheckHardLimit(p)
        \/ Refuse(p)
        \/ InsertEvent(p)

\* The whole interface: the agent calls only enqueue today, and
\* enqueue_with_pressure is meant to take its place.
Next == LegacyEnqueue \/ PressureEnqueue \/ Uploader \/ Vacuum

Spec == Init /\ [][Next]_vars

-----------------------------------------------------------------------------
(* Properties *)

TableOK ==
    /\ nextId \in Nat \ {0}
    /\ DOMAIN rows \subseteq Ids
    /\ rows \in [DOMAIN rows -> Row]

CallsOK ==
    /\ pc \in [Producers -> {"idle", "select", "delete", "insert", "evict_ln",
                             "count_ln", "stats", "evict_all", "count_all", "count_floor",
                             "recheck", "refuse"}]
    /\ job \in [Producers -> Event]
    /\ scan \in [Producers -> Scan]

UploaderOK ==
    /\ up \in [pc : {"idle", "update", "fetch"}, ids : SUBSET Ids, batch : Nat]
    /\ held \subseteq 1 .. up.batch
    /\ up.pc # "idle" => up.batch > 0

TalliesOK ==
    /\ dbBytes \in Nat
    /\ counters \in [{High, Normal, Low} -> Nat]
    /\ report \in [Producers -> [{High, Normal, Low} -> Nat]]
    /\ rejected \in Nat
    /\ calls \in 0 .. MaxEvents
    /\ nacks \in 0 .. MaxNacks
    /\ legacy \in BOOLEAN
    /\ inserted \in [Priority -> Nat]
    /\ acked \in [Priority -> Nat]

\* Every variable stays in its type; the rows, and the ids the threads work on,
\* are ids the AUTOINCREMENT counter has passed.
TypeOK == TableOK /\ CallsOK /\ UploaderOK /\ TalliesOK

\* What a thread is about to evict is evictable, if still there: ids are never
\* reused and the priority of a row never changes.
VictimsEvictable ==
    \A p \in Producers : \A v \in scan[p].victims :
        v.id \in DOMAIN rows => rows[v.id].prio \in {Low, Normal}

AggressiveForCritical ==
    \A p \in Producers : pc[p] = "evict_all" => job[p].prio = Critical

\* The inductive invariant: the types, the ids a thread is about to delete are
\* evictable whatever happened since its SELECT, and only a Critical event reaches
\* the aggressive eviction.
Sound == TypeOK /\ VictimsEvictable /\ AggressiveForCritical

Gone(i) == i \in DOMAIN rows /\ i \notin DOMAIN rows'

\* The ack of the batch of row i, which the caller was given.
AckedNow(i) ==
    /\ rows[i].status = "in_flight"
    /\ rows[i].batch \in held
    /\ held' = held \ {rows[i].batch}

\* "Critical events are NEVER deleted to reclaim space": whatever the threads
\* interleave, a Critical row leaves the table only when its batch is acked.
CriticalLeavesByAck ==
    [][\A i \in DOMAIN rows : Gone(i) /\ rows[i].prio = Critical => AckedNow(i)]_vars

\* A High row is evicted only while enqueue_with_pressure makes room for a
\* Critical event; the high-water pass and the legacy evict_inner leave it.
HighYieldsToCriticalOnly ==
    [][\A i \in DOMAIN rows : Gone(i) /\ rows[i].prio = High /\ ~AckedNow(i) =>
        \E p \in Producers : pc[p] = "evict_all" /\ pc'[p] # pc[p] /\ job[p].prio = Critical]_vars

\* The DELETE by id of evict_inner, which tests neither status nor priority.
DeletedById(i) ==
    \E p \in Producers : \E v \in scan[p].victims : v.id = i /\ v \notin scan'[p].victims

\* An eviction takes pending rows only: a row handed to the uploader leaves by
\* an ack of its batch, or because evict_inner had chosen it before.
InFlightLeavesByAck ==
    [][\A i \in DOMAIN rows :
        Gone(i) /\ rows[i].status = "in_flight" => AckedNow(i) \/ DeletedById(i)]_vars

\* How a row may leave the table, in the three ways above.
LeavesByRight == CriticalLeavesByAck /\ HighYieldsToCriticalOnly /\ InFlightLeavesByAck

\* Eviction under pressure goes from Low up and oldest first: it never takes a
\* row while it leaves one that should have gone before it.  It stops as soon as
\* the event fits: put back, the last row it took would exceed the mark the call
\* was making room for.
EvictsInOrder ==
    [][\A i \in Pending(rows) : Gone(i) /\ ~DeletedById(i) =>
        /\ \A j \in Pending(rows) : EvictBefore(rows, j, i) => Gone(j)
        /\ \/ \E j \in Pending(rows) : Gone(j) /\ EvictBefore(rows, i, j)
           \/ \E p \in Producers :
                /\ pc[p] \in {"evict_ln", "evict_all"} /\ pc'[p] # pc[p]
                /\ PendingBytes(rows') + rows[i].size >
                     Minus(IF pc[p] = "evict_ln" THEN HighWater ELSE HardLimit, job[p].size)]_vars

Present(l) == Cardinality({i \in DOMAIN rows : rows[i].prio = l})

\* Evictions the counters hold, or the report of a call that is still to count them.
Evicted(l) == counters[l] + MapThenSumSet(LAMBDA p : report[p][l], Producers)

\* Every Critical or High event that entered the table is in it, was acked, or is
\* evicted: the counters lag behind the table by the reports of calls under way and
\* by nothing else.  Low and Normal ones that evict_inner took are counted nowhere,
\* yet none is counted twice.
EvictionsAccounted ==
    /\ inserted[Critical] = acked[Critical] + Present(Critical)
    /\ inserted[High] = acked[High] + Present(High) + Evicted(High)
    /\ \A l \in {Low, Normal} : IF legacy THEN inserted[l] >= acked[l] + Present(l) + Evicted(l)
                                         ELSE inserted[l] = acked[l] + Present(l) + Evicted(l)

\* How far concurrent enqueue_with_pressure calls can overrun the hard limit: the
\* check and the INSERT are apart, so each other caller may add one event of its
\* own.  The legacy path and a nack ask no limit.
PendingBounded ==
    ~legacy /\ nacks = 0 =>
        PendingBytes(rows) + MapThenSumSet(LAMBDA p : job[p].size, {p \in Producers : pc[p] = "insert"})
            <= HardLimit + (Cardinality(Producers) - 1) * Max(Sizes)

\* The table is sound, its evictions are accounted for and its bytes bounded, with
\* any calls of Queue under way together.
Accounted == Sound /\ EvictionsAccounted /\ PendingBounded
=============================================================================
