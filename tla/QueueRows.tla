----------------------------- MODULE QueueRows -----------------------------
(***************************************************************************)
(* The event_queue table of the agent's SQLite queue and the statements    *)
(* that personel-queue/src/queue.rs runs on it, each as an operator from   *)
(* one table to the next.  A table is a function from the row ids present  *)
(* to rows; a row keeps the columns the statements read.  Status 0 is      *)
(* "pending" and status 1 "in_flight"; the batch of a pending row is 0,    *)
(* which stands for NULL.                                                  *)
(***************************************************************************)
EXTENDS Naturals, FiniteSets, FiniteSetsExt, Functions

Critical == 0
High     == 1
Normal   == 2
Low      == 3
Priority == {Critical, High, Normal, Low}

Status == {"pending", "in_flight"}
Row == [prio : Priority, size : Nat, status : Status, batch : Nat]

NoRows == [i \in {} |-> [prio |-> Low, size |-> 0, status |-> "pending", batch |-> 0]]

Pending(rows) == {i \in DOMAIN rows : rows[i].status = "pending"}

BytesOf(rows, S) == MapThenSumSet(LAMBDA i : rows[i].size, S)

\* stats_inner counts the payload bytes of pending rows only.
PendingBytes(rows) == BytesOf(rows, Pending(rows))

Insert(rows, id, prio, size) ==
    [i \in DOMAIN rows \cup {id} |->
        IF i = id
        THEN [prio |-> prio, size |-> size, status |-> "pending", batch |-> 0]
        ELSE rows[i]]

Delete(rows, S) == Restrict(rows, DOMAIN rows \ S)

\* ORDER BY priority ASC, id ASC.
DequeueBefore(rows, i, j) ==
    \/ rows[i].prio < rows[j].prio
    \/ rows[i].prio = rows[j].prio /\ i < j

\* The SELECT of dequeue_batch: the first limit pending rows in that order.
NextPending(rows, limit) ==
    {j \in Pending(rows) :
        Cardinality({i \in Pending(rows) : DequeueBefore(rows, i, j)}) < limit}

\* Mutant: the batch id is set, the status is not.
MarkInFlightKeepsStatus(rows, ids, b) ==
    [i \in DOMAIN rows |-> IF i \in ids THEN [rows[i] EXCEPT !.batch = b] ELSE rows[i]]

\* The UPDATE of dequeue_batch is by id: it touches the rows still there and
\* tests no status.
MarkInFlight(rows, ids, b) ==
    [i \in DOMAIN rows |->
        IF i \in ids THEN [rows[i] EXCEPT !.status = "in_flight", !.batch = b]
                     ELSE rows[i]]

BatchRows(rows, b) ==
    {i \in DOMAIN rows : rows[i].status = "in_flight" /\ rows[i].batch = b}

AckBatch(rows, b) == Delete(rows, BatchRows(rows, b))

NackBatch(rows, b) ==
    [i \in DOMAIN rows |->
        IF i \in BatchRows(rows, b)
        THEN [rows[i] EXCEPT !.status = "pending", !.batch = 0]
        ELSE rows[i]]

\* Eviction visits the priorities from Low up and the ids of each from the oldest.
EvictBefore(rows, i, j) ==
    \/ rows[i].prio > rows[j].prio
    \/ rows[i].prio = rows[j].prio /\ i < j

\* Mutant: eviction in upload order.
VictimsUploadOrder(rows, levels, target) ==
    LET candidates == {i \in Pending(rows) : rows[i].prio \in levels}
    IN {j \in candidates : PendingBytes(rows) >
            target + BytesOf(rows, {i \in candidates : DequeueBefore(rows, i, j)})}

\* The loop shared by evict_until_under and evict_low_and_normal_until_under:
\* a pending row of one of the levels goes as long as the bytes left by the
\* rows before it are still above the target.
Victims(rows, levels, target) ==
    LET candidates == {i \in Pending(rows) : rows[i].prio \in levels}
        before(j)  == {i \in candidates : EvictBefore(rows, i, j)}
    IN {j \in candidates :
            PendingBytes(rows) > target + BytesOf(rows, before(j))}
=============================================================================
